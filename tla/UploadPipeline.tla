--------------------------- MODULE UploadPipeline ---------------------------
(***************************************************************************)
(* Uploaded documents: UploadService (ingestion/uploads.py), its durable   *)
(* worker (ingestion/worker.py), the HTTP handlers that call it (api.py),  *)
(* and the part of IngestionService.ingest that changes the library.       *)
(*                                                                         *)
(* Everything the service knows is in files and in the index; an action is *)
(* one file operation, one call to the index or to the broker, or one      *)
(* look at several files that nothing in the code makes atomic.  They are  *)
(* interleaved by four kinds of thread:                                    *)
(*   - a request thread per upload, which stages the PDF and hands the job *)
(*     over (or gives it up when the broker refuses it);                   *)
(*   - the runner, which indexes one job at a time: in the API process,    *)
(*     under its ingestion lock, or in the durable worker, which takes its *)
(*     jobs from the broker;                                               *)
(*   - the deleter: DELETE /documents/{id};                                *)
(*   - the boot thread, which recovers when the API process starts.        *)
(*                                                                         *)
(* A PDF is uploaded under one title, so its document ID stands for its    *)
(* checksum.  `listed` stands for the three derived files of a document    *)
(* (generated manifest, ingestion state, tables), which ingestion writes   *)
(* and cleanup removes together.                                           *)
(***************************************************************************)
EXTENDS Naturals

CONSTANTS
    Docs,          \* document IDs
    Uploads,       \* requests to POST /documents/upload, and the jobs they create
    DocumentOf,    \* the document each upload carries
    Durable,       \* whether INGESTION_BROKER_URL is set
    MaxRetries,    \* settings.ingestion_max_retries
    MaxCrashes,    \* bound: crashes of each process
    Runner, Deleter, Boot,
    None

Procs == {"api", "worker"}
Threads == Uploads \cup {Runner, Deleter, Boot}

ASSUME UploadAssumption ==
    /\ DocumentOf \in [Uploads -> Docs]
    /\ Durable \in BOOLEAN
    /\ MaxRetries \in Nat
    /\ MaxCrashes \in [Procs -> Nat]
    /\ Runner # Deleter /\ Runner # Boot /\ Deleter # Boot
    /\ {Runner, Deleter, Boot} \cap Uploads = {}
    /\ None \notin Docs \cup Uploads

VARIABLES
    pdfs,        \* documents with a PDF in source/pdf/
    overrides,   \* documents with a manifest in manifests/uploads/
    listed,      \* documents with a manifest in manifests/generated/
    withdrawn,   \* documents with a marker in uploads/withdrawn/
    points,      \* documents with points in the index
    job,         \* the status in each upload's job file, "none" without a file
    queue,       \* the broker's messages: an upload and its attempt
    th,          \* the threads: where each is and what it works on
    crashes      \* crashes of each process so far

library == <<pdfs, overrides, listed, withdrawn, points>>
vars == <<library, job, queue, th, crashes>>

Messages == [upload : Uploads, attempt : 0..MaxRetries]

\* The steps of _finish_withdrawal, each between two of its file or index operations.
Cleaning == {"points", "pdf", "override", "marker"}
Discarding == {"discard", "withdrawn", "fail"}
Deleting == {"delPoints", "delPdf", "delOverride", "delJobs", "delListed"}
Finished == {"succeeded", "failed"}
Active == {"queued", "processing"}

ProgramCounters ==
    {"idle"} \cup Cleaning \cup Discarding \cup Deleting \cup
    {"new", "unlisted", "checked", "store", "stored", "described", "saved", "pending",
     "done", "refused", "rejected", "dead"} \cup
    {"sweep", "discover", "pair", "extract", "empty", "upsert", "manifest", "succeed",
     "raised", "retry", "ack"} \cup
    {"lock", "recover"}

\* What a thread keeps in memory: where it is, where it goes on after a withdrawal, and the
\* upload, attempt, document and documents it works on.
ThreadStates == [pc : ProgramCounters, then : {"store", "sweep", "fail"},
                 upload : Uploads \cup {None}, attempt : 0..MaxRetries,
                 doc : Docs \cup {None}, docs : SUBSET Docs]

TypeOK ==
    /\ pdfs \subseteq Docs
    /\ overrides \subseteq Docs
    /\ listed \subseteq Docs
    /\ withdrawn \subseteq Docs
    /\ points \subseteq Docs
    /\ job \in [Uploads -> {"none"} \cup Active \cup Finished]
    /\ queue \subseteq Messages
    /\ th \in [Threads -> ThreadStates]
    /\ crashes \in [Procs -> Nat]

Idle == [pc |-> "idle", then |-> "sweep", upload |-> None, attempt |-> 0,
         doc |-> None, docs |-> {}]

Request(u, pc) == [pc |-> pc, then |-> "store", upload |-> u, attempt |-> 0,
                   doc |-> DocumentOf[u], docs |-> {}]

Init ==
    /\ pdfs = {}
    /\ overrides = {}
    /\ listed = {}
    /\ withdrawn = {}
    /\ points = {}
    /\ job = [u \in Uploads |-> "none"]
    /\ queue = {}
    /\ th = [t \in Threads |-> IF t \in Uploads THEN Request(t, "new") ELSE Idle]
    /\ crashes = [p \in Procs |-> 0]

-----------------------------------------------------------------------------
(* Threads and processes *)

Proc(t) == IF t = Runner /\ Durable THEN "worker" ELSE "api"

At(t, pc) == th[t].pc = pc

Goto(t, pc) == th' = [th EXCEPT ![t].pc = pc]

\* The API serves requests once the service is constructed.
Serving == At(Boot, "idle")

-----------------------------------------------------------------------------
(* Faulty variants of the operations: bugs the properties must catch. *)

\* Finish a withdrawal without taking the lock.
WithdrawalUnlocked(t) == t \in Threads

\* Report a job that died as "interrupted", which UploadStatus does not have.
FailNamesInterruption(t) ==
    /\ At(t, "fail")
    /\ job' = [job EXCEPT ![th[t].upload] = IF t = Boot THEN "interrupted" ELSE "failed"]
    /\ Goto(t, IF t = Runner THEN "ack" ELSE IF t = Boot THEN "recover" ELSE "rejected")
    /\ UNCHANGED <<library, queue, crashes>>

\* Treat point removal as best effort and go on to the source.
RemovePointsBestEffort(t) ==
    /\ At(t, "points")
    /\ points' \in {points, points \ {th[t].doc}}
    /\ Goto(t, "pdf")
    /\ UNCHANGED <<pdfs, overrides, listed, withdrawn, job, queue, crashes>>

\* Run a job again although it is finished.
RunnableUnlessGone(u) == job[u] # "none"

\* Leave the retry to the message that is about to be acknowledged.
RetryUnpublished ==
    /\ At(Runner, "retry")
    /\ Goto(Runner, "ack")
    /\ UNCHANGED <<library, job, queue, crashes>>

\* The message was acknowledged when it was taken: the job dies with the worker.
CrashWorkerLosesMessage ==
    /\ Durable
    /\ ~At(Runner, "idle")
    /\ crashes["worker"] < MaxCrashes["worker"]
    /\ crashes' = [crashes EXCEPT !["worker"] = @ + 1]
    /\ queue' = {m \in queue : m.upload # th[Runner].upload}
    /\ th' = [th EXCEPT ![Runner] = Idle]
    /\ UNCHANGED <<library, job>>

\* Serve without failing the jobs that died with the process.
FinishRecoveryKeepsJobs ==
    /\ At(Boot, "recover")
    /\ th' = [th EXCEPT ![Boot] = [Idle EXCEPT !.pc = "sweep", !.docs = withdrawn]]
    /\ UNCHANGED <<library, job, queue, crashes>>

-----------------------------------------------------------------------------
(* Locks *)

\* _withdrawal_lock is a threading.Lock: it excludes the threads of one process.
WithdrawalLockFree(t) ==
    \A s \in Threads : Proc(s) = Proc(t) => th[s].pc \notin Cleaning

\* _ingestion_lock of the API process, which the worker cannot take.
IngestionLockFree ==
    /\ th[Deleter].pc \notin Deleting
    /\ Durable \/ At(Runner, "idle")

\* Some job of the document is queued or processing, as list_jobs shows it.
InProgress(d) == \E u \in Uploads : DocumentOf[u] = d /\ job[u] \in Active

-----------------------------------------------------------------------------
(* Withdrawal: _discard_failed and _finish_withdrawal, which every thread  *)
(* but the deleter runs.  `then` is where the caller goes on.              *)

\* _finish_withdrawal(d) takes the lock, looks for the marker, and removes the derived
\* files; without a marker there is nothing to finish.
FinishWithdrawal(t, d, then) ==
    /\ WithdrawalLockFree(t)
    /\ th' = [th EXCEPT ![t] = [@ EXCEPT !.pc = IF d \in withdrawn THEN "points" ELSE then,
                                         !.then = then, !.doc = d,
                                !.docs = th[t].docs \ {d}]]
    /\ listed' = IF d \in withdrawn THEN listed \ {d} ELSE listed
    /\ UNCHANGED <<pdfs, overrides, withdrawn, points, job, queue, crashes>>

\* The index removes the document's points, or cannot be reached: then the source stays,
\* and the upload that waited for the cleanup is refused.
RemovePoints(t) ==
    /\ At(t, "points")
    /\ \/ /\ points' = points \ {th[t].doc}
          /\ Goto(t, "pdf")
       \/ /\ Goto(t, IF th[t].then = "store" THEN "refused" ELSE th[t].then)
          /\ UNCHANGED points
    /\ UNCHANGED <<pdfs, overrides, listed, withdrawn, job, queue, crashes>>

RemovePdf(t) ==
    /\ At(t, "pdf")
    /\ pdfs' = pdfs \ {th[t].doc}
    /\ Goto(t, "override")
    /\ UNCHANGED <<overrides, listed, withdrawn, points, job, queue, crashes>>

RemoveOverride(t) ==
    /\ At(t, "override")
    /\ overrides' = overrides \ {th[t].doc}
    /\ Goto(t, "marker")
    /\ UNCHANGED <<pdfs, listed, withdrawn, points, job, queue, crashes>>

RemoveMarker(t) ==
    /\ At(t, "marker")
    /\ withdrawn' = withdrawn \ {th[t].doc}
    /\ Goto(t, th[t].then)
    /\ UNCHANGED <<pdfs, overrides, listed, points, job, queue, crashes>>

Discard(t) ==
    /\ At(t, "discard")
    /\ withdrawn' = withdrawn \cup {DocumentOf[th[t].upload]}
    /\ Goto(t, "withdrawn")
    /\ UNCHANGED <<pdfs, overrides, listed, points, job, queue, crashes>>

CleanUpFailed(t) ==
    /\ At(t, "withdrawn")
    /\ FinishWithdrawal(t, DocumentOf[th[t].upload], "fail")

\* The job's status is written from a copy read earlier, whatever the file says now.
Fail(t) ==
    /\ At(t, "fail")
    /\ job' = [job EXCEPT ![th[t].upload] = "failed"]
    /\ Goto(t, IF t = Runner THEN "ack" ELSE IF t = Boot THEN "recover" ELSE "rejected")
    /\ UNCHANGED <<library, queue, crashes>>

\* finish_withdrawals: the markers were listed before the first was looked at.
SweepNext(t, d) ==
    /\ At(t, "sweep")
    /\ d \in th[t].docs
    /\ FinishWithdrawal(t, d, "sweep")

-----------------------------------------------------------------------------
(* The request threads: upload_document, stage, enqueue_upload, fail       *)

\* stage looks for the PDF in the library, then for a job that carries it.
CheckLibrary(u) ==
    /\ At(u, "new")
    /\ Serving
    /\ Goto(u, IF DocumentOf[u] \in listed THEN "refused" ELSE "unlisted")
    /\ UNCHANGED <<library, job, queue, crashes>>

CheckJobs(u) ==
    /\ At(u, "unlisted")
    /\ Goto(u, IF InProgress(DocumentOf[u]) THEN "refused" ELSE "checked")
    /\ UNCHANGED <<library, job, queue, crashes>>

FinishEarlierAttempt(u) ==
    /\ At(u, "checked")
    /\ FinishWithdrawal(u, DocumentOf[u], "store")

StorePdf(u) ==
    /\ At(u, "store")
    /\ pdfs' = pdfs \cup {DocumentOf[u]}
    /\ Goto(u, "stored")
    /\ UNCHANGED <<overrides, listed, withdrawn, points, job, queue, crashes>>

DescribePdf(u) ==
    /\ At(u, "stored")
    /\ overrides' = overrides \cup {DocumentOf[u]}
    /\ Goto(u, "described")
    /\ UNCHANGED <<pdfs, listed, withdrawn, points, job, queue, crashes>>

\* In the API process the job now waits for its background task.
SaveJob(u) ==
    /\ At(u, "described")
    /\ job' = [job EXCEPT ![u] = "queued"]
    /\ Goto(u, IF Durable THEN "saved" ELSE "pending")
    /\ UNCHANGED <<library, queue, crashes>>

Enqueue(u) ==
    /\ At(u, "saved")
    /\ queue' = queue \cup {[upload |-> u, attempt |-> 0]}
    /\ Goto(u, "done")
    /\ UNCHANGED <<library, job, crashes>>

\* send_task raises, perhaps after the broker took the message: fail() gives the job up,
\* if it still exists.
EnqueueRaises(u) ==
    /\ At(u, "saved")
    /\ queue' \in {queue, queue \cup {[upload |-> u, attempt |-> 0]}}
    /\ Goto(u, IF job[u] = "none" THEN "rejected" ELSE "discard")
    /\ UNCHANGED <<library, job, crashes>>

-----------------------------------------------------------------------------
(* The runner: process or run_upload_task, run_job, IngestionService.ingest *)

\* A job that is finished or gone is not run; the message of one is acknowledged.
Runnable(u) == job[u] \in Active

Begin(u, attempt) ==
    [pc |-> "sweep", then |-> "sweep", upload |-> u, attempt |-> attempt,
     doc |-> None, docs |-> withdrawn]

\* process: the background task of a request has taken the ingestion lock.
StartPending(u) ==
    /\ ~Durable
    /\ At(u, "pending")
    /\ IngestionLockFree
    /\ th' = [th EXCEPT ![u].pc = "done",
                        ![Runner] = IF Runnable(u) THEN Begin(u, 0) ELSE Idle]
    /\ UNCHANGED <<library, job, queue, crashes>>

StartMessage(m) ==
    /\ At(Runner, "idle")
    /\ IF Runnable(m.upload)
       THEN /\ th' = [th EXCEPT ![Runner] = Begin(m.upload, m.attempt)]
            /\ UNCHANGED queue
       ELSE /\ queue' = queue \ {m}
            /\ UNCHANGED th
    /\ UNCHANGED <<library, job, crashes>>

Subject == DocumentOf[th[Runner].upload]

MarkProcessing ==
    /\ At(Runner, "sweep")
    /\ th[Runner].docs = {}
    /\ job' = [job EXCEPT ![th[Runner].upload] = "processing"]
    /\ th' = [th EXCEPT ![Runner].pc = "discover", ![Runner].doc = Subject]
    /\ UNCHANGED <<library, queue, crashes>>

\* discover_documents lists the PDFs, then reads the overrides.
Discover ==
    /\ At(Runner, "discover")
    /\ th' = [th EXCEPT ![Runner].pc = "pair", ![Runner].docs = pdfs]
    /\ UNCHANGED <<library, job, queue, crashes>>

\* It raises when an override names a PDF it has not listed, whichever document it is;
\* ensure_collection raises when the index cannot be reached.  A document that was not
\* discovered gets no result.
Pair ==
    /\ At(Runner, "pair")
    /\ \E next \in {"raised", "extract", "discard"} :
        /\ next = "extract" => overrides \subseteq th[Runner].docs /\ Subject \in overrides
        /\ next = "discard" => overrides \subseteq th[Runner].docs /\ Subject \notin overrides
        /\ th' = [th EXCEPT ![Runner].pc = next, ![Runner].docs = {}]
    /\ UNCHANGED <<library, job, queue, crashes>>

\* From here on ingest records an error in the document's result and returns; only reporting
\* on a PDF that has gone meanwhile raises.  A PDF may hold no citation-safe text, and a
\* document whose state and points are up to date is skipped.
Extract ==
    /\ At(Runner, "extract")
    /\ \/ Goto(Runner, "discard")
       \/ Subject \notin pdfs /\ Goto(Runner, "raised")
       \/ Subject \in pdfs /\ Goto(Runner, "empty")
       \/ /\ Subject \in pdfs
          /\ Goto(Runner, IF Subject \in listed \cap points THEN "succeed" ELSE "upsert")
    /\ UNCHANGED <<library, job, queue, crashes>>

\* Without any chunk there is nothing to upsert, but the manifest is written before run_job
\* finds that the document has no chunks.
WriteEmptyManifest ==
    /\ At(Runner, "empty")
    /\ listed' = listed \cup {Subject}
    /\ Goto(Runner, "discard")
    /\ UNCHANGED <<pdfs, overrides, withdrawn, points, job, queue, crashes>>

\* Embedding or the upsert may fail, the upsert after some points were written.
Upsert ==
    /\ At(Runner, "upsert")
    /\ \/ /\ points' = points \cup {Subject}
          /\ Goto(Runner, "manifest")
       \/ /\ points' \in {points, points \cup {Subject}}
          /\ Goto(Runner, "discard")
    /\ UNCHANGED <<pdfs, overrides, listed, withdrawn, job, queue, crashes>>

\* The manifest, the ingestion state and the tables; writing the state may fail.
WriteManifest ==
    /\ At(Runner, "manifest")
    /\ listed' = listed \cup {Subject}
    /\ Goto(Runner, "succeed") \/ Goto(Runner, "discard")
    /\ UNCHANGED <<pdfs, overrides, withdrawn, points, job, queue, crashes>>

Succeed ==
    /\ At(Runner, "succeed")
    /\ job' = [job EXCEPT ![th[Runner].upload] = "succeeded"]
    /\ Goto(Runner, "ack")
    /\ UNCHANGED <<library, queue, crashes>>

\* An exception that left ingest: the durable worker keeps the source and retries until
\* the last attempt.
HandleError ==
    /\ At(Runner, "raised")
    /\ IF Durable /\ th[Runner].attempt < MaxRetries
       THEN /\ job' = [job EXCEPT ![th[Runner].upload] = "queued"]
            /\ Goto(Runner, "retry")
       ELSE /\ Goto(Runner, "discard")
            /\ UNCHANGED job
    /\ UNCHANGED <<library, queue, crashes>>

\* task.retry publishes the next attempt before this one is acknowledged.
Retry ==
    /\ At(Runner, "retry")
    /\ queue' = queue \cup {[upload |-> th[Runner].upload, attempt |-> th[Runner].attempt + 1]}
    /\ Goto(Runner, "ack")
    /\ UNCHANGED <<library, job, crashes>>

\* Acknowledged late; in the API process the ingestion lock is released.
Acknowledge ==
    /\ At(Runner, "ack")
    /\ queue' = queue \ {[upload |-> th[Runner].upload, attempt |-> th[Runner].attempt]}
    /\ th' = [th EXCEPT ![Runner] = Idle]
    /\ UNCHANGED <<library, job, crashes>>

-----------------------------------------------------------------------------
(* The deleter: delete_document                                            *)

RequestDeletion(d) ==
    /\ At(Deleter, "idle")
    /\ Serving
    /\ d \in overrides
    /\ ~InProgress(d)
    /\ th' = [th EXCEPT ![Deleter] = [@ EXCEPT !.pc = "lock", !.doc = d]]
    /\ UNCHANGED <<library, job, queue, crashes>>

\* The check above is not repeated once the lock is taken.
LockForDeletion ==
    /\ At(Deleter, "lock")
    /\ IngestionLockFree
    /\ Goto(Deleter, "delPoints")
    /\ UNCHANGED <<library, job, queue, crashes>>

\* If the index cannot be reached the request fails and nothing is removed.
DeletePoints ==
    /\ At(Deleter, "delPoints")
    /\ \/ /\ points' = points \ {th[Deleter].doc}
          /\ Goto(Deleter, "delPdf")
       \/ /\ th' = [th EXCEPT ![Deleter] = Idle]
          /\ UNCHANGED points
    /\ UNCHANGED <<pdfs, overrides, listed, withdrawn, job, queue, crashes>>

DeletePdf ==
    /\ At(Deleter, "delPdf")
    /\ pdfs' = pdfs \ {th[Deleter].doc}
    /\ Goto(Deleter, "delOverride")
    /\ UNCHANGED <<overrides, listed, withdrawn, points, job, queue, crashes>>

DeleteOverride ==
    /\ At(Deleter, "delOverride")
    /\ overrides' = overrides \ {th[Deleter].doc}
    /\ Goto(Deleter, "delJobs")
    /\ UNCHANGED <<pdfs, listed, withdrawn, points, job, queue, crashes>>

DeleteJobs ==
    /\ At(Deleter, "delJobs")
    /\ job' = [u \in Uploads |-> IF DocumentOf[u] = th[Deleter].doc THEN "none" ELSE job[u]]
    /\ Goto(Deleter, "delListed")
    /\ UNCHANGED <<library, queue, crashes>>

DeleteListed ==
    /\ At(Deleter, "delListed")
    /\ listed' = listed \ {th[Deleter].doc}
    /\ th' = [th EXCEPT ![Deleter] = Idle]
    /\ UNCHANGED <<pdfs, overrides, withdrawn, points, job, queue, crashes>>

-----------------------------------------------------------------------------
(* Crashes, and the boot thread: UploadService.__init__                    *)

\* What is left of a thread when its process dies; requests that were not sent yet or
\* have been answered are not its threads.
Killed(t) ==
    CASE t = Boot -> [Idle EXCEPT !.pc = "recover"]
      [] t \in {Runner, Deleter} -> Idle
      [] t \in Uploads /\ th[t].pc \in {"new", "done", "refused", "rejected"} -> th[t]
      [] OTHER -> Request(t, "dead")

\* The API process dies and is started again.
CrashApi ==
    /\ crashes["api"] < MaxCrashes["api"]
    /\ crashes' = [crashes EXCEPT !["api"] = @ + 1]
    /\ th' = [t \in Threads |-> IF Proc(t) = "api" THEN Killed(t) ELSE th[t]]
    /\ UNCHANGED <<library, job, queue>>

\* The worker dies: its message was not acknowledged and is delivered again.
CrashWorker ==
    /\ Durable
    /\ ~At(Runner, "idle")
    /\ crashes["worker"] < MaxCrashes["worker"]
    /\ crashes' = [crashes EXCEPT !["worker"] = @ + 1]
    /\ th' = [th EXCEPT ![Runner] = Idle]
    /\ UNCHANGED <<library, job, queue>>

\* Jobs of the API process died with it.
RecoverJob(u) ==
    /\ At(Boot, "recover")
    /\ ~Durable
    /\ job[u] \in Active
    /\ th' = [th EXCEPT ![Boot] = [@ EXCEPT !.pc = "discard", !.upload = u]]
    /\ UNCHANGED <<library, job, queue, crashes>>

FinishRecovery ==
    /\ At(Boot, "recover")
    /\ ~Durable => \A u \in Uploads : job[u] \notin Active
    /\ th' = [th EXCEPT ![Boot] = [Idle EXCEPT !.pc = "sweep", !.docs = withdrawn]]
    /\ UNCHANGED <<library, job, queue, crashes>>

StartServing ==
    /\ At(Boot, "sweep")
    /\ th[Boot].docs = {}
    /\ th' = [th EXCEPT ![Boot] = Idle]
    /\ UNCHANGED <<library, job, queue, crashes>>

-----------------------------------------------------------------------------
Withdraw(t) ==
    \/ RemovePoints(t) \/ RemovePdf(t) \/ RemoveOverride(t) \/ RemoveMarker(t)
    \/ Discard(t) \/ CleanUpFailed(t) \/ Fail(t)
    \/ \E d \in Docs : SweepNext(t, d)

Stage(u) ==
    \/ CheckLibrary(u) \/ CheckJobs(u) \/ FinishEarlierAttempt(u)
    \/ StorePdf(u) \/ DescribePdf(u) \/ SaveJob(u)
    \/ Enqueue(u) \/ EnqueueRaises(u)
    \/ Withdraw(u)

Start == (\E u \in Uploads : StartPending(u)) \/ (\E m \in queue : StartMessage(m))

Run ==
    \/ Start
    \/ MarkProcessing \/ Discover \/ Pair \/ Extract \/ WriteEmptyManifest \/ Upsert
    \/ WriteManifest \/ Succeed \/ HandleError \/ Retry \/ Acknowledge
    \/ Withdraw(Runner)

Delete ==
    \/ LockForDeletion \/ DeletePoints \/ DeletePdf \/ DeleteOverride
    \/ DeleteJobs \/ DeleteListed

Restart ==
    \/ \E u \in Uploads : RecoverJob(u)
    \/ FinishRecovery \/ StartServing
    \/ Withdraw(Boot)

Next ==
    \/ \E u \in Uploads : Stage(u)
    \/ Run
    \/ \E d \in Docs : RequestDeletion(d)
    \/ Delete
    \/ Restart
    \/ CrashApi \/ CrashWorker

Spec == Init /\ [][Next]_vars

\* Every thread goes on while its process lives (index and broker calls have timeouts), and
\* a lock that is released again and again is taken: the ingestion lock queues its waiters.
Fairness ==
    /\ \A u \in Uploads : WF_vars(Stage(u)) /\ SF_vars(StartPending(u))
    /\ WF_vars(Run)
    /\ SF_vars(LockForDeletion)
    /\ WF_vars(Delete)
    /\ WF_vars(Restart)

FairSpec == Spec /\ Fairness

-----------------------------------------------------------------------------
(* Properties *)

\* "Indexed evidence never outlives its authoritative source" (uploads.py): points without
\* a PDF would be cited from a document nobody can open.  It takes the order of the steps
\* of every cleanup, recovery after a crash in the middle of one, and the ingestion lock
\* between deletion and indexing.  It holds for two requests with one PDF, and not for three
\* (MCUploadPipeline with three uploads, see the README).
EvidenceHasSource == points \subseteq pdfs

\* A document whose every job failed or is gone is excluded from retrieval, from before its
\* job reports the failure until its points are removed, whatever step a crash or an
\* unreachable index interrupts (_discard_failed, _recover_interrupted_jobs).
FailedIsNotRetrievable ==
    \A d \in points \ withdrawn :
        \E u \in Uploads : DocumentOf[u] = d /\ job[u] \in Active \cup {"succeeded"}

\* What the library offers to retrieval can be opened, and is not of a failed upload.
LibraryIsSound == EvidenceHasSource /\ FailedIsNotRetrievable

\* A thread that removes files of a document removes those of an attempt that is still
\* withdrawn: two threads that finish the same withdrawal (stage and a running job) do not
\* overtake each other, which would remove the source of a new attempt.
CleanupIsCurrent ==
    \A t \in Threads : th[t].pc \in Cleaning => th[t].doc \in withdrawn

\* A job that was accepted and reported as succeeded or failed is never reported as anything
\* else until its document is deleted: a message delivered again is a no-op.  (A request
\* that is refused because the broker's reply was lost does write over its job's status.)
FinishedStaysFinished ==
    [][\A u \in Uploads :
        th[u].pc \in {"done", "dead"} /\ job[u] \in Finished => job'[u] \in {job[u], "none"}]_vars

\* Between the answer to the client and the end of the job, some message of the broker will
\* start it: across a death of the worker, and between a retry and the acknowledgement.
AcceptedJobsHaveMessages ==
    Durable =>
        \A u \in Uploads : At(u, "done") /\ job[u] \in Active =>
            \E m \in queue : m.upload = u

\* Every job ends, although its process dies: the API process fails the jobs that died with
\* it, and the worker's message is delivered again (here: of a request that was answered).
UploadSettles ==
    \A u \in Uploads :
        job[u] \in Active /\ (Durable => At(u, "done")) ~> job[u] \notin Active

-----------------------------------------------------------------------------
(* Statements of the repository that the code does not keep *)

\* "A durable worker queue owns its jobs and redelivers them after a crash, so the API must
\* not fail them at startup" (uploads.py:133): a queued job that no request is handing over
\* has a message.
QueuedJobsAreOwned ==
    \A u \in Uploads :
        job[u] = "queued" /\ th[u].pc \in {"done", "dead"} => \E m \in queue : m.upload = u

\* "Errors while indexing retry with backoff up to INGESTION_MAX_RETRIES, keeping the source
\* PDF.  Only after the last attempt is the job failed" (worker.py:12): an error of the
\* embedding or of the index does not make the runner give up a job it may retry.
ErrorsAreRetried ==
    [][At(Runner, "upsert") /\ th'[Runner].pc = "discard" => th[Runner].attempt = MaxRetries]_vars

=============================================================================
