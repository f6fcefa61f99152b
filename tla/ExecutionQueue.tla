--------------------------- MODULE ExecutionQueue ---------------------------
(***************************************************************************)
(* The filesystem job queue between the agent (ExecutionQueueClient and    *)
(* ArtifactStore in backend/app/execution/client.py, driven by the graph   *)
(* nodes execute_artifact and inspect_artifact) and the isolated executor  *)
(* (executor/worker.py and executor/runner.py).                            *)
(*                                                                         *)
(* A job's files are the state: inbox/, processing/, results/ and jobs/    *)
(* survive a crash of either side; what the worker and the waiting turn    *)
(* hold in memory does not.  A file written by atomic_json appears in one  *)
(* step; shutil.rmtree of a directory of outputs does not vanish in one.   *)
(***************************************************************************)
EXTENDS Naturals, FiniteSets

CONSTANTS
    Jobs,        \* job IDs, each submitted at most once (uuid4 in new_request)
    NoJob,       \* the worker is not working on a job
    MaxCrashes   \* bound: how often the worker may be killed

ASSUME QueueAssumption ==
    /\ NoJob \notin Jobs
    /\ MaxCrashes \in Nat

VARIABLES
    inbox,       \* jobs with a file in inbox/
    processing,  \* jobs with a file in processing/
    result,      \* results/<job>.json: its status, or "none"
    staging,     \* what jobs/<job>/ holds
    phase,       \* what the worker process is doing
    current,     \* the job it is doing it to
    verdict,     \* what was concluded of the job, by execute_request or by recovery
    starts,      \* how often the generated program of the job was started
    turn,        \* where the agent turn that owns the job is
    got,         \* the status the turn read from results/
    store,       \* what the session's artifact directory for the job holds
    crashes

workerVars == <<phase, current, verdict, starts, crashes>>
turnVars == <<turn, got, store>>
vars == <<inbox, processing, result, staging, workerVars, turnVars>>

Statuses == {"succeeded", "failed"}

\* A directory of outputs: absent, written by a program whose outputs were never
\* validated, validated, or validated and then partly deleted.
Contents == {"none", "partial", "complete", "torn"}

Phases == {"down", "idle", "claimed", "running", "returned", "reported",
           "recovering", "removing", "failing", "releasing"}

TurnPhases == {"new", "waiting", "read", "answered", "validated", "moved",
               "published", "rejected", "unavailable", "gone"}

TypeOK ==
    /\ inbox \subseteq Jobs
    /\ processing \subseteq Jobs
    /\ result \in [Jobs -> {"none"} \cup Statuses]
    /\ staging \in [Jobs -> Contents]
    /\ phase \in Phases
    /\ current \in Jobs \cup {NoJob}
    /\ verdict \in [Jobs -> {"none"} \cup Statuses]
    /\ starts \in [Jobs -> Nat]
    /\ turn \in [Jobs -> TurnPhases]
    /\ got \in [Jobs -> {"none"} \cup Statuses]
    /\ store \in [Jobs -> Contents]
    /\ crashes \in 0..MaxCrashes

Init ==
    /\ inbox = {}
    /\ processing = {}
    /\ result = [j \in Jobs |-> "none"]
    /\ staging = [j \in Jobs |-> "none"]
    /\ phase = "down"
    /\ current = NoJob
    /\ verdict = [j \in Jobs |-> "none"]
    /\ starts = [j \in Jobs |-> 0]
    /\ turn = [j \in Jobs |-> "new"]
    /\ got = [j \in Jobs |-> "none"]
    /\ store = [j \in Jobs |-> "none"]
    /\ crashes = 0

-----------------------------------------------------------------------------
(* Faulty variants of the operations below: bugs the properties must catch. *)

\* Report a status ExecutionResult does not have.
ReportInterruptedBadStatus ==
    /\ phase = "failing"
    /\ result' = [result EXCEPT ![current] = "interrupted"]
    /\ verdict' = [verdict EXCEPT ![current] = IF @ = "none" THEN "failed" ELSE @]
    /\ phase' = "releasing"
    /\ UNCHANGED <<inbox, processing, staging, current, starts, crashes, turnVars>>

\* Keep a result that is already there instead of replacing it.
ReportInterruptedKeepsResult ==
    /\ phase = "failing"
    /\ result' = [result EXCEPT ![current] = IF @ = "none" THEN "failed" ELSE @]
    /\ verdict' = [verdict EXCEPT ![current] = IF @ = "none" THEN "failed" ELSE @]
    /\ phase' = "releasing"
    /\ UNCHANGED <<inbox, processing, staging, current, starts, crashes, turnVars>>

\* Put an interrupted job back into inbox/ to run it again.
BeginRemovalRequeues(j) ==
    /\ phase = "recovering"
    /\ j \in processing
    /\ processing' = processing \ {j}
    /\ inbox' = inbox \cup {j}
    /\ staging' = [staging EXCEPT ![j] = "none"]
    /\ UNCHANGED <<result, phase, current, verdict, starts, crashes, turnVars>>

\* Report the failure but leave the claim in processing/.
ReleaseKeepsClaim ==
    /\ phase = "releasing"
    /\ phase' = "recovering"
    /\ current' = NoJob
    /\ UNCHANGED <<inbox, processing, result, staging, verdict, starts, crashes, turnVars>>

\* Copy the request into processing/ instead of moving it.
ClaimCopies(j) ==
    /\ phase = "idle"
    /\ j \in inbox
    /\ processing' = processing \cup {j}
    /\ phase' = "claimed"
    /\ current' = j
    /\ UNCHANGED <<inbox, result, staging, verdict, starts, crashes, turnVars>>

\* Go on to the lineage check without looking at the result's status.
ValidateLineageAnyStatus(j) ==
    /\ turn[j] = "answered"
    /\ staging[j] \notin {"none", "torn"}
    /\ turn' = [turn EXCEPT ![j] = "validated"]
    /\ UNCHANGED <<inbox, processing, result, staging, workerVars, got, store>>

\* Submit the request again when the wait times out.
WaitTimesOutResubmits(j) ==
    /\ turn[j] = "waiting"
    /\ inbox' = inbox \cup {j}
    /\ UNCHANGED <<processing, result, staging, workerVars, turnVars>>

-----------------------------------------------------------------------------
(* The worker: Worker.run_once, execute_request                            *)

\* inbox/ is taken in file-name order; names are random, so any job may be next.
Claim(j) ==
    /\ phase = "idle"
    /\ j \in inbox
    /\ inbox' = inbox \ {j}
    /\ processing' = processing \cup {j}
    /\ phase' = "claimed"
    /\ current' = j
    /\ UNCHANGED <<result, staging, verdict, starts, crashes, turnVars>>

\* Refused before anything ran: hash mismatch, code policy, a request that does not
\* parse, or a job directory that already exists (mkdir with exist_ok=False).
Refuse ==
    /\ phase = "claimed"
    /\ verdict' = [verdict EXCEPT ![current] = "failed"]
    /\ phase' = "returned"
    /\ UNCHANGED <<inbox, processing, result, staging, current, starts, crashes, turnVars>>

StartProgram ==
    /\ phase = "claimed"
    /\ staging[current] = "none"
    /\ staging' = [staging EXCEPT ![current] = "partial"]
    /\ starts' = [starts EXCEPT ![current] = @ + 1]
    /\ phase' = "running"
    /\ UNCHANGED <<inbox, processing, result, current, verdict, crashes, turnVars>>

\* Exit status 0 within the limits and validate_outputs accepts every file.
Succeed ==
    /\ phase = "running"
    /\ staging' = [staging EXCEPT ![current] = "complete"]
    /\ verdict' = [verdict EXCEPT ![current] = "succeeded"]
    /\ phase' = "returned"
    /\ UNCHANGED <<inbox, processing, result, current, starts, crashes, turnVars>>

\* Deadline, stream limit, exit status or validate_outputs: the files stay as they are.
Fail ==
    /\ phase = "running"
    /\ verdict' = [verdict EXCEPT ![current] = "failed"]
    /\ phase' = "returned"
    /\ UNCHANGED <<inbox, processing, result, staging, current, starts, crashes, turnVars>>

Report ==
    /\ phase = "returned"
    /\ result' = [result EXCEPT ![current] = verdict[current]]
    /\ phase' = "reported"
    /\ UNCHANGED <<inbox, processing, staging, current, verdict, starts, crashes, turnVars>>

Unclaim ==
    /\ phase = "reported"
    /\ processing' = processing \ {current}
    /\ phase' = "idle"
    /\ current' = NoJob
    /\ UNCHANGED <<inbox, result, staging, verdict, starts, crashes, turnVars>>

-----------------------------------------------------------------------------
(* Crash and restart: Worker.recover_interrupted                           *)

Crash ==
    /\ phase # "down"
    /\ crashes < MaxCrashes
    /\ crashes' = crashes + 1
    /\ phase' = "down"
    /\ current' = NoJob
    /\ UNCHANGED <<inbox, processing, result, staging, verdict, starts, turnVars>>

Restart ==
    /\ phase = "down"
    /\ phase' = "recovering"
    /\ UNCHANGED <<inbox, processing, result, staging, current, verdict, starts, crashes,
                   turnVars>>

\* rmtree(jobs/<job>) begins, or there is no directory and the failure is next.
BeginRemoval(j) ==
    /\ phase = "recovering"
    /\ j \in processing
    /\ current' = j
    /\ IF staging[j] = "none"
          THEN /\ phase' = "failing"
               /\ UNCHANGED staging
          ELSE /\ phase' = "removing"
               /\ staging' = [staging EXCEPT ![j] = IF @ = "complete" THEN "torn" ELSE @]
    /\ UNCHANGED <<inbox, processing, result, verdict, starts, crashes, turnVars>>

\* The directory may have been moved or deleted by the agent in the meantime; rmtree
\* then raises and the worker dies with the claim still in place.
EndRemoval ==
    /\ phase = "removing"
    /\ IF staging[current] = "none"
          THEN /\ phase' = "down"
               /\ current' = NoJob
               /\ UNCHANGED staging
          ELSE /\ phase' = "failing"
               /\ staging' = [staging EXCEPT ![current] = "none"]
               /\ UNCHANGED current
    /\ UNCHANGED <<inbox, processing, result, verdict, starts, crashes, turnVars>>

ReportInterrupted ==
    /\ phase = "failing"
    /\ result' = [result EXCEPT ![current] = "failed"]
    /\ verdict' = [verdict EXCEPT ![current] = IF @ = "none" THEN "failed" ELSE @]
    /\ phase' = "releasing"
    /\ UNCHANGED <<inbox, processing, staging, current, starts, crashes, turnVars>>

Release ==
    /\ phase = "releasing"
    /\ processing' = processing \ {current}
    /\ phase' = "recovering"
    /\ current' = NoJob
    /\ UNCHANGED <<inbox, result, staging, verdict, starts, crashes, turnVars>>

BeginServing ==
    /\ phase = "recovering"
    /\ processing = {}
    /\ phase' = "idle"
    /\ UNCHANGED <<inbox, processing, result, staging, current, verdict, starts, crashes,
                   turnVars>>

-----------------------------------------------------------------------------
(* The agent turn that owns the job: submit, wait, inspect_artifact        *)

Submit(j) ==
    /\ turn[j] = "new"
    /\ inbox' = inbox \cup {j}
    /\ turn' = [turn EXCEPT ![j] = "waiting"]
    /\ UNCHANGED <<processing, result, staging, workerVars, got, store>>

ReadResult(j) ==
    /\ turn[j] = "waiting"
    /\ result[j] # "none"
    /\ got' = [got EXCEPT ![j] = result[j]]
    /\ turn' = [turn EXCEPT ![j] = "read"]
    /\ UNCHANGED <<inbox, processing, result, staging, workerVars, store>>

RemoveResult(j) ==
    /\ turn[j] = "read"
    /\ result' = [result EXCEPT ![j] = "none"]
    /\ turn' = [turn EXCEPT ![j] = "answered"]
    /\ UNCHANGED <<inbox, processing, staging, workerVars, got, store>>

\* ExecutorUnavailableError: nothing of the job is withdrawn or deleted.
WaitTimesOut(j) ==
    /\ turn[j] = "waiting"
    /\ turn' = [turn EXCEPT ![j] = "unavailable"]
    /\ UNCHANGED <<inbox, processing, result, staging, workerVars, got, store>>

\* A failed result, too many or too large files, or a lineage that differs.
Discard(j) ==
    /\ turn[j] = "answered"
    /\ staging' = [staging EXCEPT ![j] = "none"]
    /\ turn' = [turn EXCEPT ![j] = "rejected"]
    /\ UNCHANGED <<inbox, processing, result, workerVars, got, store>>

\* validate_artifact_lineage reads the companion CSV and the manifest.
ValidateLineage(j) ==
    /\ turn[j] = "answered"
    /\ got[j] = "succeeded"
    /\ staging[j] \notin {"none", "torn"}
    /\ turn' = [turn EXCEPT ![j] = "validated"]
    /\ UNCHANGED <<inbox, processing, result, staging, workerVars, got, store>>

\* os.replace of the staged directory; without one, ValueError and discard.
Accept(j) ==
    /\ turn[j] = "validated"
    /\ IF staging[j] = "none"
          THEN /\ turn' = [turn EXCEPT ![j] = "rejected"]
               /\ UNCHANGED <<staging, store>>
          ELSE /\ turn' = [turn EXCEPT ![j] = "moved"]
               /\ store' = [store EXCEPT ![j] = staging[j]]
               /\ staging' = [staging EXCEPT ![j] = "none"]
    /\ UNCHANGED <<inbox, processing, result, workerVars, got>>

\* artifact.json is written last: from here the session's listing shows the artifact.
PublishDescriptor(j) ==
    /\ turn[j] = "moved"
    /\ turn' = [turn EXCEPT ![j] = "published"]
    /\ UNCHANGED <<inbox, processing, result, staging, workerVars, got, store>>

\* The request deadline cancels the turn, a file it needs is gone (OSError), or the
\* backend process dies: whatever is on disk stays there.
Abandon(j) ==
    /\ turn[j] \in {"waiting", "read", "answered", "validated", "moved"}
    /\ turn' = [turn EXCEPT ![j] = "gone"]
    /\ UNCHANGED <<inbox, processing, result, staging, workerVars, got, store>>

-----------------------------------------------------------------------------
WorkerStep ==
    \/ Refuse \/ StartProgram \/ Succeed \/ Fail \/ Report \/ Unclaim
    \/ \E j \in Jobs : Claim(j)

RecoveryStep ==
    \/ Restart \/ EndRemoval \/ ReportInterrupted \/ Release \/ BeginServing
    \/ \E j \in Jobs : BeginRemoval(j)

TurnStep(j) ==
    \/ Submit(j) \/ ReadResult(j) \/ RemoveResult(j) \/ WaitTimesOut(j) \/ Discard(j)
    \/ ValidateLineage(j) \/ Accept(j) \/ PublishDescriptor(j) \/ Abandon(j)

Next == WorkerStep \/ RecoveryStep \/ Crash \/ \E j \in Jobs : TurnStep(j)

Spec == Init /\ [][Next]_vars

\* Worker.serve loops for ever, a running program is ended by its deadline, and
\* whoever operates the container starts it again: the worker's own steps are fair.
\* A live turn keeps polling and finishes what it read.  Crash, WaitTimesOut and
\* Abandon are never forced.
Fairness ==
    /\ WF_vars(WorkerStep)
    /\ WF_vars(RecoveryStep)
    /\ \A j \in Jobs :
          WF_vars(ReadResult(j) \/ RemoveResult(j) \/ Discard(j) \/ Accept(j)
                    \/ PublishDescriptor(j))

FairSpec == Spec /\ Fairness

-----------------------------------------------------------------------------
(* Properties                                                              *)

\* A job's generated program is started at most once, whatever crashes in between:
\* recover_interrupted fails a claimed job instead of running it again.
AtMostOneExecution == \A j \in Jobs : starts[j] <= 1

\* One consumer, one claim: no crash or recovery leaves two jobs in processing/, and
\* a job the worker is busy with is always the claimed one.
SingleClaim ==
    /\ \A i, j \in processing : i = j
    /\ phase \notin {"down", "idle", "recovering"} => processing = {current}
    /\ phase = "idle" => processing = {}

\* "A job's state is the directory holding its request or result" (worker.py): a
\* request still in inbox/ has no claim, result or outputs, and a result never
\* coexists with a program that is still writing outputs.
DirectoryIsState ==
    \A j \in Jobs :
        /\ j \in inbox => /\ j \notin processing
                          /\ result[j] = "none"
                          /\ staging[j] = "none"
        /\ result[j] # "none" => ~(phase = "running" /\ current = j)

\* Success is only ever reported of, or read for, a job whose program exited cleanly
\* with validated outputs; an interrupted or failed job never turns into a success.
NoFalseSuccess ==
    \A j \in Jobs : "succeeded" \in {result[j], got[j]} => verdict[j] = "succeeded"

\* A finished job that reports success has its validated outputs staged for as long
\* as its result waits to be read.
SuccessHasOutputs ==
    \A j \in Jobs :
        result[j] = "succeeded" /\ j \notin processing => staging[j] = "complete"

\* A success is real from the worker to the turn that reads it: no kill, restart or
\* recovery turns another outcome into one, or takes its outputs away while it waits.
SuccessIsReal == NoFalseSuccess /\ SuccessHasOutputs

\* No artifact of a session was made from outputs nobody validated: partial files of
\* a killed, failed or timed-out program are never published.
NothingUnvalidatedPublished ==
    \A j \in Jobs :
        turn[j] \in {"moved", "published"} =>
            /\ verdict[j] = "succeeded"
            /\ store[j] \in {"complete", "torn"}

\* A claim is never stranded: however often the worker is killed, a submitted job
\* eventually leaves both inbox/ and processing/.
QueueDrains ==
    \A j \in Jobs : j \in inbox ~> j \notin inbox \cup processing

\* "results/<job_id>.json: finished, succeeded or failed" and recover_interrupted
\* fails "every job a previous worker claimed but never finished": the success of a
\* finished job is never replaced by a failure.
FinishedStaysFinished ==
    [][\A j \in Jobs : result[j] = "succeeded" => result'[j] # "failed"]_vars

\* "The backend reads and removes it, then accepts or discards jobs/<job_id>/"
\* (worker.py): every result is eventually read and removed.
ResultsReaped ==
    \A j \in Jobs : result[j] # "none" ~> result[j] = "none"

-----------------------------------------------------------------------------
(* Refinement: the queue implements the contract of the executor.          *)

JobStatus(j) ==
    IF turn[j] = "new" THEN "new"
    ELSE IF j \in inbox THEN "queued"
    ELSE IF verdict[j] = "none" THEN "running"
    ELSE verdict[j]

AnswerGiven(j) ==
    IF got[j] # "none" THEN got[j]
    ELSE IF turn[j] \in {"unavailable", "gone"} THEN "unavailable"
    ELSE "none"

Contract == INSTANCE JobContract WITH
    job <- [j \in Jobs |-> JobStatus(j)],
    answer <- [j \in Jobs |-> AnswerGiven(j)],
    published <- {j \in Jobs : turn[j] = "published"}

\* The queue, its recovery and the turn's handling of results implement JobContract.
ImplementsContract == Contract!Spec
=============================================================================
