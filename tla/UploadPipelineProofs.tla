------------------------ MODULE UploadPipelineProofs ------------------------
(***************************************************************************)
(* Proofs about UploadPipeline for any uploads and documents, any number   *)
(* of retries and of crashes of either process: type correctness, the      *)
(* exclusion of withdrawals within a process, what the durable worker      *)
(* promises of the jobs it was given, and what the library offers.         *)
(*                                                                         *)
(* The properties are not inductive: IInv adds which request a message or  *)
(* a job of the runner belongs to and how far that request has come        *)
(* (Sent, RunnerInv), and that nothing else runs while the API process     *)
(* recovers the jobs of the default mode (BootInv).  Sound adds to it who  *)
(* left a marker (Placed) and what a step leaves to retrieval (Offered).   *)
(***************************************************************************)
EXTENDS UploadPipeline, TLAPS

\* Requests that were not sent yet or have been answered: a crash leaves them alone.
AtRest == {"new", "done", "refused", "rejected", "dead"}

\* The thread is on the way to report its upload as failed.
GivingUp(t) == th[t].pc \in Discarding \/ (th[t].pc \in Cleaning /\ th[t].then = "fail")

\* The request has passed the hand-over of its job.
HandedOver(u) == th[u].pc \in {"done", "rejected", "dead"} \/ GivingUp(u)

OwnUpload == \A u \in Uploads : th[u].upload = u

\* The default mode has no broker.
NoBroker ==
    ~Durable => /\ queue = {}
                /\ \A u \in Uploads : ~At(u, "saved")
                /\ ~At(Runner, "retry")

\* Within a process at most one thread is finishing a withdrawal.
WithdrawalsExclusive ==
    \A s, t \in Threads :
        th[s].pc \in Cleaning /\ th[t].pc \in Cleaning /\ Proc(s) = Proc(t) => s = t

Sent == \A m \in queue : HandedOver(m.upload)

\* What holds of the upload the runner works on.
RunnerInv ==
    ~At(Runner, "idle") =>
        LET u == th[Runner].upload IN
            /\ u \in Uploads
            /\ HandedOver(u)
            /\ Durable => [upload |-> u, attempt |-> th[Runner].attempt] \in queue
            /\ At(Runner, "retry") => th[Runner].attempt < MaxRetries
            /\ ~At(Runner, "ack") /\ ~At(u, "rejected") => job[u] \notin Finished
            /\ At(Runner, "ack") /\ Durable =>
                  \/ job[u] \notin Active
                  \/ [upload |-> u, attempt |-> th[Runner].attempt + 1] \in queue

\* While the API process recovers, the threads of its former life are gone, and the job it
\* is about to fail is not finished.
BootInv ==
    /\ ~At(Boot, "idle") =>
          /\ \A u \in Uploads : th[u].pc \in AtRest
          /\ ~Durable => At(Runner, "idle")
    /\ GivingUp(Boot) =>
          /\ ~Durable
          /\ th[Boot].upload \in Uploads
          /\ job[th[Boot].upload] \notin Finished

IInv ==
    /\ TypeOK
    /\ OwnUpload
    /\ NoBroker
    /\ WithdrawalsExclusive
    /\ ~Durable => CleanupIsCurrent
    /\ Sent
    /\ RunnerInv
    /\ BootInv
    /\ AcceptedJobsHaveMessages

-----------------------------------------------------------------------------
USE UploadAssumption

LEMMA IdleState == Idle \in ThreadStates
BY DEF Idle, ThreadStates, ProgramCounters

LEMMA RequestState == \A u \in Uploads : Request(u, "new") \in ThreadStates
BY DEF Request, ThreadStates, ProgramCounters

LEMMA InitIInv == Init => IInv
<1> SUFFICES ASSUME Init PROVE IInv
  OBVIOUS
<1> USE DEF Init, At
<1>1. TypeOK
  <2>1. th \in [Threads -> ThreadStates]
    BY IdleState, RequestState
  <2> QED
    BY <2>1 DEF TypeOK
<1>2. OwnUpload /\ NoBroker /\ Sent /\ AcceptedJobsHaveMessages
  BY DEF Idle, Request, OwnUpload, NoBroker, Sent, AcceptedJobsHaveMessages, Threads
<1>3. WithdrawalsExclusive /\ CleanupIsCurrent
  BY DEF Idle, Request, WithdrawalsExclusive, CleanupIsCurrent, Cleaning, Threads
<1>4. RunnerInv /\ BootInv
  BY DEF Idle, Request, RunnerInv, BootInv, GivingUp, Cleaning, Discarding, Threads
<1> QED
  BY <1>1, <1>2, <1>3, <1>4 DEF IInv

\* A thread that moves keeps everything else it knows, and so do the others.
LEMMA GotoMoves ==
    ASSUME TypeOK, NEW t \in Threads, NEW pc \in ProgramCounters, Goto(t, pc)
    PROVE  /\ th' \in [Threads -> ThreadStates]
           /\ th'[t] = [th[t] EXCEPT !.pc = pc]
           /\ \A s \in Threads \ {t} : th'[s] = th[s]
BY DEF TypeOK, ThreadStates, Goto

LEMMA FinishWithdrawalMoves ==
    ASSUME TypeOK, NEW t \in Threads, NEW d \in Docs, NEW then \in {"store", "sweep", "fail"},
           FinishWithdrawal(t, d, then)
    PROVE  /\ th' \in [Threads -> ThreadStates]
           /\ th'[t].pc \in {"points", then}
           /\ th'[t].then = then
           /\ th'[t].upload = th[t].upload
           /\ th'[t].attempt = th[t].attempt
           /\ \A s \in Threads \ {t} : th'[s] = th[s]
           /\ th'[t].pc = "points" => d \in withdrawn
           /\ th'[t].doc = d
<1> DEFINE next == IF d \in withdrawn THEN "points" ELSE then
<1>1. th[t] \in ThreadStates /\ th \in [Threads -> ThreadStates]
  BY DEF TypeOK
<1>2. next \in ProgramCounters
  BY DEF ProgramCounters, Cleaning, Discarding
<1> DEFINE state == [th[t] EXCEPT !.pc = next, !.then = then, !.doc = d,
                                  !.docs = th[t].docs \ {d}]
<1>3. th' = [th EXCEPT ![t] = state]
  BY DEF FinishWithdrawal
<1>4. /\ state.pc = next
      /\ state.then = then
      /\ state.upload = th[t].upload
      /\ state.attempt = th[t].attempt
      /\ state.doc = d
      /\ state.docs = th[t].docs \ {d}
  BY <1>1 DEF ThreadStates
<1>5. state \in ThreadStates
  BY <1>1, <1>2, <1>4 DEF ThreadStates
<1> HIDE DEF state
<1>6. th' \in [Threads -> ThreadStates] /\ \A s \in Threads \ {t} : th'[s] = th[s]
  BY <1>1, <1>3, <1>5
<1> QED
  BY <1>1, <1>3, <1>4, <1>6

\* The step moves one thread.
Moves(t) ==
    /\ th' \in [Threads -> ThreadStates]
    /\ \A s \in Threads \ {t} : th'[s] = th[s]

SameUpload(t) ==
    /\ th'[t].upload = th[t].upload
    /\ th'[t].attempt = th[t].attempt

\* The step starts or goes on with a withdrawal under the lock, and drops a marker only there.
KeepsLock(t) ==
    /\ th'[t].pc \in Cleaning =>
          /\ th[t].pc \in Cleaning \/ WithdrawalLockFree(t)
          /\ ~Durable => th'[t].doc \in withdrawn'
    /\ withdrawn \subseteq withdrawn' \/ th[t].pc \in Cleaning

\* The step changes no job but those whose document is deleted, and no message.
KeepsJobs ==
    /\ job' \in [Uploads -> {"none"} \cup Active \cup Finished]
    /\ \A u \in Uploads : job'[u] \in {job[u], "none"}
    /\ queue' = queue

\* A move that keeps the lock keeps withdrawals exclusive and current.
LEMMA LockKept ==
    ASSUME IInv, NEW t \in Threads, Moves(t), KeepsLock(t)
    PROVE  WithdrawalsExclusive' /\ (~Durable => CleanupIsCurrent)'
<1> USE DEF IInv, Moves, KeepsLock
<1>1. WithdrawalsExclusive'
  <2> SUFFICES ASSUME NEW r \in Threads, NEW s \in Threads, th'[r].pc \in Cleaning,
                      th'[s].pc \in Cleaning, Proc(r) = Proc(s), r # s
               PROVE  FALSE
    BY DEF WithdrawalsExclusive, Proc
  <2>1. CASE t \notin {r, s}
    BY <2>1 DEF WithdrawalsExclusive
  <2>2. CASE t = r
    BY <2>2 DEF WithdrawalsExclusive, WithdrawalLockFree
  <2>3. CASE t = s
    BY <2>3 DEF WithdrawalsExclusive, WithdrawalLockFree
  <2> QED
    BY <2>1, <2>2, <2>3
<1>2. ASSUME ~Durable, NEW s \in Threads, th'[s].pc \in Cleaning
      PROVE  th'[s].doc \in withdrawn'
  <2>1. Proc(s) = Proc(t)
    BY <1>2 DEF Proc
  <2>2. CASE s = t
    BY <1>2, <2>2
  <2>3. CASE s # t
    <3>1. th[s].pc \in Cleaning /\ th[s].doc \in withdrawn /\ th'[s] = th[s]
      BY <1>2, <2>3 DEF CleanupIsCurrent
    <3>2. th[t].pc \notin Cleaning
      BY <2>1, <2>3, <3>1 DEF WithdrawalsExclusive
    <3> QED
      BY <3>1, <3>2
  <2> QED
    BY <2>2, <2>3
<1> QED
  BY <1>1, <1>2 DEF CleanupIsCurrent

\* A request moves before or during the hand-over of its job, or while it gives it up.
LEMMA RequestMove ==
    ASSUME IInv, NEW u \in Uploads, Moves(u), SameUpload(u), KeepsLock(u),
           KeepsJobs, TypeOK',
           At(Boot, "idle"), ~At(u, "rejected"),
           th'[u].pc \notin {"done", "saved"}, HandedOver(u) => HandedOver(u)'
    PROVE  IInv'
<1> USE DEF IInv, Moves, SameUpload, KeepsJobs
<1>1. u \in Threads /\ Runner \in Threads \ {u} /\ Boot \in Threads \ {u}
  BY DEF Threads
<1>2. th'[Runner] = th[Runner] /\ th'[Boot] = th[Boot]
  BY <1>1
<1>3. \A v \in Uploads \ {u} : th'[v] = th[v]
  BY DEF Threads
<1>4. \A v \in Uploads : HandedOver(v) => HandedOver(v)'
  BY <1>3 DEF HandedOver, GivingUp
<1>5. (WithdrawalsExclusive /\ (~Durable => CleanupIsCurrent))'
  BY <1>1, LockKept
<1>6. OwnUpload' /\ NoBroker'
  BY <1>2, <1>3 DEF OwnUpload, NoBroker, At
<1>7. Sent'
  BY <1>4 DEF Sent, TypeOK, Messages
<1>8. RunnerInv'
  <2> SUFFICES ASSUME ~At(Runner, "idle") PROVE RunnerInv'
    BY <1>2 DEF RunnerInv, At
  <2>1. PICK v \in Uploads : v = th[Runner].upload
    BY DEF RunnerInv
  <2>2. At(v, "rejected") => At(v, "rejected")'
    BY <1>3 DEF At
  <2> QED
    BY <1>2, <1>4, <2>1, <2>2 DEF RunnerInv, At, Active, Finished
<1>9. BootInv'
  BY <1>2 DEF BootInv, At, GivingUp, Discarding, Cleaning
<1>10. AcceptedJobsHaveMessages'
  BY <1>3 DEF AcceptedJobsHaveMessages, At, Active
<1> QED
  BY <1>5, <1>6, <1>7, <1>8, <1>9, <1>10

\* The runner moves within a job, before it reports its end.
LEMMA RunnerMove ==
    ASSUME IInv, Moves(Runner), SameUpload(Runner), KeepsLock(Runner), KeepsJobs, TypeOK',
           th[Runner].pc \notin {"idle", "ack"}, th'[Runner].pc \notin {"retry", "ack"}
    PROVE  IInv'
<1> USE DEF IInv, Moves, SameUpload, KeepsJobs
<1>1. Runner \in Threads /\ Boot \in Threads \ {Runner}
  BY DEF Threads
<1>2. th'[Boot] = th[Boot] /\ \A v \in Uploads : th'[v] = th[v]
  BY DEF Threads
<1>3. \A v \in Uploads : HandedOver(v) <=> HandedOver(v)'
  BY <1>2 DEF HandedOver, GivingUp
<1>4. (WithdrawalsExclusive /\ (~Durable => CleanupIsCurrent))'
  BY <1>1, LockKept
<1>5. OwnUpload' /\ NoBroker' /\ Sent'
  BY <1>2, <1>3 DEF OwnUpload, NoBroker, At, Sent, TypeOK, Messages
<1>6. RunnerInv'
  <2>1. PICK v \in Uploads : v = th[Runner].upload
    BY DEF RunnerInv, At
  <2> QED
    BY <1>2, <1>3, <2>1 DEF RunnerInv, At, Finished
<1>7. BootInv'
  BY <1>2 DEF BootInv, At, GivingUp, Discarding, Cleaning
<1>8. AcceptedJobsHaveMessages'
  BY <1>2 DEF AcceptedJobsHaveMessages, At, Active
<1> QED
  BY <1>4, <1>5, <1>6, <1>7, <1>8

\* The deleter and the boot thread, whose moves concern no request and no message.
LEMMA ServiceMove ==
    ASSUME IInv, NEW t \in {Deleter, Boot}, Moves(t), KeepsLock(t), KeepsJobs, TypeOK',
           t = Boot => /\ ~At(Boot, "idle")
                       /\ GivingUp(Boot)' => GivingUp(Boot) /\ SameUpload(Boot)
    PROVE  IInv'
<1> USE DEF IInv, Moves, SameUpload, KeepsJobs
<1>1. t \in Threads /\ Runner \in Threads \ {t}
  BY DEF Threads
<1>2. th'[Runner] = th[Runner] /\ \A v \in Uploads : th'[v] = th[v]
  BY DEF Threads
<1>3. \A v \in Uploads : HandedOver(v) <=> HandedOver(v)'
  BY <1>2 DEF HandedOver, GivingUp
<1>4. (WithdrawalsExclusive /\ (~Durable => CleanupIsCurrent))'
  BY <1>1, LockKept
<1>5. OwnUpload' /\ NoBroker' /\ Sent'
  BY <1>2, <1>3 DEF OwnUpload, NoBroker, At, Sent, TypeOK, Messages
<1>6. RunnerInv'
  <2> SUFFICES ASSUME ~At(Runner, "idle") PROVE RunnerInv'
    BY <1>2 DEF RunnerInv, At
  <2>1. PICK v \in Uploads : v = th[Runner].upload
    BY DEF RunnerInv
  <2> QED
    BY <1>2, <1>3, <2>1 DEF RunnerInv, At, Active, Finished
<1>7. BootInv'
  <2>1. CASE t = Boot
    BY <1>2, <2>1 DEF BootInv, At, Finished
  <2>2. CASE t = Deleter
    <3>1. th'[Boot] = th[Boot]
      BY <2>2 DEF Threads
    <3> QED
      BY <1>2, <3>1 DEF BootInv, At, GivingUp, Finished
  <2> QED
    BY <2>1, <2>2
<1>8. AcceptedJobsHaveMessages'
  BY <1>2 DEF AcceptedJobsHaveMessages, At, Active
<1> QED
  BY <1>4, <1>5, <1>6, <1>7, <1>8

\* Every step of a withdrawal but the last keeps the lock and the jobs, and whether the
\* thread is giving its upload up.
Withdraws(t) ==
    \/ RemovePoints(t) \/ RemovePdf(t) \/ RemoveOverride(t) \/ RemoveMarker(t)
    \/ Discard(t) \/ CleanUpFailed(t)
    \/ \E d \in Docs : SweepNext(t, d)

LEMMA GotoKeeps ==
    ASSUME TypeOK, NEW t \in Threads, NEW pc \in ProgramCounters, Goto(t, pc)
    PROVE  /\ Moves(t) /\ SameUpload(t)
           /\ th'[t].pc = pc /\ th'[t].then = th[t].then /\ th'[t].doc = th[t].doc
<1>1. th[t] \in ThreadStates
  BY DEF TypeOK
<1>2. /\ [th[t] EXCEPT !.pc = pc].pc = pc
      /\ [th[t] EXCEPT !.pc = pc].then = th[t].then
      /\ [th[t] EXCEPT !.pc = pc].doc = th[t].doc
      /\ [th[t] EXCEPT !.pc = pc].upload = th[t].upload
      /\ [th[t] EXCEPT !.pc = pc].attempt = th[t].attempt
  BY <1>1 DEF ThreadStates
<1> QED
  BY <1>2, GotoMoves DEF Moves, SameUpload

\* A step of a withdrawal: it keeps the lock and the jobs, and whether the thread is giving
\* its upload up.
WithdrawalStep(t) ==
    /\ Moves(t)
    /\ SameUpload(t)
    /\ KeepsLock(t)
    /\ KeepsJobs
    /\ TypeOK'
    /\ th[t].pc \in Cleaning \cup {"discard", "withdrawn", "sweep"}
    /\ th'[t].pc \in Cleaning \cup {"withdrawn", "fail", "store", "sweep", "refused"}
    /\ GivingUp(t)' <=> GivingUp(t)

LEMMA WithdrawMoves ==
    ASSUME IInv, NEW t \in Threads, Withdraws(t),
           th[t].pc \in {"discard", "withdrawn"} => th[t].upload \in Uploads
    PROVE  WithdrawalStep(t)
<1> USE DEF IInv
<1> DEFINE then == th[t].then
<1>1. then \in {"store", "sweep", "fail"} /\ then \in ProgramCounters
  BY DEF TypeOK, ThreadStates, ProgramCounters, Cleaning, Discarding
<1>2. KeepsJobs /\ crashes' = crashes
  BY DEF Withdraws, RemovePoints, RemovePdf, RemoveOverride, RemoveMarker, Discard,
         CleanUpFailed, SweepNext, FinishWithdrawal, library, KeepsJobs, TypeOK
<1>3. ~Durable /\ th[t].pc \in Cleaning => th[t].doc \in withdrawn
  BY DEF CleanupIsCurrent
<1> HIDE DEF then
<1>4. ASSUME RemovePoints(t) PROVE WithdrawalStep(t)
  <2>1. PICK next \in {"pdf", IF then = "store" THEN "refused" ELSE then} : Goto(t, next)
    BY <1>4 DEF RemovePoints, then
  <2>2. next \in ProgramCounters
    BY <1>1 DEF ProgramCounters, Cleaning
  <2>3. TypeOK'
    BY <1>2, <1>4, <2>1, <2>2, GotoKeeps DEF TypeOK, RemovePoints, Moves, KeepsJobs
  <2> QED
    BY <1>1, <1>2, <1>3, <1>4, <2>1, <2>2, <2>3, GotoKeeps
       DEF WithdrawalStep, RemovePoints, At, KeepsLock, GivingUp, Cleaning, Discarding, then
<1>5. ASSUME RemovePdf(t) PROVE WithdrawalStep(t)
  <2>1. "override" \in ProgramCounters /\ Goto(t, "override")
    BY <1>5 DEF RemovePdf, ProgramCounters, Cleaning
  <2>2. TypeOK'
    BY <1>2, <1>5, <2>1, GotoKeeps DEF TypeOK, RemovePdf, Moves, KeepsJobs
  <2> QED
    BY <1>2, <1>3, <1>5, <2>1, <2>2, GotoKeeps
       DEF WithdrawalStep, RemovePdf, At, KeepsLock, GivingUp, Cleaning, Discarding
<1>6. ASSUME RemoveOverride(t) PROVE WithdrawalStep(t)
  <2>1. "marker" \in ProgramCounters /\ Goto(t, "marker")
    BY <1>6 DEF RemoveOverride, ProgramCounters, Cleaning
  <2>2. TypeOK'
    BY <1>2, <1>6, <2>1, GotoKeeps DEF TypeOK, RemoveOverride, Moves, KeepsJobs
  <2> QED
    BY <1>2, <1>3, <1>6, <2>1, <2>2, GotoKeeps
       DEF WithdrawalStep, RemoveOverride, At, KeepsLock, GivingUp, Cleaning, Discarding
<1>7. ASSUME RemoveMarker(t) PROVE WithdrawalStep(t)
  <2>1. Goto(t, then)
    BY <1>7 DEF RemoveMarker, then
  <2>2. TypeOK'
    BY <1>1, <1>2, <1>7, <2>1, GotoKeeps DEF TypeOK, RemoveMarker, Moves, KeepsJobs
  <2> QED
    BY <1>1, <1>2, <1>7, <2>1, <2>2, GotoKeeps
       DEF WithdrawalStep, RemoveMarker, At, KeepsLock, GivingUp, Cleaning, Discarding, then
<1>8. ASSUME Discard(t) PROVE WithdrawalStep(t)
  <2>1. "withdrawn" \in ProgramCounters /\ Goto(t, "withdrawn")
    BY <1>8 DEF Discard, ProgramCounters, Discarding
  <2>2. DocumentOf[th[t].upload] \in Docs
    BY <1>8 DEF Discard, At
  <2>3. TypeOK'
    BY <1>2, <1>8, <2>1, <2>2, GotoKeeps DEF TypeOK, Discard, Moves, KeepsJobs
  <2> QED
    BY <1>2, <1>8, <2>1, <2>3, GotoKeeps
       DEF WithdrawalStep, Discard, At, KeepsLock, GivingUp, Cleaning, Discarding
<1>9. ASSUME NEW d \in Docs, NEW go \in {"sweep", "fail"}, FinishWithdrawal(t, d, go),
             th[t].pc \in {"withdrawn", "sweep"}, GivingUp(t) <=> go = "fail"
      PROVE  WithdrawalStep(t)
  <2>1. Moves(t) /\ SameUpload(t) /\ th'[t].pc \in {"points", go} /\ th'[t].then = go /\ th'[t].doc = d
        /\ (th'[t].pc = "points" => d \in withdrawn)
    BY <1>9, FinishWithdrawalMoves DEF Moves, SameUpload
  <2>2. TypeOK' /\ withdrawn' = withdrawn
    BY <1>2, <1>9, <2>1 DEF TypeOK, FinishWithdrawal, Moves, KeepsJobs
  <2>3. WithdrawalLockFree(t)
    BY <1>9 DEF FinishWithdrawal
  <2> QED
    BY <1>2, <1>9, <2>1, <2>2, <2>3 DEF WithdrawalStep, KeepsLock, GivingUp, Cleaning, Discarding
<1>10. ASSUME CleanUpFailed(t) PROVE WithdrawalStep(t)
  BY <1>9, <1>10 DEF CleanUpFailed, At, GivingUp, Discarding
<1>11. ASSUME NEW d \in Docs, SweepNext(t, d) PROVE WithdrawalStep(t)
  BY <1>9, <1>11 DEF SweepNext, At, GivingUp, Discarding, Cleaning
<1> QED
  BY <1>4, <1>5, <1>6, <1>7, <1>8, <1>10, <1>11 DEF Withdraws

\* The withdrawals of the requests, of the runner and of the boot thread.
LEMMA WithdrawKeeps ==
    ASSUME IInv, NEW t \in Uploads \cup {Runner, Boot}, Withdraws(t)
    PROVE  IInv'
<1> USE DEF IInv
<1>1. t \in Threads
  BY DEF Threads
<1>2. th[t].pc # "idle"
  BY DEF Withdraws, RemovePoints, RemovePdf, RemoveOverride, RemoveMarker, Discard,
         CleanUpFailed, SweepNext, At
<1>3. th[t].pc \in {"discard", "withdrawn"} => th[t].upload \in Uploads
  BY <1>2 DEF OwnUpload, RunnerInv, BootInv, GivingUp, Discarding, At
<1>4. WithdrawalStep(t)
  BY <1>1, <1>3, WithdrawMoves
<1>5. ASSUME t \in Uploads PROVE IInv'
  <2>1. At(Boot, "idle") /\ ~At(t, "rejected")
    BY <1>4, <1>5 DEF WithdrawalStep, BootInv, AtRest, Cleaning, At
  <2>2. th'[t].pc \notin {"done", "saved"}
    BY <1>4 DEF WithdrawalStep, Cleaning
  <2>3. HandedOver(t) => HandedOver(t)'
    BY <1>4 DEF WithdrawalStep, HandedOver, Cleaning
  <2> QED
    BY <1>4, <1>5, <2>1, <2>2, <2>3, RequestMove DEF WithdrawalStep
<1>6. ASSUME t = Runner PROVE IInv'
  BY <1>4, <1>6, RunnerMove DEF WithdrawalStep, Cleaning
<1>7. ASSUME t = Boot PROVE IInv'
  BY <1>2, <1>4, <1>7, ServiceMove DEF WithdrawalStep, At
<1> QED
  BY <1>5, <1>6, <1>7

-----------------------------------------------------------------------------
(* The steps of a request *)

\* Up to the job file nothing is handed over.
LEMMA StagingKeeps ==
    ASSUME IInv, NEW u \in Uploads,
           \/ CheckLibrary(u) \/ CheckJobs(u) \/ FinishEarlierAttempt(u)
           \/ StorePdf(u) \/ DescribePdf(u)
    PROVE  IInv'
<1> USE DEF IInv
<1>1. u \in Threads /\ DocumentOf[u] \in Docs
  BY DEF Threads
<1>2. KeepsJobs /\ withdrawn' = withdrawn /\ crashes' = crashes
  BY DEF CheckLibrary, CheckJobs, FinishEarlierAttempt, StorePdf, DescribePdf,
         FinishWithdrawal, library, KeepsJobs, TypeOK
<1>3. th[u].pc \in {"new", "unlisted", "checked", "store", "stored"}
  BY DEF CheckLibrary, CheckJobs, FinishEarlierAttempt, StorePdf, DescribePdf, At
<1>4. At(Boot, "idle")
  BY <1>3 DEF BootInv, AtRest, CheckLibrary, CheckJobs, FinishEarlierAttempt, StorePdf,
              DescribePdf, At, Serving
<1>5. CASE FinishEarlierAttempt(u)
  <2>1. FinishWithdrawal(u, DocumentOf[u], "store") /\ WithdrawalLockFree(u)
    BY <1>5 DEF FinishEarlierAttempt, FinishWithdrawal
  <2>2. Moves(u) /\ SameUpload(u) /\ th'[u].pc \in {"points", "store"}
        /\ th'[u].doc = DocumentOf[u]
        /\ (th'[u].pc = "points" => DocumentOf[u] \in withdrawn)
    BY <1>1, <2>1, FinishWithdrawalMoves DEF Moves, SameUpload
  <2>3. TypeOK'
    BY <1>2, <2>1, <2>2 DEF TypeOK, FinishWithdrawal, Moves, KeepsJobs
  <2>4. KeepsLock(u)
    BY <1>2, <2>1, <2>2 DEF KeepsLock, Cleaning
  <2> QED
    BY <1>2, <1>3, <1>4, <2>2, <2>3, <2>4, RequestMove
       DEF At, HandedOver, GivingUp, Cleaning, Discarding
<1>6. CASE ~FinishEarlierAttempt(u)
  <2>1. PICK next \in {"refused", "unlisted", "checked", "stored", "described"} : Goto(u, next)
    BY <1>6 DEF CheckLibrary, CheckJobs, StorePdf, DescribePdf
  <2>2. next \in ProgramCounters
    BY DEF ProgramCounters
  <2>3. Moves(u) /\ SameUpload(u) /\ th'[u].pc = next
    BY <1>1, <2>1, <2>2, GotoKeeps
  <2>4. TypeOK'
    BY <1>1, <1>2, <1>6, <2>3
       DEF TypeOK, CheckLibrary, CheckJobs, StorePdf, DescribePdf, library, Moves, KeepsJobs
  <2> QED
    BY <1>2, <1>3, <1>4, <2>3, <2>4, RequestMove
       DEF At, HandedOver, GivingUp, Cleaning, Discarding, KeepsLock
<1> QED
  BY <1>5, <1>6

\* The job file and the message: the request has not been handed over before.
LEMMA HandOverKeeps ==
    ASSUME IInv, NEW u \in Uploads, SaveJob(u) \/ Enqueue(u) \/ EnqueueRaises(u)
    PROVE  IInv'
<1> USE DEF IInv
<1>1. u \in Threads
  BY DEF Threads
<1>2. UNCHANGED <<library, crashes>> /\ th[u].pc \in {"described", "saved"}
  BY DEF SaveJob, Enqueue, EnqueueRaises, At
<1>3. PICK next \in {"saved", "pending", "done", "rejected", "discard"} : Goto(u, next)
  BY DEF SaveJob, Enqueue, EnqueueRaises
<1>4. next \in ProgramCounters
  BY DEF ProgramCounters, Discarding
<1>5. Moves(u) /\ SameUpload(u) /\ th'[u].pc = next
  BY <1>1, <1>3, <1>4, GotoKeeps
<1>6. At(Boot, "idle")
  BY <1>2 DEF BootInv, AtRest
<1>7. /\ Runner \in Threads \ {u} /\ Boot \in Threads \ {u}
      /\ th'[Runner] = th[Runner] /\ th'[Boot] = th[Boot]
      /\ \A v \in Uploads \ {u} : th'[v] = th[v]
  BY <1>5 DEF Threads, Moves
<1>8. ~HandedOver(u)
  BY <1>2 DEF HandedOver, GivingUp, Cleaning, Discarding
<1>9. \A v \in Uploads : HandedOver(v) => HandedOver(v)'
  BY <1>7, <1>8 DEF HandedOver, GivingUp
<1>10. WithdrawalsExclusive' /\ (~Durable => CleanupIsCurrent)'
  <2>1. KeepsLock(u)
    BY <1>2, <1>3, <1>5 DEF KeepsLock, Cleaning, library
  <2> QED
    BY <1>1, <1>5, <2>1, LockKept
<1>11. ~At(Runner, "idle") => th[Runner].upload \in Uploads \ {u}
  BY <1>8 DEF RunnerInv
<1>12. OwnUpload' /\ BootInv'
  BY <1>5, <1>6, <1>7 DEF OwnUpload, SameUpload, BootInv, GivingUp, At, Cleaning, Discarding
<1>13. CASE SaveJob(u)
  <2>1. /\ job' = [job EXCEPT ![u] = "queued"]
        /\ queue' = queue
        /\ next = IF Durable THEN "saved" ELSE "pending"
    <3>1. PICK pc : pc = (IF Durable THEN "saved" ELSE "pending") /\ Goto(u, pc)
      BY <1>13 DEF SaveJob
    <3>2. pc \in ProgramCounters
      BY <3>1 DEF ProgramCounters
    <3> QED
      BY <1>1, <1>5, <1>13, <3>1, <3>2, GotoKeeps DEF SaveJob
  <2>2. TypeOK'
    BY <1>2, <1>5, <2>1 DEF TypeOK, library, Moves, Active
  <2>3. NoBroker' /\ Sent'
    BY <1>5, <1>7, <1>9, <2>1 DEF NoBroker, At, Sent, TypeOK, Messages
  <2>4. \A v \in Uploads \ {u} : job'[v] = job[v]
    BY <2>1 DEF TypeOK
  <2>5. RunnerInv'
    BY <1>7, <1>9, <1>11, <2>1, <2>4 DEF RunnerInv, At
  <2>6. AcceptedJobsHaveMessages'
    BY <1>5, <1>7, <2>1, <2>4 DEF AcceptedJobsHaveMessages, At
  <2> QED
    BY <1>10, <1>12, <2>2, <2>3, <2>5, <2>6
<1>14. CASE Enqueue(u) \/ EnqueueRaises(u)
  <2> DEFINE message == [upload |-> u, attempt |-> 0]
  <2>1. /\ job' = job
        /\ queue' \in {queue, queue \cup {message}}
        /\ next = "done" => message \in queue'
        /\ next \in {"done", "rejected", "discard"}
        /\ At(u, "saved")
    <3>1. CASE Enqueue(u)
      BY <1>1, <1>3, <1>5, <3>1, GotoKeeps DEF Enqueue, ProgramCounters
    <3>2. CASE EnqueueRaises(u)
      <4>1. th'[u].pc \in {"rejected", "discard"}
        <5>1. PICK pc \in {"rejected", "discard"} : Goto(u, pc)
          BY <3>2 DEF EnqueueRaises
        <5>2. pc \in ProgramCounters
          BY DEF ProgramCounters, Discarding
        <5> QED
          BY <1>1, <5>1, <5>2, GotoKeeps
      <4> QED
        BY <1>5, <3>2, <4>1 DEF EnqueueRaises
    <3> QED
      BY <1>14, <3>1, <3>2
  <2>2. Durable /\ message \in Messages /\ message.upload = u
    BY <2>1 DEF NoBroker, Messages
  <2> HIDE DEF message
  <2>3. TypeOK'
    BY <1>2, <1>5, <2>1, <2>2 DEF TypeOK, library, Moves
  <2>4. HandedOver(u)'
    BY <1>5, <2>1 DEF HandedOver, GivingUp, Discarding
  <2>5. NoBroker' /\ Sent'
    BY <1>9, <2>1, <2>2, <2>4 DEF NoBroker, Sent, TypeOK, Messages
  <2>6. RunnerInv'
    <3> SUFFICES ASSUME ~At(Runner, "idle") PROVE RunnerInv'
      BY <1>7 DEF RunnerInv, At
    <3>1. PICK v \in Uploads \ {u} : v = th[Runner].upload
      BY <1>11
    <3>2. queue \subseteq queue' /\ th'[v] = th[v]
      BY <1>7, <2>1
    <3> QED
      BY <1>7, <1>9, <2>1, <3>1, <3>2 DEF RunnerInv, At
  <2>7. AcceptedJobsHaveMessages'
    <3> SUFFICES ASSUME NEW v \in Uploads, th'[v].pc = "done", job[v] \in Active
                 PROVE  \E m \in queue' : m.upload = v
      BY <2>1 DEF AcceptedJobsHaveMessages, At, Active
    <3>1. CASE v = u
      BY <1>5, <2>1, <2>2, <3>1
    <3>2. CASE v # u
      BY <1>7, <2>1, <2>2, <3>2 DEF AcceptedJobsHaveMessages, At
    <3> QED
      BY <3>1, <3>2
  <2> QED
    BY <1>10, <1>12, <2>3, <2>5, <2>6, <2>7
<1> QED
  BY <1>13, <1>14

-----------------------------------------------------------------------------
(* The steps of the runner *)

\* The runner takes a job whose request was answered and whose status is not final.
LEMMA BeginState ==
    ASSUME TypeOK, NEW u \in Uploads, NEW attempt \in 0..MaxRetries
    PROVE  Begin(u, attempt) \in ThreadStates
BY DEF TypeOK, Begin, ThreadStates, ProgramCounters

LEMMA StartMessageKeeps ==
    ASSUME IInv, NEW m \in queue, StartMessage(m)
    PROVE  IInv'
<1> USE DEF IInv
<1>1. Runner \in Threads /\ Boot \in Threads \ {Runner} /\ Uploads \subseteq Threads \ {Runner}
  BY DEF Threads
<1>2. UNCHANGED <<library, job, crashes>> /\ At(Runner, "idle")
  BY DEF StartMessage
<1>3. m \in Messages /\ m.upload \in Uploads /\ m.attempt \in 0..MaxRetries
  BY DEF TypeOK, Messages
<1>4. Durable
  BY DEF NoBroker
<1>5. CASE Runnable(m.upload)
  <2> DEFINE state == Begin(m.upload, m.attempt)
  <2>1. th' = [th EXCEPT ![Runner] = state] /\ queue' = queue
    BY <1>5 DEF StartMessage
  <2>2. state \in ThreadStates
    BY <1>3, BeginState
  <2>3. state.pc = "sweep" /\ state.upload = m.upload /\ state.attempt = m.attempt
    BY DEF Begin
  <2> HIDE DEF state
  <2>4. Moves(Runner) /\ th'[Runner] = state
    BY <1>1, <2>1, <2>2 DEF TypeOK, Moves
  <2>5. th'[Boot] = th[Boot] /\ \A v \in Uploads : th'[v] = th[v]
    BY <1>1, <2>4 DEF Moves
  <2>6. \A v \in Uploads : HandedOver(v) => HandedOver(v)'
    BY <2>5 DEF HandedOver, GivingUp
  <2>7. (WithdrawalsExclusive /\ (~Durable => CleanupIsCurrent))'
    BY <1>1, <1>2, <2>3, <2>4, LockKept DEF KeepsLock, Cleaning, library
  <2>8. TypeOK'
    BY <1>2, <2>1, <2>4 DEF TypeOK, library, Moves
  <2>9. OwnUpload' /\ NoBroker' /\ Sent'
    BY <1>4, <2>1, <2>5, <2>6 DEF OwnUpload, NoBroker, Sent, TypeOK, Messages
  <2>10. RunnerInv'
    <3>1. m = [upload |-> m.upload, attempt |-> m.attempt]
      BY <1>3 DEF Messages
    <3>2. HandedOver(m.upload)
      BY DEF Sent
    <3> QED
      BY <1>2, <1>3, <1>5, <2>1, <2>3, <2>4, <2>6, <3>1, <3>2
         DEF RunnerInv, At, Runnable, Active, Finished
  <2>11. BootInv' /\ AcceptedJobsHaveMessages'
    BY <1>2, <1>4, <2>1, <2>5 DEF BootInv, GivingUp, At, AcceptedJobsHaveMessages
  <2> QED
    BY <2>7, <2>8, <2>9, <2>10, <2>11
<1>6. CASE ~Runnable(m.upload)
  <2>1. th' = th /\ queue' = queue \ {m}
    BY <1>6 DEF StartMessage
  <2>2. TypeOK'
    BY <1>2, <2>1 DEF TypeOK, library
  <2>3. /\ OwnUpload' /\ NoBroker' /\ WithdrawalsExclusive' /\ Sent' /\ RunnerInv' /\ BootInv'
        /\ (~Durable => CleanupIsCurrent)'
    BY <1>2, <1>4, <2>1 DEF OwnUpload, NoBroker, WithdrawalsExclusive, Proc, Sent, HandedOver,
                            GivingUp, RunnerInv, BootInv, At, CleanupIsCurrent
  <2>4. AcceptedJobsHaveMessages'
    BY <1>2, <1>6, <2>1 DEF AcceptedJobsHaveMessages, Runnable, At
  <2> QED
    BY <2>2, <2>3, <2>4
<1> QED
  BY <1>5, <1>6

LEMMA StartPendingKeeps ==
    ASSUME IInv, NEW u \in Uploads, StartPending(u)
    PROVE  IInv'
<1> USE DEF IInv
<1>1. /\ UNCHANGED <<library, job, queue, crashes>>
      /\ ~Durable
      /\ At(u, "pending")
      /\ At(Runner, "idle")
      /\ u # Runner /\ u \in Threads /\ Runner \in Threads /\ Boot \in Threads
      /\ Uploads \subseteq Threads /\ Runner \notin Uploads /\ Boot \notin Uploads
  BY DEF StartPending, IngestionLockFree, Threads
<1> DEFINE state == IF Runnable(u) THEN Begin(u, 0) ELSE Idle
           handed == [th[u] EXCEPT !.pc = "done"]
<1>2. th[u] \in ThreadStates
  BY <1>1 DEF TypeOK
<1>3. handed \in ThreadStates /\ handed.pc = "done" /\ handed.upload = th[u].upload
  BY <1>2 DEF ThreadStates, ProgramCounters
<1>4. state \in ThreadStates /\ state.pc \in {"sweep", "idle"}
      /\ (state.pc = "sweep" => state.upload = u /\ Runnable(u))
  BY BeginState, IdleState DEF Begin, Idle
<1>5. th' = [th EXCEPT ![u] = handed, ![Runner] = state]
  BY DEF StartPending
<1> HIDE DEF state, handed
<1>6. /\ th'[u] = handed /\ th'[Runner] = state
      /\ \A s \in Threads \ {u, Runner} : th'[s] = th[s]
      /\ th' \in [Threads -> ThreadStates]
  BY <1>1, <1>3, <1>4, <1>5 DEF TypeOK
<1>7. TypeOK'
  BY <1>1, <1>6 DEF TypeOK, library
<1>8. At(Boot, "idle")
  BY <1>1 DEF BootInv, AtRest, At
<1>9. OwnUpload' /\ NoBroker' /\ Sent'
  BY <1>1, <1>3, <1>4, <1>6 DEF OwnUpload, NoBroker, Sent, At
<1>10. \A s \in Threads : th'[s].pc \in Cleaning => th[s].pc \in Cleaning /\ th'[s] = th[s]
  BY <1>3, <1>4, <1>6 DEF Cleaning
<1>11. WithdrawalsExclusive' /\ CleanupIsCurrent'
  BY <1>1, <1>10 DEF WithdrawalsExclusive, CleanupIsCurrent, Proc, library
<1>12. RunnerInv'
  BY <1>1, <1>3, <1>4, <1>6 DEF RunnerInv, At, HandedOver, Runnable, Active, Finished
<1>13. BootInv' /\ AcceptedJobsHaveMessages'
  BY <1>1, <1>6, <1>8 DEF BootInv, GivingUp, At, Cleaning, Discarding, AcceptedJobsHaveMessages
<1> QED
  BY <1>1, <1>7, <1>9, <1>11, <1>12, <1>13

\* Indexing itself: the runner's steps that change the library only.
LEMMA IndexingKeeps ==
    ASSUME IInv,
           \/ Discover \/ Pair \/ Extract \/ WriteEmptyManifest \/ Upsert \/ WriteManifest
    PROVE  IInv'
<1> USE DEF IInv
<1> DEFINE upload == th[Runner].upload
<1>1. Runner \in Threads /\ th[Runner] \in ThreadStates
  BY DEF Threads, TypeOK
<1>2. KeepsJobs /\ withdrawn' = withdrawn /\ crashes' = crashes
  BY DEF Discover, Pair, Extract, WriteEmptyManifest, Upsert, WriteManifest, library, KeepsJobs,
         TypeOK
<1>3. th[Runner].pc \in {"discover", "pair", "extract", "empty", "upsert", "manifest"}
  BY DEF Discover, Pair, Extract, WriteEmptyManifest, Upsert, WriteManifest, At
<1>4. upload \in Uploads /\ Subject \in Docs
  BY <1>3 DEF RunnerInv, At, Subject
<1>5. /\ Moves(Runner) /\ SameUpload(Runner)
      /\ th'[Runner].pc \in {"pair", "raised", "extract", "discard", "empty", "upsert",
                             "succeed", "manifest"}
  <2>1. CASE Discover \/ Pair
    <3>1. PICK next \in {"pair", "raised", "extract", "discard"}, files \in SUBSET Docs :
              th' = [th EXCEPT ![Runner] = [th[Runner] EXCEPT !.pc = next, !.docs = files]]
      <4>1. CASE Discover
        <5>1. th' = [th EXCEPT ![Runner] = [th[Runner] EXCEPT !.pc = "pair", !.docs = pdfs]]
          BY <1>1, <4>1 DEF Discover, TypeOK
        <5> QED
          BY <5>1 DEF TypeOK
      <4>2. CASE Pair
        <5>1. PICK next \in {"raised", "extract", "discard"} :
                  th' = [th EXCEPT ![Runner].pc = next, ![Runner].docs = {}]
          BY <4>2 DEF Pair
        <5>2. th' = [th EXCEPT ![Runner] = [th[Runner] EXCEPT !.pc = next, !.docs = {}]]
          BY <1>1, <5>1 DEF TypeOK
        <5> QED
          BY <5>2
      <4> QED
        BY <2>1, <4>1, <4>2
    <3> DEFINE state == [th[Runner] EXCEPT !.pc = next, !.docs = files]
    <3>2. /\ state \in ThreadStates
          /\ state.pc = next
          /\ state.upload = th[Runner].upload
          /\ state.attempt = th[Runner].attempt
      <4>1. th[Runner] \in ThreadStates /\ next \in ProgramCounters
        BY <1>1 DEF ProgramCounters, Discarding
      <4> QED
        BY <1>1, <4>1 DEF ThreadStates
    <3>3. th' = [th EXCEPT ![Runner] = state]
      BY <3>1
    <3> HIDE DEF state
    <3> QED
      BY <1>1, <3>2, <3>3 DEF TypeOK, Moves, SameUpload
  <2>2. CASE Extract \/ WriteEmptyManifest \/ Upsert \/ WriteManifest
    <3>1. PICK next \in {"discard", "raised", "empty", "succeed", "upsert", "manifest"} :
              Goto(Runner, next)
      BY <2>2 DEF Extract, WriteEmptyManifest, Upsert, WriteManifest
    <3>2. next \in ProgramCounters
      BY DEF ProgramCounters, Discarding
    <3> QED
      BY <1>1, <3>1, <3>2, GotoKeeps
  <2> QED
    BY <2>1, <2>2
<1>6. TypeOK'
  BY <1>2, <1>4, <1>5
     DEF TypeOK, Moves, KeepsJobs, library, Discover, Pair, Extract, WriteEmptyManifest, Upsert,
         WriteManifest
<1> QED
  BY <1>2, <1>3, <1>5, <1>6, RunnerMove DEF KeepsLock, Cleaning

\* The runner writes a status: a final one when it is done, and only then.
LEMMA RunnerReports ==
    ASSUME IInv, NEW status \in Active \cup Finished,
           Moves(Runner), SameUpload(Runner), UNCHANGED <<library, queue, crashes>>,
           job' = [job EXCEPT ![th[Runner].upload] = status],
           th[Runner].pc \notin {"idle", "ack"}, th'[Runner].pc \notin Cleaning \cup {"idle"},
           th'[Runner].pc = "ack" <=> status \in Finished,
           th'[Runner].pc = "retry" => Durable /\ th[Runner].attempt < MaxRetries
    PROVE  IInv'
<1> USE DEF IInv
<1>1. PICK u \in Uploads : u = th[Runner].upload
  BY DEF RunnerInv, At
<1>2. /\ Runner \in Threads /\ Boot \in Threads \ {Runner}
      /\ th'[Boot] = th[Boot] /\ \A v \in Uploads : th'[v] = th[v]
  BY DEF Threads, Moves
<1>3. job' = [job EXCEPT ![u] = status] /\ job'[u] = status
      /\ \A v \in Uploads \ {u} : job'[v] = job[v]
  BY <1>1 DEF TypeOK
<1>4. TypeOK'
  BY <1>3 DEF TypeOK, library, Moves
<1>5. \A v \in Uploads : HandedOver(v) <=> HandedOver(v)'
  BY <1>2 DEF HandedOver, GivingUp
<1>6. (WithdrawalsExclusive /\ (~Durable => CleanupIsCurrent))'
  BY <1>2, LockKept DEF KeepsLock, library
<1>7. OwnUpload' /\ NoBroker' /\ Sent'
  BY <1>2, <1>5 DEF OwnUpload, NoBroker, At, Sent, TypeOK, Messages
<1>8. RunnerInv'
  BY <1>1, <1>2, <1>3, <1>5 DEF RunnerInv, At, SameUpload, Active, Finished
<1>9. BootInv'
  BY <1>2 DEF BootInv, GivingUp, At, Cleaning, Discarding
<1>10. AcceptedJobsHaveMessages'
  <2> SUFFICES ASSUME Durable, NEW v \in Uploads, At(v, "done"), job'[v] \in Active
               PROVE  \E m \in queue : m.upload = v
    BY <1>2 DEF AcceptedJobsHaveMessages, At
  <2>1. CASE v = u
    BY <1>1, <2>1 DEF RunnerInv, At
  <2>2. CASE v # u
    BY <1>3, <2>2 DEF AcceptedJobsHaveMessages
  <2> QED
    BY <2>1, <2>2
<1> QED
  BY <1>4, <1>6, <1>7, <1>8, <1>9, <1>10

LEMMA RunnerReportKeeps ==
    ASSUME IInv, MarkProcessing \/ Succeed \/ HandleError \/ Fail(Runner)
    PROVE  IInv'
<1> USE DEF IInv
<1>1. Runner \in Threads /\ th[Runner] \in ThreadStates
  BY DEF Threads, TypeOK
<1>2. CASE MarkProcessing
  <2>1. th[Runner].upload \in Uploads
    BY <1>2 DEF MarkProcessing, RunnerInv, At
  <2> DEFINE state == [th[Runner] EXCEPT !.pc = "discover", !.doc = Subject]
  <2>2. th' = [th EXCEPT ![Runner] = state]
    BY <1>1, <1>2 DEF MarkProcessing, TypeOK
  <2>3. state \in ThreadStates /\ state.pc = "discover" /\ state.upload = th[Runner].upload
        /\ state.attempt = th[Runner].attempt
    BY <1>1, <2>1 DEF ThreadStates, ProgramCounters, Subject
  <2> HIDE DEF state
  <2>4. Moves(Runner) /\ SameUpload(Runner) /\ th'[Runner].pc = "discover"
    BY <1>1, <2>2, <2>3 DEF TypeOK, Moves, SameUpload
  <2> QED
    BY <1>2, <2>4, RunnerReports DEF MarkProcessing, At, Active, Finished, Cleaning
<1>3. CASE Succeed
  <2>1. Moves(Runner) /\ SameUpload(Runner) /\ th'[Runner].pc = "ack"
    BY <1>1, <1>3, GotoKeeps DEF Succeed, ProgramCounters
  <2> QED
    BY <1>3, <2>1, RunnerReports DEF Succeed, At, Active, Finished, Cleaning
<1>4. CASE Fail(Runner)
  <2>1. Moves(Runner) /\ SameUpload(Runner) /\ th'[Runner].pc = "ack"
    BY <1>1, <1>4, GotoKeeps DEF Fail, ProgramCounters
  <2> QED
    BY <1>4, <2>1, RunnerReports DEF Fail, At, Active, Finished, Cleaning
<1>5. CASE HandleError
  <2>1. CASE Durable /\ th[Runner].attempt < MaxRetries
    <3>1. Moves(Runner) /\ SameUpload(Runner) /\ th'[Runner].pc = "retry"
      BY <1>1, <1>5, <2>1, GotoKeeps DEF HandleError, ProgramCounters
    <3> QED
      BY <1>5, <2>1, <3>1, RunnerReports DEF HandleError, At, Active, Finished, Cleaning
  <2>2. CASE ~(Durable /\ th[Runner].attempt < MaxRetries)
    <3>1. Moves(Runner) /\ SameUpload(Runner) /\ th'[Runner].pc = "discard"
      BY <1>1, <1>5, <2>2, GotoKeeps DEF HandleError, ProgramCounters, Discarding
    <3>2. KeepsJobs /\ TypeOK' /\ withdrawn' = withdrawn
      BY <1>5, <2>2, <3>1 DEF HandleError, library, TypeOK, Moves, KeepsJobs
    <3> QED
      BY <1>5, <3>1, <3>2, RunnerMove DEF HandleError, At, KeepsLock, Cleaning
  <2> QED
    BY <2>1, <2>2
<1> QED
  BY <1>2, <1>3, <1>4, <1>5

\* The next attempt is published before this one is acknowledged.
LEMMA RetryKeeps ==
    ASSUME IInv, Retry
    PROVE  IInv'
<1> USE DEF IInv
<1> DEFINE attempt == th[Runner].attempt
<1>1. PICK u \in Uploads : u = th[Runner].upload
  BY DEF RunnerInv, Retry, At
<1>2. attempt \in 0..MaxRetries /\ attempt < MaxRetries /\ Durable /\ Runner \in Threads
  BY DEF Retry, RunnerInv, NoBroker, TypeOK, ThreadStates, Threads, At
<1> DEFINE message == [upload |-> u, attempt |-> attempt + 1]
<1>3. queue' = queue \cup {message} /\ UNCHANGED <<library, job, crashes>>
  BY <1>1 DEF Retry
<1>4. message \in Messages /\ message.upload = u
  BY <1>2 DEF Messages
<1>5. Moves(Runner) /\ SameUpload(Runner) /\ th'[Runner].pc = "ack"
  BY <1>2, GotoKeeps DEF Retry, ProgramCounters
<1>6. th'[Boot] = th[Boot] /\ \A v \in Uploads : th'[v] = th[v]
  BY <1>5 DEF Threads, Moves
<1>7. TypeOK'
  BY <1>3, <1>4, <1>5 DEF TypeOK, library, Moves
<1>8. HandedOver(u) /\ \A v \in Uploads : HandedOver(v) <=> HandedOver(v)'
  BY <1>1, <1>6 DEF HandedOver, GivingUp, RunnerInv, Retry, At
<1>9. (WithdrawalsExclusive /\ (~Durable => CleanupIsCurrent))'
  BY <1>2, <1>3, <1>5, LockKept DEF KeepsLock, Cleaning, library
<1>10. RunnerInv'
  <2>1. message \in queue' /\ queue \subseteq queue' /\ message.attempt = attempt + 1
    BY <1>3
  <2>2. [upload |-> u, attempt |-> attempt] \in queue
    BY <1>1, <1>2 DEF RunnerInv, Retry, At
  <2> QED
    BY <1>1, <1>5, <1>8, <2>1, <2>2 DEF RunnerInv, At, SameUpload
<1> HIDE DEF message
<1>11. OwnUpload' /\ NoBroker' /\ Sent'
  BY <1>2, <1>3, <1>4, <1>6, <1>8 DEF OwnUpload, NoBroker, Sent, TypeOK, Messages
<1>12. BootInv' /\ AcceptedJobsHaveMessages'
  BY <1>2, <1>3, <1>6
     DEF BootInv, GivingUp, At, AcceptedJobsHaveMessages
<1> QED
  BY <1>7, <1>9, <1>10, <1>11, <1>12

\* What is acknowledged is finished, gone, or published again.
LEMMA AcknowledgeKeeps ==
    ASSUME IInv, Acknowledge
    PROVE  IInv'
<1> USE DEF IInv
<1>1. PICK u \in Uploads : u = th[Runner].upload
  BY DEF RunnerInv, Acknowledge, At
<1> DEFINE message == [upload |-> u, attempt |-> th[Runner].attempt]
<1>2. queue' = queue \ {message} /\ UNCHANGED <<library, job, crashes>>
      /\ th' = [th EXCEPT ![Runner] = Idle] /\ Runner \in Threads
  BY <1>1 DEF Acknowledge, Threads
<1>3. Moves(Runner) /\ th'[Runner] = Idle
  BY <1>2, IdleState DEF TypeOK, Moves
<1>4. th'[Runner].pc = "idle"
  BY <1>3 DEF Idle
<1>5. th'[Boot] = th[Boot] /\ \A v \in Uploads : th'[v] = th[v]
  BY <1>3 DEF Threads, Moves
<1>6. (WithdrawalsExclusive /\ (~Durable => CleanupIsCurrent))'
  BY <1>2, <1>3, <1>4, LockKept DEF KeepsLock, Cleaning, library
<1>7. TypeOK' /\ OwnUpload' /\ NoBroker' /\ RunnerInv'
  BY <1>2, <1>3, <1>4, <1>5 DEF TypeOK, library, Moves, OwnUpload, NoBroker, RunnerInv, At
<1>8. Sent' /\ BootInv'
  BY <1>2, <1>4, <1>5 DEF Sent, HandedOver, GivingUp, BootInv, At, TypeOK, Messages
<1>9. AcceptedJobsHaveMessages'
  <2> SUFFICES ASSUME Durable, NEW v \in Uploads, At(v, "done"), job[v] \in Active
               PROVE  \E m \in queue' : m.upload = v
    BY <1>2, <1>5 DEF AcceptedJobsHaveMessages, At
  <2>1. CASE v = u
    <3> DEFINE next == [upload |-> u, attempt |-> th[Runner].attempt + 1]
    <3>1. next \in queue
      BY <1>1, <2>1 DEF RunnerInv, Acknowledge, At
    <3>2. next # message
      <4>1. next.attempt # message.attempt
        BY <1>2 DEF TypeOK, ThreadStates
      <4> QED
        BY <4>1
    <3> QED
      BY <1>2, <2>1, <3>1, <3>2
  <2>2. CASE v # u
    <3>1. PICK m \in queue : m.upload = v
      BY DEF AcceptedJobsHaveMessages
    <3>2. m # message
      BY <2>2, <3>1
    <3> QED
      BY <1>2, <3>1, <3>2
  <2> QED
    BY <2>1, <2>2
<1> QED
  BY <1>6, <1>7, <1>8, <1>9

-----------------------------------------------------------------------------
(* The steps of the deleter and of the boot thread, and crashes *)

DeletionStep == Delete \/ \E d \in Docs : RequestDeletion(d)

LEMMA DeletionKeeps ==
    ASSUME IInv, DeletionStep
    PROVE  IInv'
<1> USE DEF IInv
<1>1. Deleter \in Threads /\ th[Deleter] \in ThreadStates /\ Deleter # Boot
  BY DEF Threads, TypeOK
<1>2. queue' = queue /\ withdrawn' = withdrawn /\ crashes' = crashes
  BY DEF DeletionStep, Delete, RequestDeletion, LockForDeletion, DeletePoints, DeletePdf,
         DeleteOverride, DeleteJobs, DeleteListed, library
<1>3. KeepsJobs
  BY <1>2 DEF DeletionStep, Delete, RequestDeletion, LockForDeletion, DeletePoints, DeletePdf,
              DeleteOverride, DeleteJobs, DeleteListed, KeepsJobs, TypeOK
<1>4. Moves(Deleter) /\ th'[Deleter].pc \in {"idle", "lock"} \cup Deleting
  <2>1. ASSUME NEW d \in Docs, RequestDeletion(d)
        PROVE  Moves(Deleter) /\ th'[Deleter].pc = "lock"
    <3> DEFINE state == [th[Deleter] EXCEPT !.pc = "lock", !.doc = d]
    <3>1. th' = [th EXCEPT ![Deleter] = state]
      BY <2>1 DEF RequestDeletion
    <3>2. state \in ThreadStates /\ state.pc = "lock"
      BY <1>1 DEF ThreadStates, ProgramCounters
    <3> HIDE DEF state
    <3> QED
      BY <1>1, <3>1, <3>2 DEF TypeOK, Moves
  <2>2. ASSUME NEW next \in Deleting, Goto(Deleter, next)
        PROVE  Moves(Deleter) /\ th'[Deleter].pc = next
    BY <1>1, <2>2, GotoKeeps DEF ProgramCounters
  <2>3. ASSUME th' = [th EXCEPT ![Deleter] = Idle]
        PROVE  Moves(Deleter) /\ th'[Deleter].pc = "idle"
    BY <1>1, <2>3, IdleState DEF TypeOK, Moves, Idle
  <2>4. \/ \E d \in Docs : RequestDeletion(d)
        \/ \E next \in Deleting : Goto(Deleter, next)
        \/ th' = [th EXCEPT ![Deleter] = Idle]
    BY DEF DeletionStep, Delete, LockForDeletion, DeletePoints, DeletePdf, DeleteOverride,
           DeleteJobs, DeleteListed, Deleting
  <2> QED
    BY <2>1, <2>2, <2>3, <2>4
<1>5. TypeOK'
  <2>1. pdfs' \subseteq pdfs /\ overrides' \subseteq overrides /\ listed' \subseteq listed
        /\ points' \subseteq points
    BY DEF DeletionStep, Delete, RequestDeletion, LockForDeletion, DeletePoints, DeletePdf,
           DeleteOverride, DeleteJobs, DeleteListed, library
  <2> QED
    BY <1>2, <1>3, <1>4, <2>1 DEF TypeOK, Moves, KeepsJobs
<1>6. KeepsLock(Deleter)
  BY <1>2, <1>4 DEF KeepsLock, Cleaning, Deleting
<1> QED
  BY <1>1, <1>3, <1>4, <1>5, <1>6, ServiceMove

LEMMA FinishRecoveryKeeps ==
    ASSUME IInv, FinishRecovery \/ StartServing
    PROVE  IInv'
<1> USE DEF IInv
<1>1. Boot \in Threads /\ ~At(Boot, "idle") /\ UNCHANGED <<library, job, queue, crashes>>
  BY DEF Threads, FinishRecovery, StartServing, At
<1> DEFINE state == IF FinishRecovery THEN [Idle EXCEPT !.pc = "sweep", !.docs = withdrawn]
                    ELSE Idle
<1>2. state \in ThreadStates /\ state.pc \in {"sweep", "idle"}
  BY IdleState DEF TypeOK, Idle, ThreadStates, ProgramCounters
<1>3. th' = [th EXCEPT ![Boot] = state]
  BY DEF FinishRecovery, StartServing
<1> HIDE DEF state
<1>4. Moves(Boot) /\ th'[Boot].pc \in {"sweep", "idle"}
  BY <1>1, <1>2, <1>3 DEF TypeOK, Moves
<1>5. TypeOK' /\ KeepsJobs
  BY <1>1, <1>4 DEF TypeOK, Moves, KeepsJobs, library
<1> QED
  BY <1>1, <1>4, <1>5, ServiceMove DEF KeepsLock, GivingUp, Cleaning, Discarding, library

\* Recovery starts to fail a job that died with the process.
LEMMA RecoverJobKeeps ==
    ASSUME IInv, NEW u \in Uploads, RecoverJob(u)
    PROVE  IInv'
<1> USE DEF IInv
<1>1. /\ Boot \in Threads /\ th[Boot] \in ThreadStates /\ Runner # Boot
      /\ At(Boot, "recover") /\ ~Durable /\ job[u] \in Active
      /\ UNCHANGED <<library, job, queue, crashes>>
  BY DEF RecoverJob, Threads, TypeOK
<1> DEFINE state == [th[Boot] EXCEPT !.pc = "discard", !.upload = u]
<1>2. state \in ThreadStates /\ state.pc = "discard" /\ state.upload = u
  BY <1>1 DEF ThreadStates, ProgramCounters, Discarding
<1>3. th' = [th EXCEPT ![Boot] = state]
  BY DEF RecoverJob
<1> HIDE DEF state
<1>4. Moves(Boot) /\ th'[Boot] = state
  BY <1>1, <1>2, <1>3 DEF TypeOK, Moves
<1>5. th'[Runner] = th[Runner] /\ \A v \in Uploads : th'[v] = th[v]
  BY <1>1, <1>4 DEF Threads, Moves
<1>6. (WithdrawalsExclusive /\ (~Durable => CleanupIsCurrent))'
  BY <1>1, <1>2, <1>4, LockKept DEF KeepsLock, Cleaning, library
<1>7. TypeOK' /\ OwnUpload' /\ NoBroker' /\ Sent' /\ AcceptedJobsHaveMessages'
  BY <1>1, <1>4, <1>5
     DEF TypeOK, Moves, library, OwnUpload, NoBroker, Sent, At, AcceptedJobsHaveMessages
<1>8. RunnerInv' /\ BootInv'
  BY <1>1, <1>2, <1>4, <1>5 DEF RunnerInv, BootInv, At, Active, Finished
<1> QED
  BY <1>6, <1>7, <1>8

\* A request that gives its upload up, or the boot thread, writes the final status.
LEMMA FailKeeps ==
    ASSUME IInv, NEW t \in Uploads \cup {Boot}, Fail(t)
    PROVE  IInv'
<1> USE DEF IInv
<1>1. t \in Threads /\ t # Runner /\ At(t, "fail") /\ UNCHANGED <<library, queue, crashes>>
  BY DEF Fail, Threads
<1>2. Moves(t) /\ SameUpload(t) /\ th'[t].pc = IF t = Boot THEN "recover" ELSE "rejected"
  <2>1. PICK next : next = (IF t = Boot THEN "recover" ELSE "rejected") /\ Goto(t, next)
    BY <1>1 DEF Fail
  <2>2. next \in ProgramCounters
    BY <2>1 DEF ProgramCounters
  <2> QED
    BY <1>1, <2>1, <2>2, GotoKeeps
<1>3. PICK u \in Uploads : u = th[t].upload /\ (t \in Uploads => u = t)
  BY <1>1 DEF OwnUpload, BootInv, GivingUp, Discarding, At
<1>4. job' = [job EXCEPT ![u] = "failed"] /\ job'[u] = "failed"
      /\ \A v \in Uploads \ {u} : job'[v] = job[v]
  BY <1>3 DEF Fail, TypeOK
<1>5. th'[Runner] = th[Runner] /\ \A v \in Uploads \ {t} : th'[v] = th[v]
  BY <1>1, <1>2 DEF Threads, Moves
<1>6. (WithdrawalsExclusive /\ (~Durable => CleanupIsCurrent))'
  BY <1>1, <1>2, LockKept DEF KeepsLock, Cleaning, library
<1>7. TypeOK'
  BY <1>1, <1>2, <1>4 DEF TypeOK, Moves, library, Finished
<1>8. OwnUpload' /\ NoBroker'
  BY <1>1, <1>2, <1>5 DEF OwnUpload, NoBroker, SameUpload, At
<1>9. \A v \in Uploads : HandedOver(v) => HandedOver(v)'
  BY <1>1, <1>2, <1>5 DEF HandedOver, GivingUp
<1>10. Sent'
  BY <1>1, <1>9 DEF Sent, TypeOK, Messages
<1>11. AcceptedJobsHaveMessages'
  BY <1>1, <1>2, <1>4, <1>5 DEF AcceptedJobsHaveMessages, At, Active
<1>12. CASE t = Boot
  <2>1. At(Runner, "idle") /\ ~At(Boot, "idle")
    BY <1>1, <1>12 DEF BootInv, GivingUp, Discarding, At
  <2> QED
    BY <1>2, <1>5, <1>6, <1>7, <1>8, <1>10, <1>11, <1>12, <2>1
       DEF RunnerInv, BootInv, GivingUp, At, Cleaning, Discarding
<1>13. CASE t \in Uploads
  <2>1. At(Boot, "idle") /\ t # Boot
    BY <1>1, <1>13 DEF BootInv, AtRest, At
  <2>2. th'[Boot] = th[Boot]
    BY <1>2, <2>1 DEF Moves, Threads
  <2>3. BootInv'
    BY <2>1, <2>2 DEF BootInv, GivingUp, At, Cleaning, Discarding
  <2>4. RunnerInv'
    <3> SUFFICES ASSUME ~At(Runner, "idle") PROVE RunnerInv'
      BY <1>5 DEF RunnerInv, At
    <3>1. PICK v \in Uploads : v = th[Runner].upload
      BY DEF RunnerInv
    <3>2. CASE v = u
      BY <1>1, <1>2, <1>3, <1>4, <1>5, <1>9, <1>13, <2>1, <3>1, <3>2
         DEF RunnerInv, At, Active
    <3>3. CASE v # u
      BY <1>1, <1>3, <1>4, <1>5, <1>9, <1>13, <3>1, <3>3 DEF RunnerInv, At
    <3> QED
      BY <3>2, <3>3
  <2> QED
    BY <1>6, <1>7, <1>8, <1>10, <1>11, <2>3, <2>4
<1> QED
  BY <1>12, <1>13

LEMMA CrashWorkerKeeps ==
    ASSUME IInv, CrashWorker
    PROVE  IInv'
<1> USE DEF IInv
<1>1. /\ Runner \in Threads /\ Durable /\ UNCHANGED <<library, job, queue>>
      /\ crashes' \in [Procs -> Nat]
  BY DEF CrashWorker, Threads, TypeOK, Procs
<1>2. Moves(Runner) /\ th'[Runner] = Idle
  BY <1>1, IdleState DEF CrashWorker, TypeOK, Moves
<1>3. th'[Runner].pc = "idle"
  BY <1>2 DEF Idle
<1>4. th'[Boot] = th[Boot] /\ \A v \in Uploads : th'[v] = th[v]
  BY <1>2 DEF Threads, Moves
<1>5. (WithdrawalsExclusive /\ (~Durable => CleanupIsCurrent))'
  BY <1>1, <1>3, <1>2, LockKept DEF KeepsLock, Cleaning, library
<1>6. TypeOK' /\ OwnUpload' /\ NoBroker' /\ RunnerInv'
  BY <1>1, <1>2, <1>3, <1>4 DEF TypeOK, library, Moves, OwnUpload, NoBroker, RunnerInv, At
<1>7. Sent' /\ BootInv' /\ AcceptedJobsHaveMessages'
  BY <1>1, <1>3, <1>4
     DEF Sent, HandedOver, GivingUp, BootInv, At, TypeOK, Messages, AcceptedJobsHaveMessages
<1> QED
  BY <1>5, <1>6, <1>7

\* What the API process leaves: requests at rest, no thread in a withdrawal, a boot thread.
LEMMA CrashApiKeeps ==
    ASSUME IInv, CrashApi
    PROVE  IInv'
<1> USE DEF IInv
<1>1. /\ UNCHANGED <<library, job, queue>> /\ crashes' \in [Procs -> Nat]
      /\ th' = [t \in Threads |-> IF Proc(t) = "api" THEN Killed(t) ELSE th[t]]
  BY DEF CrashApi, TypeOK, Procs
<1>2. th'[Runner] = (IF Durable THEN th[Runner] ELSE Idle)
  BY <1>1 DEF Threads, Proc, Killed
<1>3. th'[Deleter] = Idle
  BY <1>1 DEF Threads, Proc, Killed
<1> DEFINE recovering == [Idle EXCEPT !.pc = "recover"]
<1>4. th'[Boot] = recovering
  BY <1>1 DEF Threads, Proc, Killed
<1>5. ASSUME NEW u \in Uploads
      PROVE  th'[u] = IF th[u].pc \in {"new", "done", "refused", "rejected"} THEN th[u]
                      ELSE Request(u, "dead")
  BY <1>1, <1>5 DEF Threads, Proc, Killed
<1>6. ASSUME NEW u \in Uploads
      PROVE  /\ Request(u, "dead") \in ThreadStates
             /\ Request(u, "dead").pc = "dead"
             /\ Request(u, "dead").upload = u
  BY DEF Request, ThreadStates, ProgramCounters
<1>7. recovering \in ThreadStates /\ recovering.pc = "recover"
  BY DEF Idle, ThreadStates, ProgramCounters
<1>8. Idle.pc = "idle"
  BY DEF Idle
<1> HIDE DEF recovering
<1>9. \A u \in Uploads :
          /\ th'[u] \in ThreadStates
          /\ th'[u].upload = u
          /\ th'[u].pc \in AtRest
          /\ th'[u].pc # "dead" => th'[u] = th[u]
  <2> TAKE u \in Uploads
  <2>1. th[u] \in ThreadStates /\ th[u].upload = u
    BY DEF OwnUpload, TypeOK, Threads
  <2>2. CASE th[u].pc \in {"new", "done", "refused", "rejected"}
    <3>1. th'[u] = th[u]
      BY <1>5, <2>2
    <3> QED
      BY <2>1, <2>2, <3>1 DEF AtRest
  <2>3. CASE th[u].pc \notin {"new", "done", "refused", "rejected"}
    <3>1. th'[u] = Request(u, "dead")
      BY <1>5, <2>3
    <3> QED
      BY <1>6, <3>1 DEF AtRest
  <2> QED
    BY <2>2, <2>3
<1>10. TypeOK'
  <2>1. \A t \in Threads : th'[t] \in ThreadStates
    BY <1>2, <1>3, <1>4, <1>7, <1>9, IdleState DEF Threads, TypeOK
  <2>2. th' \in [Threads -> ThreadStates]
    BY <1>1, <2>1
  <2> QED
    BY <1>1, <2>2 DEF TypeOK, library
<1>11. \A t \in Threads : th'[t].pc \in Cleaning => t = Runner /\ Durable
  BY <1>2, <1>3, <1>4, <1>7, <1>8, <1>9 DEF Threads, AtRest, Cleaning
<1>12. WithdrawalsExclusive' /\ (~Durable => CleanupIsCurrent)'
  BY <1>11 DEF WithdrawalsExclusive, CleanupIsCurrent
<1>13. \A u \in Uploads : HandedOver(u) => HandedOver(u)'
  <2> TAKE u \in Uploads
  <2>1. th'[u] = th[u] \/ th'[u].pc = "dead"
    BY <1>9
  <2> QED
    BY <2>1 DEF HandedOver, GivingUp
<1>14. OwnUpload' /\ NoBroker' /\ Sent'
  <2>1. OwnUpload' /\ NoBroker'
    BY <1>1, <1>2, <1>8, <1>9 DEF OwnUpload, NoBroker, At, AtRest
  <2>2. Sent'
    BY <1>1, <1>13 DEF Sent, TypeOK, Messages
  <2> QED
    BY <2>1, <2>2
<1>15. RunnerInv'
  <2> SUFFICES ASSUME Durable, ~At(Runner, "idle") PROVE RunnerInv'
    BY <1>2, <1>8 DEF RunnerInv, At
  <2>1. PICK v \in Uploads : v = th[Runner].upload
    BY DEF RunnerInv
  <2>2. At(v, "rejected") => At(v, "rejected")'
    BY <1>5 DEF At
  <2> QED
    BY <1>1, <1>2, <1>13, <2>1, <2>2 DEF RunnerInv, At
<1>16. BootInv'
  BY <1>2, <1>4, <1>7, <1>8, <1>9 DEF BootInv, GivingUp, At, Cleaning, Discarding
<1>17. AcceptedJobsHaveMessages'
  BY <1>1, <1>9 DEF AcceptedJobsHaveMessages, At
<1> QED
  BY <1>10, <1>12, <1>14, <1>15, <1>16, <1>17

-----------------------------------------------------------------------------
LEMMA StepIInv == IInv /\ [Next]_vars => IInv'
<1> SUFFICES ASSUME IInv, [Next]_vars PROVE IInv'
  OBVIOUS
<1>1. ASSUME NEW t \in Uploads \cup {Runner, Boot}, Withdraw(t) PROVE IInv'
  <2>1. CASE t # Runner /\ Fail(t)
    BY <2>1, FailKeeps
  <2>2. CASE t = Runner /\ Fail(t)
    BY <2>2, RunnerReportKeeps
  <2> QED
    BY <1>1, <2>1, <2>2, WithdrawKeeps DEF Withdraw, Withdraws
<1>2. ASSUME NEW u \in Uploads, Stage(u) PROVE IInv'
  BY <1>1, <1>2, StagingKeeps, HandOverKeeps DEF Stage
<1>3. CASE Run
  <2>1. CASE Start
    BY <2>1, StartMessageKeeps, StartPendingKeeps DEF Start
  <2> QED
    BY <1>1, <1>3, <2>1, IndexingKeeps, RunnerReportKeeps, RetryKeeps, AcknowledgeKeeps DEF Run
<1>4. CASE Delete \/ \E d \in Docs : RequestDeletion(d)
  BY <1>4, DeletionKeeps DEF DeletionStep
<1>5. CASE Restart
  BY <1>1, <1>5, RecoverJobKeeps, FinishRecoveryKeeps DEF Restart
<1>6. CASE UNCHANGED vars
  BY <1>6 DEF vars, library, IInv, TypeOK, OwnUpload, NoBroker, WithdrawalsExclusive, Proc,
              CleanupIsCurrent, Sent, HandedOver, GivingUp, RunnerInv, BootInv, At,
              AcceptedJobsHaveMessages
<1> QED
  BY <1>2, <1>3, <1>4, <1>5, <1>6, CrashApiKeeps, CrashWorkerKeeps DEF Next

\* The strengthening is an invariant: every action of every thread keeps it.
THEOREM AlwaysIInv == Spec => []IInv
BY InitIInv, StepIInv, PTL DEF Spec

\* Every variable keeps its type: in particular each thread only ever works on an upload and
\* documents the service knows.
THEOREM TypeCorrect == Spec => []TypeOK
<1>1. IInv => TypeOK
  BY DEF IInv
<1> QED
  BY <1>1, AlwaysIInv, PTL

\* _withdrawal_lock: in one process no two threads finish a withdrawal at a time.
THEOREM OneWithdrawalPerProcess == Spec => []WithdrawalsExclusive
<1>1. IInv => WithdrawalsExclusive
  BY DEF IInv
<1> QED
  BY <1>1, AlwaysIInv, PTL

\* Indexing inside the API process, whatever the number of uploads and crashes: files are only
\* removed of a document that is still withdrawn.
THEOREM CleanupStaysCurrent == ~Durable => (Spec => []CleanupIsCurrent)
<1> SUFFICES ASSUME ~Durable PROVE Spec => []CleanupIsCurrent
  OBVIOUS
<1>1. IInv => CleanupIsCurrent
  BY DEF IInv
<1> QED
  BY <1>1, AlwaysIInv, PTL

\* The broker holds a message of every accepted job until the job ends, across any number of
\* retries, lost replies, and deaths of the worker and of the API process.
THEOREM NoAcceptedJobIsLost == Spec => []AcceptedJobsHaveMessages
<1>1. IInv => AcceptedJobsHaveMessages
  BY DEF IInv
<1> QED
  BY <1>1, AlwaysIInv, PTL

\* A thread that reports on an upload reports on the one it works on, and nothing else writes
\* a job's file but the request that creates it and the deletion of its document.
LEMMA JobWriters ==
    ASSUME IInv, [Next]_vars
    PROVE  \/ UNCHANGED job
           \/ \E u \in Uploads : At(u, "described") /\ job' = [job EXCEPT ![u] = "queued"]
           \/ /\ th[Runner].pc \notin {"idle", "ack"}
              /\ \E status \in Active \cup Finished :
                     job' = [job EXCEPT ![th[Runner].upload] = status]
           \/ \E t \in Uploads \cup {Boot} :
                  At(t, "fail") /\ job' = [job EXCEPT ![th[t].upload] = "failed"]
           \/ \A u \in Uploads : job'[u] \in {job[u], "none"}
<1>1. ASSUME NEW t \in Uploads \cup {Runner, Boot}, Withdraw(t), ~Fail(t) PROVE UNCHANGED job
  BY <1>1 DEF Withdraw, RemovePoints, RemovePdf, RemoveOverride, RemoveMarker, Discard,
              CleanUpFailed, SweepNext, FinishWithdrawal
<1>2. CASE \E u \in Uploads : Stage(u) /\ ~SaveJob(u) /\ ~Fail(u)
  BY <1>1, <1>2 DEF Stage, CheckLibrary, CheckJobs, FinishEarlierAttempt, FinishWithdrawal,
                    StorePdf, DescribePdf, Enqueue, EnqueueRaises
<1>3. CASE \E u \in Uploads : SaveJob(u)
  BY <1>3 DEF SaveJob
<1>4. CASE \E t \in Uploads \cup {Boot} : Fail(t)
  BY <1>4 DEF Fail
<1>5. CASE MarkProcessing \/ Succeed \/ HandleError \/ Fail(Runner)
  BY <1>5 DEF MarkProcessing, Succeed, HandleError, Fail, At, Active, Finished
<1>6. CASE Run /\ ~(MarkProcessing \/ Succeed \/ HandleError \/ Fail(Runner))
  BY <1>1, <1>6 DEF Run, Start, StartPending, StartMessage, Discover, Pair, Extract,
                    WriteEmptyManifest, Upsert, WriteManifest, Retry, Acknowledge
<1>7. CASE \E d \in Docs : RequestDeletion(d)
  BY <1>7 DEF RequestDeletion
<1>8. CASE Delete
  <2>1. CASE DeleteJobs
    BY <2>1 DEF DeleteJobs
  <2> QED
    BY <1>8, <2>1 DEF Delete, LockForDeletion, DeletePoints, DeletePdf, DeleteOverride,
                      DeleteListed
<1>9. CASE Restart /\ ~Fail(Boot)
  BY <1>1, <1>9 DEF Restart, RecoverJob, FinishRecovery, StartServing
<1>10. CASE CrashApi \/ CrashWorker \/ UNCHANGED vars
  BY <1>10 DEF CrashApi, CrashWorker, vars
<1> QED
  BY <1>2, <1>3, <1>4, <1>5, <1>6, <1>7, <1>8, <1>9, <1>10 DEF Next

LEMMA StepKeepsFinished ==
    ASSUME IInv, [Next]_vars, NEW u \in Uploads,
           th[u].pc \in {"done", "dead"}, job[u] \in Finished
    PROVE  job'[u] \in {job[u], "none"}
<1> USE DEF IInv
<1>1. job \in [Uploads -> {"none"} \cup Active \cup Finished]
  BY DEF TypeOK
<1>2. CASE \E v \in Uploads : At(v, "described") /\ job' = [job EXCEPT ![v] = "queued"]
  BY <1>1, <1>2 DEF At
<1>3. CASE /\ th[Runner].pc \notin {"idle", "ack"}
           /\ \E status \in Active \cup Finished :
                  job' = [job EXCEPT ![th[Runner].upload] = status]
  <2>1. th[Runner].upload # u
    BY <1>3 DEF RunnerInv, At
  <2> QED
    BY <1>1, <1>3, <2>1
<1>4. CASE \E t \in Uploads \cup {Boot} :
               At(t, "fail") /\ job' = [job EXCEPT ![th[t].upload] = "failed"]
  <2>1. PICK t \in Uploads \cup {Boot} :
            At(t, "fail") /\ job' = [job EXCEPT ![th[t].upload] = "failed"]
    BY <1>4
  <2>2. th[t].upload # u
    BY <2>1 DEF OwnUpload, BootInv, GivingUp, Discarding, At
  <2> QED
    BY <1>1, <2>1, <2>2
<1> QED
  BY <1>1, <1>2, <1>3, <1>4, JobWriters

\* A message delivered again, a retry and the recovery of the API process leave alone every
\* job that was accepted and has been reported as finished.
THEOREM FinishedJobsStay == Spec => FinishedStaysFinished
<1>1. IInv /\ [Next]_vars =>
        [\A u \in Uploads : th[u].pc \in {"done", "dead"} /\ job[u] \in Finished
                                => job'[u] \in {job[u], "none"}]_vars
  BY StepKeepsFinished
<1> QED
  BY <1>1, AlwaysIInv, PTL DEF Spec, FinishedStaysFinished

-----------------------------------------------------------------------------
(* What the library offers, when the API process indexes: LibraryIsSound   *)
(* for any number of documents and of crashes, as long as at most two      *)
(* requests carry one document (it fails with three).                      *)
(*                                                                         *)
(* The argument: a marker is left by a request that is over (Placed), so   *)
(* while the runner indexes a document under a second request there is no  *)
(* third one that could finish the withdrawal beside it (IndexesAlone).    *)
(* Then a document that somebody is removing stays without points until    *)
(* it is removed, and the points that are written have a PDF (Offered).    *)

\* At most two requests carry one PDF.
AtMostTwoPerDocument ==
    \A u, v, w \in Uploads :
        DocumentOf[u] = DocumentOf[v] /\ DocumentOf[v] = DocumentOf[w]
            => u = v \/ v = w \/ u = w

\* The request is over: its background task took the job, or its process died.
Spent(u) == th[u].pc \in {"done", "dead"}

\* The runner has a job that it has not given up or reported on.
Working == th[Runner].pc \notin {"idle", "ack"} /\ ~GivingUp(Runner)

\* Where a request is, and that it has no job before the end of its staging.
RequestPlaced(u) ==
    /\ th[u].pc \in {"new", "unlisted", "checked", "store", "stored", "described", "pending",
                     "done", "refused", "dead"} \cup Cleaning
    /\ th[u].pc \in Cleaning => th[u].then = "store" /\ th[u].doc = DocumentOf[u]
    /\ job[u] # "none" => th[u].pc = "pending" \/ Spent(u)

RunnerPlaced ==
    /\ ~At(Runner, "idle") => Spent(th[Runner].upload)
    /\ Working => job[th[Runner].upload] \in Active

\* Files are deleted under the ingestion lock, and not while the process recovers.
DeleterPlaced ==
    /\ th[Deleter].pc \in {"idle", "lock"} \cup Deleting
    /\ th[Deleter].pc \in Deleting => At(Runner, "idle")
    /\ ~At(Boot, "idle") => At(Deleter, "idle")

BootPlaced == GivingUp(Boot) => Spent(th[Boot].upload)

\* A marker is left by a request that is over, and not by the one that is being indexed.
MarkersAreOfOthers ==
    \A d \in withdrawn : \E u \in Uploads :
        DocumentOf[u] = d /\ Spent(u) /\ (Working => u # th[Runner].upload)

Placed ==
    /\ \A u \in Uploads : RequestPlaced(u)
    /\ RunnerPlaced
    /\ DeleterPlaced
    /\ BootPlaced
    /\ MarkersAreOfOthers

\* The steps of a cleanup or of a deletion after its removal of the points.
Emptied == {"pdf", "override", "marker", "delPdf", "delOverride", "delJobs", "delListed"}

UpsertHasPdf == At(Runner, "upsert") => Subject \in pdfs

EmptiedHasNoPoints == \A t \in Threads : th[t].pc \in Emptied => th[t].doc \notin points

\* What is given up is out of retrieval before its job reports the failure.
GivenUpIsOut ==
    \A t \in {Runner, Boot} :
        GivingUp(t) /\ ~At(t, "discard") => DocumentOf[th[t].upload] \notin points \ withdrawn

Offered ==
    /\ UpsertHasPdf
    /\ EmptiedHasNoPoints
    /\ GivenUpIsOut
    /\ LibraryIsSound

\* Indexing inside the API process, under the invariants so far.
InProcess == ~Durable /\ IInv /\ Placed

\* While the runner indexes a document, nobody removes files of it.
LEMMA IndexesAlone ==
    ASSUME InProcess, AtMostTwoPerDocument, At(Runner, "upsert"),
           NEW t \in Threads, th[t].pc \in Cleaning \cup Deleting
    PROVE  th[t].doc # Subject
<1> USE DEF InProcess, IInv
<1> DEFINE u == th[Runner].upload
<1>1. u \in Uploads /\ Spent(u) /\ Working /\ Subject = DocumentOf[u]
  BY DEF RunnerInv, Placed, RunnerPlaced, At, Working, GivingUp, Cleaning, Discarding, Subject
<1>2. t \notin {Runner, Deleter, Boot}
  BY DEF Placed, DeleterPlaced, BootInv, At, Cleaning, Deleting
<1>3. t \in Uploads /\ th[t].pc \in Cleaning
  BY <1>2 DEF Threads, Placed, RequestPlaced, Deleting, Cleaning
<1>4. t # u
  BY <1>1, <1>3 DEF Spent, Cleaning
<1> SUFFICES ASSUME th[t].doc = DocumentOf[u] PROVE FALSE
  BY <1>1
<1>5. DocumentOf[t] = DocumentOf[u] /\ DocumentOf[u] \in withdrawn
  BY <1>3 DEF CleanupIsCurrent, Placed, RequestPlaced
<1>6. PICK v \in Uploads : DocumentOf[v] = DocumentOf[u] /\ Spent(v) /\ v # u
  BY <1>1, <1>5 DEF Placed, MarkersAreOfOthers
<1>7. v # t
  BY <1>3, <1>6 DEF Spent, Cleaning
<1> QED
  BY <1>1, <1>3, <1>4, <1>5, <1>6, <1>7 DEF AtMostTwoPerDocument

\* What a step of thread t has to show of the thread itself.
KeepsOut(t) ==
    /\ t = Runner /\ th'[t].pc = "upsert" => DocumentOf[th'[t].upload] \in pdfs'
    /\ th'[t].pc \in Emptied => th'[t].doc \notin points'
    /\ t \in {Runner, Boot} /\ GivingUp(t)' /\ th'[t].pc # "discard"
          => DocumentOf[th'[t].upload] \notin points' \ withdrawn'

\* Any step but the upsert: it may remove points; it removes the PDF and the marker of a
\* document without points, and takes the last job from documents that are out of retrieval.
LEMMA OfferedKept ==
    ASSUME Offered, NEW t \in Threads, Moves(t), KeepsOut(t),
           points' \subseteq points,
           \A d \in pdfs \ pdfs' : d \notin points' /\ (At(Runner, "upsert") => d # Subject),
           \A d \in withdrawn \ withdrawn' : d \notin points',
           \A u \in Uploads : job[u] \in Active \cup {"succeeded"} =>
               \/ job'[u] \in Active \cup {"succeeded"}
               \/ DocumentOf[u] \notin points' \ withdrawn'
    PROVE  Offered'
<1>1. UpsertHasPdf'
  <2>1. CASE t = Runner
    BY <2>1 DEF KeepsOut, UpsertHasPdf, At, Subject
  <2>2. CASE t # Runner
    <3>1. th'[Runner] = th[Runner]
      BY <2>2 DEF Moves, Threads
    <3> QED
      BY <3>1 DEF Offered, UpsertHasPdf, At, Subject
  <2> QED
    BY <2>1, <2>2
<1>2. EmptiedHasNoPoints'
  BY DEF EmptiedHasNoPoints, Offered, Moves, KeepsOut
<1>3. GivenUpIsOut'
  <2> SUFFICES ASSUME NEW s \in {Runner, Boot}, GivingUp(s)', th'[s].pc # "discard"
               PROVE  DocumentOf[th'[s].upload] \notin points' \ withdrawn'
    BY DEF GivenUpIsOut, At
  <2>1. CASE s = t
    BY <2>1 DEF KeepsOut
  <2>2. CASE s # t
    <3>1. th'[s] = th[s]
      BY <2>2 DEF Moves, Threads
    <3>2. DocumentOf[th[s].upload] \notin points \ withdrawn
      BY <3>1 DEF Offered, GivenUpIsOut, GivingUp, At
    <3> QED
      BY <3>1, <3>2
  <2> QED
    BY <2>1, <2>2
<1>4. EvidenceHasSource'
  BY DEF Offered, LibraryIsSound, EvidenceHasSource
<1>5. FailedIsNotRetrievable'
  <2> SUFFICES ASSUME NEW d \in points' \ withdrawn'
               PROVE  \E u \in Uploads :
                          DocumentOf[u] = d /\ job'[u] \in Active \cup {"succeeded"}
    BY DEF FailedIsNotRetrievable, Active
  <2>1. d \in points \ withdrawn
    OBVIOUS
  <2>2. PICK u \in Uploads : DocumentOf[u] = d /\ job[u] \in Active \cup {"succeeded"}
    BY <2>1 DEF Offered, LibraryIsSound, FailedIsNotRetrievable
  <2> QED
    BY <2>2
<1> QED
  BY <1>1, <1>2, <1>3, <1>4, <1>5 DEF Offered, LibraryIsSound

-----------------------------------------------------------------------------
(* Where the threads are, after a step of each *)

\* A step of a request leaves every thread and marker at a place of Placed.
LEMMA RequestStaysPlaced ==
    ASSUME InProcess, NEW u \in Uploads, Moves(u), RequestPlaced(u)', Spent(u) => Spent(u)',
           withdrawn' \subseteq withdrawn,
           \A v \in Uploads : v # u \/ Spent(u) => job'[v] = job[v]
    PROVE  Placed'
<1> USE DEF InProcess, IInv, Placed
<1>1. /\ th'[Runner] = th[Runner] /\ th'[Boot] = th[Boot] /\ th'[Deleter] = th[Deleter]
      /\ \A v \in Uploads \ {u} : th'[v] = th[v]
  BY DEF Moves, Threads
<1>2. \A v \in Uploads : Spent(v) => Spent(v)'
  BY <1>1 DEF Spent
<1>3. \A v \in Uploads : RequestPlaced(v)'
  BY <1>1 DEF RequestPlaced, Spent
<1>4. RunnerPlaced'
  <2> SUFFICES ASSUME ~At(Runner, "idle") PROVE RunnerPlaced'
    BY <1>1 DEF RunnerPlaced, Working, At
  <2>1. PICK v \in Uploads : v = th[Runner].upload /\ Spent(v)
    BY DEF RunnerInv, RunnerPlaced
  <2>2. job'[v] = job[v]
    BY <2>1
  <2> QED
    BY <1>1, <1>2, <2>1, <2>2 DEF RunnerPlaced, Working, GivingUp, At
<1>5. DeleterPlaced' /\ BootPlaced'
  <2>1. GivingUp(Boot) => th[Boot].upload \in Uploads
    BY DEF BootInv
  <2> QED
    BY <1>1, <1>2, <2>1 DEF DeleterPlaced, BootPlaced, GivingUp, At
<1>6. MarkersAreOfOthers'
  BY <1>1, <1>2 DEF MarkersAreOfOthers, Working, GivingUp
<1> QED
  BY <1>3, <1>4, <1>5, <1>6

\* So does a step of the runner that, while it works on a job, withdraws nothing.
LEMMA RunnerStaysPlaced ==
    ASSUME InProcess, ~At(Runner, "idle"), Moves(Runner),
           th'[Runner].pc # "idle" => SameUpload(Runner),
           Working' => /\ Working
                       /\ withdrawn' \subseteq withdrawn
                       /\ job'[th[Runner].upload] \in Active,
           withdrawn' \subseteq withdrawn \cup {DocumentOf[th[Runner].upload]},
           \A v \in Uploads \ {th[Runner].upload} : job'[v] = job[v]
    PROVE  Placed'
<1> USE DEF InProcess, IInv, Placed
<1>1. /\ th'[Boot] = th[Boot] /\ th'[Deleter] = th[Deleter]
      /\ \A v \in Uploads : th'[v] = th[v]
  BY DEF Moves, Threads
<1>2. PICK u \in Uploads : u = th[Runner].upload /\ Spent(u)
  BY DEF RunnerInv, RunnerPlaced
<1>3. \A v \in Uploads : Spent(v) <=> Spent(v)'
  BY <1>1 DEF Spent
<1>4. \A v \in Uploads : RequestPlaced(v)'
  BY <1>1, <1>2, <1>3 DEF RequestPlaced
<1>5. RunnerPlaced'
  BY <1>2, <1>3 DEF RunnerPlaced, SameUpload, At, Working
<1>6. DeleterPlaced' /\ BootPlaced'
  <2>1. At(Boot, "idle")
    BY DEF BootInv
  <2> QED
    BY <1>1, <2>1 DEF DeleterPlaced, BootPlaced, GivingUp, At, Cleaning, Discarding
<1>7. MarkersAreOfOthers'
  <2> SUFFICES ASSUME NEW d \in withdrawn'
               PROVE  \E v \in Uploads : /\ DocumentOf[v] = d /\ Spent(v)'
                                         /\ Working' => v # th'[Runner].upload
    BY DEF MarkersAreOfOthers
  <2>1. Working' => th'[Runner].upload = u
    BY <1>2 DEF Working, SameUpload
  <2>2. CASE d \in withdrawn
    <3>1. PICK v \in Uploads : DocumentOf[v] = d /\ Spent(v) /\ (Working => v # u)
      BY <1>2, <2>2 DEF MarkersAreOfOthers
    <3> QED
      BY <1>3, <2>1, <3>1
  <2>3. CASE d \notin withdrawn
    BY <1>2, <1>3, <2>3
  <2> QED
    BY <2>2, <2>3
<1> QED
  BY <1>4, <1>5, <1>6, <1>7

\* So does a step of a deletion, which leaves the markers alone.
LEMMA DeleterStaysPlaced ==
    ASSUME InProcess, Moves(Deleter), At(Boot, "idle"), withdrawn' = withdrawn,
           th'[Deleter].pc \in {"idle", "lock"} \cup Deleting,
           th'[Deleter].pc \in Deleting => At(Runner, "idle"),
           \A u \in Uploads : job'[u] = job[u] \/ (job'[u] = "none" /\ At(Runner, "idle"))
    PROVE  Placed'
<1> USE DEF InProcess, IInv, Placed
<1>1. /\ th'[Boot] = th[Boot] /\ th'[Runner] = th[Runner]
      /\ \A v \in Uploads : th'[v] = th[v]
  BY DEF Moves, Threads
<1>2. \A v \in Uploads : (Spent(v) <=> Spent(v)') /\ RequestPlaced(v)'
  BY <1>1 DEF Spent, RequestPlaced
<1>3. RunnerPlaced'
  <2> SUFFICES ASSUME ~At(Runner, "idle") PROVE RunnerPlaced'
    BY <1>1 DEF RunnerPlaced, Working, At
  <2>1. PICK v \in Uploads : v = th[Runner].upload
    BY DEF RunnerInv
  <2> QED
    BY <1>1, <1>2, <2>1 DEF RunnerPlaced, Working, GivingUp, At
<1>4. DeleterPlaced' /\ BootPlaced'
  BY <1>1 DEF DeleterPlaced, BootPlaced, GivingUp, At, Cleaning, Discarding
<1>5. MarkersAreOfOthers'
  BY <1>1, <1>2 DEF MarkersAreOfOthers, Working, GivingUp
<1> QED
  BY <1>2, <1>3, <1>4, <1>5

\* So does a step of the recovery, whose markers are of requests that are over.
LEMMA BootStaysPlaced ==
    ASSUME InProcess, Moves(Boot), ~At(Boot, "idle"),
           GivingUp(Boot)' => /\ th'[Boot].upload \in Uploads
                              /\ Spent(th'[Boot].upload),
           \A d \in withdrawn' \ withdrawn : \E u \in Uploads : DocumentOf[u] = d /\ Spent(u),
           \A u \in Uploads : job'[u] = job[u] \/ Spent(u)
    PROVE  Placed'
<1> USE DEF InProcess, IInv, Placed
<1>1. /\ th'[Deleter] = th[Deleter] /\ th'[Runner] = th[Runner]
      /\ \A v \in Uploads : th'[v] = th[v]
  BY DEF Moves, Threads
<1>2. \A v \in Uploads : (Spent(v) <=> Spent(v)') /\ RequestPlaced(v)'
  BY <1>1 DEF Spent, RequestPlaced
<1>3. At(Runner, "idle") /\ At(Deleter, "idle")
  BY DEF BootInv, DeleterPlaced
<1>4. RunnerPlaced' /\ DeleterPlaced' /\ ~Working /\ ~Working'
  BY <1>1, <1>3 DEF RunnerPlaced, DeleterPlaced, Working, At, Deleting
<1>5. BootPlaced'
  BY <1>2 DEF BootPlaced
<1>6. MarkersAreOfOthers'
  BY <1>2, <1>4 DEF MarkersAreOfOthers
<1> QED
  BY <1>2, <1>4, <1>5, <1>6

-----------------------------------------------------------------------------
(* The steps, thread by thread *)

Sound == InProcess /\ Offered

\* Every step of a withdrawal but the last: points go before the PDF, the marker last.
LEMMA WithdrawOffers ==
    ASSUME Sound, AtMostTwoPerDocument, NEW t \in Uploads \cup {Runner, Boot}, Withdraws(t)
    PROVE  /\ Moves(t) /\ SameUpload(t) /\ Offered' /\ job' = job
           /\ GivingUp(t)' <=> GivingUp(t)
           /\ th[t].pc \in Cleaning \cup {"discard", "withdrawn", "sweep"}
           /\ Discard(t) \/ withdrawn' \subseteq withdrawn
<1> USE DEF Sound, InProcess, IInv
<1>1. t \in Threads
  BY DEF Threads
<1>2. th[t].pc \in Cleaning \cup {"discard", "withdrawn", "sweep"}
  BY DEF Withdraws, RemovePoints, RemovePdf, RemoveOverride, RemoveMarker, Discard,
         CleanUpFailed, SweepNext, At, Cleaning
<1>3. th[t].pc \in {"discard", "withdrawn"} => th[t].upload \in Uploads
  BY DEF OwnUpload, RunnerInv, BootInv, GivingUp, Discarding, At
<1>4. WithdrawalStep(t)
  BY <1>1, <1>3, WithdrawMoves
<1>5. job' = job /\ (Discard(t) \/ withdrawn' \subseteq withdrawn)
  <2>1. CASE RemovePoints(t)
    BY <2>1 DEF RemovePoints
  <2>2. CASE RemovePdf(t) \/ RemoveOverride(t) \/ RemoveMarker(t)
    BY <2>2 DEF RemovePdf, RemoveOverride, RemoveMarker
  <2>3. CASE CleanUpFailed(t) \/ \E d \in Docs : SweepNext(t, d)
    <3>1. PICK d \in Docs, then \in {"sweep", "fail"} : FinishWithdrawal(t, d, then)
      BY <1>3, <2>3 DEF CleanUpFailed, SweepNext, At
    <3> QED
      BY <3>1 DEF FinishWithdrawal
  <2>4. CASE Discard(t)
    BY <2>4 DEF Discard
  <2> QED
    BY <2>1, <2>2, <2>3, <2>4 DEF Withdraws
<1>6. /\ th[t].pc \in Emptied => th[t].doc \notin points
      /\ t \in {Runner, Boot} /\ GivingUp(t) /\ th[t].pc # "discard"
            => DocumentOf[th[t].upload] \notin points \ withdrawn
  BY <1>1 DEF Offered, EmptiedHasNoPoints, GivenUpIsOut, At
<1>7. /\ th'[t].upload = th[t].upload /\ Moves(t) /\ th'[t].pc # "upsert"
      /\ GivingUp(t)' <=> GivingUp(t)
      /\ th'[t].pc \in Cleaning \cup {"withdrawn", "fail", "store", "sweep", "refused"}
  BY <1>4 DEF WithdrawalStep, SameUpload, Cleaning
<1>8. CASE RemovePoints(t)
  <2>1. th[t].then \in {"store", "sweep", "fail"}
    BY <1>1 DEF TypeOK, ThreadStates
  <2>2. PICK next \in {"pdf", "refused", "sweep", "fail"} :
            Goto(t, next) /\ (next = "pdf" => points' = points \ {th[t].doc})
    BY <1>8, <2>1 DEF RemovePoints
  <2>3. next \in ProgramCounters
    BY DEF ProgramCounters, Cleaning, Discarding
  <2>4. th'[t].pc = next /\ th'[t].doc = th[t].doc
    BY <1>1, <2>2, <2>3, GotoKeeps
  <2>5. points' \subseteq points /\ pdfs' = pdfs /\ withdrawn' = withdrawn /\ At(t, "points")
    BY <1>8 DEF RemovePoints
  <2>6. KeepsOut(t)
    BY <1>6, <1>7, <2>2, <2>4, <2>5 DEF KeepsOut, Emptied, At
  <2> QED
    BY <1>1, <1>2, <1>4, <1>5, <1>7, <2>5, <2>6, OfferedKept DEF WithdrawalStep
<1>9. CASE RemovePdf(t)
  <2>1. th'[t].pc = "override" /\ th'[t].doc = th[t].doc
    BY <1>1, <1>9, GotoKeeps DEF RemovePdf, ProgramCounters, Cleaning
  <2>2. /\ points' = points /\ pdfs' = pdfs \ {th[t].doc} /\ withdrawn' = withdrawn
        /\ At(t, "pdf")
    BY <1>9 DEF RemovePdf
  <2>3. th[t].doc \notin points
    BY <1>6, <2>2 DEF Emptied, At
  <2>4. At(Runner, "upsert") => th[t].doc # Subject
    BY <1>1, <2>2, IndexesAlone DEF At, Cleaning
  <2>5. KeepsOut(t)
    BY <1>6, <1>7, <2>1, <2>2, <2>3 DEF KeepsOut, At
  <2> QED
    BY <1>1, <1>2, <1>4, <1>5, <1>7, <2>2, <2>3, <2>4, <2>5, OfferedKept DEF WithdrawalStep
<1>10. CASE RemoveOverride(t)
  <2>1. th'[t].pc = "marker" /\ th'[t].doc = th[t].doc
    BY <1>1, <1>10, GotoKeeps DEF RemoveOverride, ProgramCounters, Cleaning
  <2>2. points' = points /\ pdfs' = pdfs /\ withdrawn' = withdrawn /\ At(t, "override")
    BY <1>10 DEF RemoveOverride
  <2>3. KeepsOut(t)
    BY <1>6, <1>7, <2>1, <2>2 DEF KeepsOut, At, Emptied
  <2> QED
    BY <1>1, <1>2, <1>4, <1>5, <1>7, <2>2, <2>3, OfferedKept DEF WithdrawalStep
<1>11. CASE RemoveMarker(t)
  <2>1. th[t].then \in {"store", "sweep", "fail"}
    BY <1>1 DEF TypeOK, ThreadStates
  <2>2. th'[t].pc = th[t].then
    BY <1>1, <1>11, <2>1, GotoKeeps DEF RemoveMarker, ProgramCounters, Discarding
  <2>3. points' = points /\ pdfs' = pdfs /\ withdrawn' = withdrawn \ {th[t].doc}
        /\ At(t, "marker")
    BY <1>11 DEF RemoveMarker
  <2>4. th[t].doc \notin points
    BY <1>6, <2>3 DEF Emptied, At
  <2>5. KeepsOut(t)
    BY <1>6, <1>7, <2>1, <2>2, <2>3, <2>4 DEF KeepsOut, At, Emptied
  <2> QED
    BY <1>1, <1>2, <1>4, <1>5, <1>7, <2>3, <2>4, <2>5, OfferedKept DEF WithdrawalStep
<1>12. CASE Discard(t)
  <2>1. th'[t].pc = "withdrawn"
    BY <1>1, <1>12, GotoKeeps DEF Discard, ProgramCounters, Discarding
  <2>2. points' = points /\ pdfs' = pdfs
        /\ withdrawn' = withdrawn \cup {DocumentOf[th[t].upload]}
    BY <1>12 DEF Discard
  <2>3. KeepsOut(t)
    BY <1>7, <2>1, <2>2 DEF KeepsOut, Emptied
  <2> QED
    BY <1>1, <1>2, <1>4, <1>5, <1>7, <2>2, <2>3, OfferedKept DEF WithdrawalStep
<1>13. CASE CleanUpFailed(t) \/ \E d \in Docs : SweepNext(t, d)
  <2>1. PICK d \in Docs, then \in {"sweep", "fail"} :
            FinishWithdrawal(t, d, then) /\ ~At(t, "discard")
    BY <1>3, <1>13 DEF CleanUpFailed, SweepNext, At
  <2>2. th'[t].pc \in {"points", then}
    BY <1>1, <2>1, FinishWithdrawalMoves
  <2>3. points' = points /\ pdfs' = pdfs /\ withdrawn' = withdrawn
    BY <2>1 DEF FinishWithdrawal
  <2>4. KeepsOut(t)
    BY <1>6, <1>7, <2>1, <2>2, <2>3 DEF KeepsOut, Emptied, At
  <2> QED
    BY <1>1, <1>2, <1>4, <1>5, <1>7, <2>3, <2>4, OfferedKept DEF WithdrawalStep
<1> QED
  BY <1>8, <1>9, <1>10, <1>11, <1>12, <1>13 DEF Withdraws

\* A request finishes an earlier attempt, or stages its own.
LEMMA StagingOffers ==
    ASSUME Sound, NEW u \in Uploads,
           \/ CheckLibrary(u) \/ CheckJobs(u) \/ FinishEarlierAttempt(u)
           \/ StorePdf(u) \/ DescribePdf(u) \/ SaveJob(u)
    PROVE  Placed' /\ Offered'
<1> USE DEF Sound, InProcess, IInv
<1>1. u \in Threads /\ DocumentOf[u] \in Docs /\ u \notin {Runner, Boot}
  BY DEF Threads
<1>2. /\ points' = points /\ withdrawn' = withdrawn /\ pdfs \subseteq pdfs'
      /\ th[u].pc \in {"new", "unlisted", "checked", "store", "stored", "described"}
  BY DEF CheckLibrary, CheckJobs, FinishEarlierAttempt, FinishWithdrawal, StorePdf,
         DescribePdf, SaveJob, library, At
<1>3. \/ job' = job
      \/ SaveJob(u) /\ job' = [job EXCEPT ![u] = "queued"]
  BY DEF CheckLibrary, CheckJobs, FinishEarlierAttempt, FinishWithdrawal, StorePdf,
         DescribePdf, SaveJob, library
<1>4. /\ Moves(u)
      /\ th'[u].pc \in {"refused", "unlisted", "checked", "points", "store", "stored",
                        "described", "pending"}
      /\ th'[u].pc = "points" => th'[u].then = "store" /\ th'[u].doc = DocumentOf[u]
      /\ SaveJob(u) => th'[u].pc = "pending"
  <2>1. CASE FinishEarlierAttempt(u)
    <3>1. FinishWithdrawal(u, DocumentOf[u], "store") /\ ~SaveJob(u)
      BY <2>1 DEF FinishEarlierAttempt, SaveJob, At
    <3> QED
      BY <1>1, <3>1, FinishWithdrawalMoves DEF Moves
  <2>2. CASE SaveJob(u)
    <3>1. Goto(u, "pending")
      BY <2>2 DEF SaveJob
    <3> QED
      BY <1>1, <3>1, GotoKeeps DEF ProgramCounters
  <2>3. CASE CheckLibrary(u) \/ CheckJobs(u) \/ StorePdf(u) \/ DescribePdf(u)
    <3>1. PICK next \in {"refused", "unlisted", "checked", "stored", "described"} :
              Goto(u, next)
      BY <2>3 DEF CheckLibrary, CheckJobs, StorePdf, DescribePdf
    <3>2. next \in ProgramCounters
      BY DEF ProgramCounters
    <3>3. ~SaveJob(u)
      BY <2>3 DEF CheckLibrary, CheckJobs, StorePdf, DescribePdf, SaveJob, At
    <3> QED
      BY <1>1, <3>1, <3>2, <3>3, GotoKeeps
  <2> QED
    BY <2>1, <2>2, <2>3
<1>5. ~Spent(u) /\ job[u] = "none"
  BY <1>2 DEF Placed, RequestPlaced, Spent
<1>6. \A v \in Uploads : v # u => job'[v] = job[v]
  BY <1>3 DEF TypeOK
<1>7. RequestPlaced(u)'
  BY <1>3, <1>4, <1>5 DEF RequestPlaced, Cleaning
<1>8. Placed'
  BY <1>2, <1>4, <1>5, <1>6, <1>7, RequestStaysPlaced
<1>9. KeepsOut(u)
  BY <1>1, <1>4 DEF KeepsOut, Emptied
<1>10. \A v \in Uploads : job[v] \in Active \cup {"succeeded"} => job'[v] = job[v]
  BY <1>5, <1>6 DEF Active
<1> QED
  BY <1>1, <1>2, <1>4, <1>8, <1>9, <1>10, OfferedKept

\* Staging, hand-over and withdrawal by a request keep what is offered to retrieval sound.
LEMMA RequestOffers ==
    ASSUME Sound, AtMostTwoPerDocument, NEW u \in Uploads, Stage(u)
    PROVE  Placed' /\ Offered'
<1> USE DEF Sound, InProcess, IInv
<1>1. /\ RequestPlaced(u) /\ ~At(u, "saved") /\ ~At(u, "fail") /\ ~At(u, "discard")
      /\ ~At(u, "withdrawn") /\ ~At(u, "sweep") /\ u \in Threads
  BY DEF Placed, RequestPlaced, At, Cleaning, Threads
<1>2. ASSUME Withdraws(u) PROVE Placed' /\ Offered'
  <2>1. /\ Moves(u) /\ Offered' /\ job' = job /\ th[u].pc \in Cleaning
        /\ withdrawn' \subseteq withdrawn
    BY <1>1, <1>2, WithdrawOffers DEF At, Discard
  <2>2. PICK next \in {"pdf", "override", "marker", "store", "refused"} : Goto(u, next)
    BY <1>1, <1>2, <2>1
       DEF Withdraws, RemovePoints, RemovePdf, RemoveOverride, RemoveMarker, Discard,
           CleanUpFailed, SweepNext, RequestPlaced
  <2>3. next \in ProgramCounters
    BY DEF ProgramCounters, Cleaning
  <2>4. th'[u].pc = next /\ th'[u].then = th[u].then /\ th'[u].doc = th[u].doc
    BY <1>1, <2>2, <2>3, GotoKeeps
  <2>5. ~Spent(u) /\ RequestPlaced(u)'
    BY <1>1, <2>1, <2>4 DEF RequestPlaced, Spent, Cleaning
  <2> QED
    BY <2>1, <2>5, RequestStaysPlaced
<1>3. ~Enqueue(u) /\ ~EnqueueRaises(u) /\ ~Fail(u)
  BY <1>1 DEF Enqueue, EnqueueRaises, Fail
<1> QED
  BY <1>2, <1>3, StagingOffers DEF Stage, Withdraw, Withdraws

\* Where the runner goes from each of its steps.
LEMMA RunnerGoes ==
    ASSUME InProcess,
           \/ MarkProcessing \/ Discover \/ Pair \/ Extract \/ WriteEmptyManifest \/ Upsert
           \/ WriteManifest \/ Succeed \/ HandleError \/ Fail(Runner) \/ Acknowledge
    PROVE  /\ Moves(Runner)
           /\ th'[Runner].pc # "idle" => SameUpload(Runner)
           /\ th'[Runner].pc \in {"discover", "pair", "raised", "extract", "discard", "empty",
                                  "upsert", "succeed", "manifest", "ack", "idle"}
           /\ th'[Runner].pc = "upsert" => Subject \in pdfs
           /\ At(Runner, "fail") => th'[Runner].pc = "ack"
           /\ At(Runner, "succeed") => th'[Runner].pc = "ack"
           /\ At(Runner, "ack") => th'[Runner].pc = "idle"
<1> USE DEF InProcess, IInv
<1>1. Runner \in Threads /\ th[Runner] \in ThreadStates
  BY DEF Threads, TypeOK
<1>2. ~At(Runner, "idle") => th[Runner].upload \in Uploads /\ Subject \in Docs
  BY DEF RunnerInv, Subject
<1>3. ASSUME NEW state \in ThreadStates, th' = [th EXCEPT ![Runner] = state],
             state.upload = th[Runner].upload, state.attempt = th[Runner].attempt
      PROVE  Moves(Runner) /\ SameUpload(Runner) /\ th'[Runner].pc = state.pc
  BY <1>1, <1>3 DEF TypeOK, Moves, SameUpload
<1>4. CASE MarkProcessing
  <2> DEFINE state == [th[Runner] EXCEPT !.pc = "discover", !.doc = Subject]
  <2>1. th' = [th EXCEPT ![Runner] = state] /\ At(Runner, "sweep")
    BY <1>1, <1>4 DEF MarkProcessing, TypeOK
  <2>2. /\ state \in ThreadStates /\ state.pc = "discover"
        /\ state.upload = th[Runner].upload /\ state.attempt = th[Runner].attempt
    BY <1>1, <1>2, <2>1 DEF ThreadStates, ProgramCounters, At
  <2> HIDE DEF state
  <2> QED
    BY <1>3, <2>1, <2>2 DEF At
<1>5. CASE Discover
  <2> DEFINE state == [th[Runner] EXCEPT !.pc = "pair", !.docs = pdfs]
  <2>1. th' = [th EXCEPT ![Runner] = state] /\ At(Runner, "discover")
    BY <1>1, <1>5 DEF Discover, TypeOK
  <2>2. /\ state \in ThreadStates /\ state.pc = "pair"
        /\ state.upload = th[Runner].upload /\ state.attempt = th[Runner].attempt
    BY <1>1 DEF ThreadStates, ProgramCounters, TypeOK
  <2> HIDE DEF state
  <2> QED
    BY <1>3, <2>1, <2>2 DEF At
<1>6. CASE Pair
  <2>1. PICK next \in {"raised", "extract", "discard"} :
            th' = [th EXCEPT ![Runner].pc = next, ![Runner].docs = {}]
    BY <1>6 DEF Pair
  <2> DEFINE state == [th[Runner] EXCEPT !.pc = next, !.docs = {}]
  <2>2. th' = [th EXCEPT ![Runner] = state] /\ At(Runner, "pair")
    BY <1>1, <1>6, <2>1 DEF Pair, TypeOK
  <2>3. next \in ProgramCounters
    BY DEF ProgramCounters, Discarding
  <2>4. /\ state \in ThreadStates /\ state.pc = next
        /\ state.upload = th[Runner].upload /\ state.attempt = th[Runner].attempt
    BY <1>1, <2>3 DEF ThreadStates
  <2> HIDE DEF state
  <2> QED
    BY <1>3, <2>2, <2>4 DEF At
<1>7. CASE Acknowledge
  <2>1. th' = [th EXCEPT ![Runner] = Idle] /\ At(Runner, "ack")
    BY <1>7 DEF Acknowledge
  <2>2. Moves(Runner) /\ th'[Runner].pc = "idle"
    BY <1>1, <2>1, IdleState DEF TypeOK, Moves, Idle
  <2> QED
    BY <2>1, <2>2 DEF At
<1>8. CASE ~(MarkProcessing \/ Discover \/ Pair \/ Acknowledge)
  <2>1. PICK next \in {"raised", "discard", "empty", "upsert", "succeed", "manifest", "ack"} :
            Goto(Runner, next) /\ (next = "upsert" => Subject \in pdfs)
    BY <1>8 DEF Extract, WriteEmptyManifest, Upsert, WriteManifest, Succeed, HandleError, Fail
  <2>2. next \in ProgramCounters
    BY DEF ProgramCounters, Discarding
  <2>3. Moves(Runner) /\ SameUpload(Runner) /\ th'[Runner].pc = next
    BY <1>1, <2>1, <2>2, GotoKeeps
  <2>4. At(Runner, "fail") => Fail(Runner)
    BY <1>8 DEF Extract, WriteEmptyManifest, Upsert, WriteManifest, Succeed, HandleError, At
  <2>5. At(Runner, "succeed") => Succeed
    BY <1>8 DEF Extract, WriteEmptyManifest, Upsert, WriteManifest, Fail, HandleError, At
  <2>6. ~At(Runner, "ack")
    BY <1>8 DEF Extract, WriteEmptyManifest, Upsert, WriteManifest, Succeed, HandleError,
                Fail, At
  <2>7. Fail(Runner) \/ Succeed => Goto(Runner, "ack")
    BY DEF Fail, Succeed
  <2>8. Goto(Runner, "ack") => th'[Runner].pc = "ack"
    BY <1>1, GotoKeeps DEF ProgramCounters
  <2> QED
    BY <2>1, <2>3, <2>4, <2>5, <2>6, <2>7, <2>8
<1> QED
  BY <1>4, <1>5, <1>6, <1>7, <1>8

\* The upsert writes points of a document that has its PDF, that nobody is removing, and
\* whose job is not finished.
LEMMA UpsertOffers ==
    ASSUME Sound, AtMostTwoPerDocument, Upsert
    PROVE  Offered'
<1> USE DEF Sound, InProcess, IInv
<1>1. At(Runner, "upsert") /\ Runner \in Threads
  BY DEF Upsert, Threads
<1>2. PICK u \in Uploads : u = th[Runner].upload /\ Subject = DocumentOf[u]
  BY <1>1 DEF RunnerInv, At, Subject
<1>3. /\ UNCHANGED <<pdfs, withdrawn, job>> /\ points' \in {points, points \cup {Subject}}
      /\ Goto(Runner, "manifest") \/ Goto(Runner, "discard")
  BY DEF Upsert
<1>4. Moves(Runner) /\ SameUpload(Runner) /\ th'[Runner].pc \in {"manifest", "discard"}
  BY <1>1, <1>3, GotoKeeps DEF ProgramCounters, Discarding
<1>5. Subject \in pdfs /\ job[u] \in Active
  BY <1>1, <1>2 DEF Offered, UpsertHasPdf, Placed, RunnerPlaced, Working, GivingUp, At,
                    Cleaning, Discarding
<1>6. At(Boot, "idle") /\ th'[Boot] = th[Boot]
  BY <1>1, <1>4 DEF BootInv, At, Moves, Threads
<1>7. UpsertHasPdf' /\ EvidenceHasSource'
  BY <1>3, <1>4, <1>5 DEF Offered, LibraryIsSound, EvidenceHasSource, UpsertHasPdf, At
<1>8. EmptiedHasNoPoints'
  <2> SUFFICES ASSUME NEW t \in Threads, th'[t].pc \in Emptied PROVE th'[t].doc \notin points'
    BY DEF EmptiedHasNoPoints
  <2>1. t # Runner /\ th'[t] = th[t]
    BY <1>4 DEF Moves, Emptied
  <2>2. th[t].doc # Subject
    BY <1>1, <2>1, IndexesAlone DEF Emptied, Cleaning, Deleting
  <2>3. th[t].doc \notin points
    BY <2>1 DEF Offered, EmptiedHasNoPoints
  <2> QED
    BY <1>3, <2>1, <2>2, <2>3
<1>9. GivenUpIsOut'
  BY <1>4, <1>6 DEF GivenUpIsOut, GivingUp, At, Cleaning, Discarding
<1>10. FailedIsNotRetrievable'
  <2> SUFFICES ASSUME NEW d \in points' \ withdrawn
               PROVE  \E v \in Uploads :
                          DocumentOf[v] = d /\ job[v] \in Active \cup {"succeeded"}
    BY <1>3 DEF FailedIsNotRetrievable, Active
  <2>1. CASE d = Subject
    BY <1>2, <1>5, <2>1
  <2>2. CASE d # Subject
    BY <1>3, <2>2 DEF Offered, LibraryIsSound, FailedIsNotRetrievable
  <2> QED
    BY <2>1, <2>2
<1> QED
  BY <1>7, <1>8, <1>9, <1>10 DEF Offered, LibraryIsSound

\* The background task of a request that is still waiting takes the ingestion lock.
LEMMA StartPendingOffers ==
    ASSUME Sound, NEW u \in Uploads, StartPending(u)
    PROVE  Placed' /\ Offered'
<1> USE DEF Sound, InProcess, IInv, Placed
<1>1. /\ UNCHANGED <<library, job>>
      /\ At(u, "pending") /\ At(Runner, "idle") /\ th[Deleter].pc \notin Deleting
      /\ u # Runner /\ u \in Threads /\ Runner \in Threads /\ Boot \in Threads
      /\ Deleter \in Threads /\ {Boot, Deleter} \cap (Uploads \cup {Runner}) = {}
      /\ Uploads \subseteq Threads
  BY DEF StartPending, IngestionLockFree, Threads
<1> DEFINE state == IF Runnable(u) THEN Begin(u, 0) ELSE Idle
           handed == [th[u] EXCEPT !.pc = "done"]
<1>2. handed.pc = "done"
  BY <1>1 DEF TypeOK, ThreadStates
<1>3. /\ state.pc \in {"sweep", "idle"}
      /\ state.pc = "sweep" => state.upload = u /\ Runnable(u)
  BY DEF Begin, Idle
<1>4. th' = [th EXCEPT ![u] = handed, ![Runner] = state]
  BY DEF StartPending
<1> HIDE DEF state, handed
<1>5. /\ th'[u].pc = "done" /\ th'[Runner] = state
      /\ \A s \in Threads \ {u, Runner} : th'[s] = th[s]
  BY <1>1, <1>2, <1>4 DEF TypeOK
<1>6. th'[Boot] = th[Boot] /\ th'[Deleter] = th[Deleter] /\ At(Boot, "idle")
  BY <1>1, <1>5 DEF BootInv, AtRest, At
<1>7. \A v \in Uploads : (Spent(v) => Spent(v)') /\ (v # u => th'[v] = th[v])
  BY <1>1, <1>5 DEF Spent
<1>8. Spent(u)' /\ ~Spent(u)
  BY <1>1, <1>5 DEF Spent, At
<1>9. \A v \in Uploads : RequestPlaced(v)'
  <2> TAKE v \in Uploads
  <2>1. CASE v = u
    BY <1>5, <1>8, <2>1 DEF RequestPlaced, Cleaning
  <2>2. CASE v # u
    BY <1>1, <1>7, <2>2 DEF RequestPlaced, Spent
  <2> QED
    BY <2>1, <2>2
<1>10. RunnerPlaced' /\ DeleterPlaced' /\ BootPlaced'
  BY <1>1, <1>3, <1>5, <1>6, <1>8
     DEF RunnerPlaced, DeleterPlaced, BootPlaced, Working, At, Runnable, GivingUp, Cleaning,
         Discarding
<1>11. MarkersAreOfOthers'
  <2> SUFFICES ASSUME NEW d \in withdrawn
               PROVE  \E v \in Uploads : /\ DocumentOf[v] = d /\ Spent(v)'
                                         /\ Working' => v # th'[Runner].upload
    BY <1>1 DEF MarkersAreOfOthers, library
  <2>1. PICK v \in Uploads : DocumentOf[v] = d /\ Spent(v)
    BY DEF MarkersAreOfOthers
  <2>2. v # u /\ Spent(v)'
    BY <1>7, <1>8, <2>1
  <2> QED
    BY <1>3, <1>5, <2>1, <2>2 DEF Working
<1>12. Offered'
  <2>1. UpsertHasPdf' /\ LibraryIsSound'
    BY <1>1, <1>3, <1>5
       DEF UpsertHasPdf, At, Offered, LibraryIsSound, EvidenceHasSource,
           FailedIsNotRetrievable, library
  <2>2. GivenUpIsOut'
    BY <1>3, <1>5, <1>6 DEF GivenUpIsOut, GivingUp, At, Cleaning, Discarding
  <2>3. EmptiedHasNoPoints'
    BY <1>1, <1>3, <1>5 DEF EmptiedHasNoPoints, Emptied, Offered, library
  <2> QED
    BY <2>1, <2>2, <2>3 DEF Offered
<1> QED
  BY <1>9, <1>10, <1>11, <1>12

\* The runner's own steps: indexing, and its reports.
LEMMA IndexingOffers ==
    ASSUME Sound, AtMostTwoPerDocument,
           \/ MarkProcessing \/ Discover \/ Pair \/ Extract \/ WriteEmptyManifest \/ Upsert
           \/ WriteManifest \/ Succeed \/ HandleError \/ Fail(Runner) \/ Acknowledge
    PROVE  Placed' /\ Offered'
<1> USE DEF Sound, InProcess, IInv
<1>1. ~At(Runner, "idle") /\ Runner \in Threads /\ pdfs' = pdfs /\ withdrawn' = withdrawn
      /\ ~Retry
  BY DEF MarkProcessing, Discover, Pair, Extract, WriteEmptyManifest, Upsert, WriteManifest,
         Succeed, HandleError, Fail, Acknowledge, At, library, Threads, Retry, NoBroker
<1>2. PICK u \in Uploads : u = th[Runner].upload /\ Spent(u) /\ Subject = DocumentOf[u]
  BY <1>1 DEF RunnerInv, Placed, RunnerPlaced, Subject
<1>3. /\ Moves(Runner)
      /\ th'[Runner].pc # "idle" => SameUpload(Runner)
      /\ th'[Runner].pc \in {"discover", "pair", "raised", "extract", "discard", "empty",
                             "upsert", "succeed", "manifest", "ack", "idle"}
      /\ th'[Runner].pc = "upsert" => Subject \in pdfs
      /\ At(Runner, "fail") \/ At(Runner, "succeed") => th'[Runner].pc = "ack"
      /\ At(Runner, "ack") => th'[Runner].pc = "idle"
  BY RunnerGoes
<1>4. \/ job' = job
      \/ job' = [job EXCEPT ![u] = "processing"] /\ At(Runner, "sweep")
      \/ job' = [job EXCEPT ![u] = "succeeded"] /\ At(Runner, "succeed")
      \/ job' = [job EXCEPT ![u] = "failed"] /\ At(Runner, "fail")
  BY <1>2 DEF MarkProcessing, Discover, Pair, Extract, WriteEmptyManifest, Upsert,
              WriteManifest, Succeed, HandleError, Fail, Acknowledge
<1>5. \A v \in Uploads \ {u} : job'[v] = job[v]
  BY <1>4 DEF TypeOK
<1>6. Working' => Working /\ job'[u] \in Active
  <2> SUFFICES ASSUME Working' PROVE Working /\ job'[u] \in Active
    OBVIOUS
  <2>1. th[Runner].pc \notin {"idle", "ack", "fail", "succeed"}
    BY <1>1, <1>3 DEF Working, At
  <2>2. ~GivingUp(Runner)
    BY <2>1 DEF GivingUp, MarkProcessing, Discover, Pair, Extract, WriteEmptyManifest, Upsert,
                WriteManifest, Succeed, HandleError, Fail, Acknowledge, At, Cleaning, Discarding
  <2>3. Working /\ job[u] \in Active
    BY <1>2, <2>1, <2>2 DEF Working, Placed, RunnerPlaced
  <2> QED
    BY <1>4, <2>1, <2>3 DEF TypeOK, Active, At
<1>7. Placed'
  BY <1>1, <1>2, <1>3, <1>5, <1>6, RunnerStaysPlaced
<1>8. CASE ~Upsert
  <2>1. points' = points
    BY <1>8 DEF MarkProcessing, Discover, Pair, Extract, WriteEmptyManifest, WriteManifest,
                Succeed, HandleError, Fail, Acknowledge, library
  <2>2. KeepsOut(Runner)
    BY <1>1, <1>2, <1>3 DEF KeepsOut, Emptied, GivingUp, Cleaning, Discarding, SameUpload
  <2>3. ASSUME NEW v \in Uploads, job[v] \in Active \cup {"succeeded"}
        PROVE  \/ job'[v] \in Active \cup {"succeeded"}
               \/ DocumentOf[v] \notin points' \ withdrawn'
    <3>1. At(Runner, "fail") => DocumentOf[u] \notin points \ withdrawn
      BY <1>2 DEF Offered, GivenUpIsOut, GivingUp, Discarding, At
    <3> QED
      BY <1>1, <1>4, <1>5, <2>1, <2>3, <3>1 DEF TypeOK, Active
  <2> QED
    BY <1>1, <1>3, <1>7, <2>1, <2>2, <2>3, OfferedKept
<1> QED
  BY <1>7, <1>8, UpsertOffers

\* So does each step of the runner, from taking a job to reporting on it.
LEMMA RunnerOffers ==
    ASSUME Sound, AtMostTwoPerDocument, Run
    PROVE  Placed' /\ Offered'
<1> USE DEF Sound, InProcess, IInv
<1>1. ASSUME Withdraws(Runner) PROVE Placed' /\ Offered'
  <2>1. /\ Moves(Runner) /\ SameUpload(Runner) /\ Offered' /\ job' = job
        /\ GivingUp(Runner)' <=> GivingUp(Runner)
        /\ th[Runner].pc \in Cleaning \cup {"discard", "withdrawn", "sweep"}
        /\ Discard(Runner) \/ withdrawn' \subseteq withdrawn
    BY <1>1, WithdrawOffers
  <2>2. ~At(Runner, "idle") /\ ~At(Runner, "ack")
    BY <2>1 DEF At, Cleaning
  <2>3. Discard(Runner) => /\ ~Working'
                           /\ withdrawn' = withdrawn \cup {DocumentOf[th[Runner].upload]}
    BY <2>1 DEF Discard, Working, GivingUp, At, Discarding
  <2>4. Working' => Working /\ job[th[Runner].upload] \in Active
    BY <2>1, <2>2 DEF Working, Placed, RunnerPlaced, At
  <2>5. withdrawn' \subseteq withdrawn \cup {DocumentOf[th[Runner].upload]}
        /\ (Working' => withdrawn' \subseteq withdrawn)
    BY <2>1, <2>3
  <2> QED
    BY <2>1, <2>2, <2>4, <2>5, RunnerStaysPlaced
<1>2. ASSUME NEW m \in queue, StartMessage(m) PROVE FALSE
  BY <1>2 DEF NoBroker
<1>3. ~Retry
  BY DEF Retry, NoBroker
<1> QED
  BY <1>1, <1>2, <1>3, StartPendingOffers, IndexingOffers DEF Run, Start, Withdraw, Withdraws

\* Deletion removes the points first and the jobs after the PDF, all under the ingestion lock.
LEMMA DeletionOffers ==
    ASSUME Sound, AtMostTwoPerDocument, DeletionStep
    PROVE  Placed' /\ Offered'
<1> USE DEF Sound, InProcess, IInv, Placed
<1>1. Deleter \in Threads /\ Deleter \notin Uploads \cup {Runner, Boot}
      /\ th[Deleter] \in ThreadStates
  BY DEF Threads, TypeOK
<1>2. withdrawn' = withdrawn /\ points' \subseteq points
  <2>1. CASE \E d \in Docs : RequestDeletion(d)
    BY <2>1 DEF RequestDeletion, library
  <2>2. CASE Delete
    BY <2>2 DEF Delete, LockForDeletion, DeletePoints, DeletePdf, DeleteOverride, DeleteJobs,
                DeleteListed, library
  <2> QED
    BY <2>1, <2>2 DEF DeletionStep
<1>3. At(Boot, "idle")
  <2>1. CASE \E d \in Docs : RequestDeletion(d)
    BY <2>1 DEF RequestDeletion, Serving
  <2>2. CASE Delete
    BY <2>2 DEF Delete, LockForDeletion, DeletePoints, DeletePdf, DeleteOverride, DeleteJobs,
                DeleteListed, DeleterPlaced, At
  <2> QED
    BY <2>1, <2>2 DEF DeletionStep
<1>4. ASSUME Moves(Deleter), th'[Deleter].pc \in {"idle", "lock"} \cup Deleting,
             th'[Deleter].pc \in Deleting => At(Runner, "idle"),
             th'[Deleter].pc \in Emptied => th'[Deleter].doc \notin points',
             pdfs' = pdfs \/ (pdfs' = pdfs \ {th[Deleter].doc} /\ At(Deleter, "delPdf")),
             \/ job' = job
             \/ /\ At(Deleter, "delJobs")
                /\ job' = [u \in Uploads |->
                              IF DocumentOf[u] = th[Deleter].doc THEN "none" ELSE job[u]]
      PROVE  Placed' /\ Offered'
  <2>1. th[Deleter].pc \in Emptied => th[Deleter].doc \notin points
    BY <1>1 DEF Offered, EmptiedHasNoPoints
  <2>2. th[Deleter].pc \in Emptied => At(Runner, "idle")
    BY DEF DeleterPlaced, Emptied, Deleting
  <2>3. \A u \in Uploads : job'[u] = job[u] \/ (job'[u] = "none" /\ At(Runner, "idle"))
    BY <1>4, <2>2 DEF At, Emptied
  <2>4. Placed'
    BY <1>2, <1>3, <1>4, <2>3, DeleterStaysPlaced
  <2>5. KeepsOut(Deleter)
    BY <1>1, <1>4 DEF KeepsOut
  <2>6. ASSUME NEW d \in pdfs \ pdfs' PROVE d \notin points' /\ ~At(Runner, "upsert")
    BY <1>2, <1>4, <2>1, <2>2, <2>6 DEF At, Emptied
  <2>7. ASSUME NEW u \in Uploads, job[u] \in Active \cup {"succeeded"}
        PROVE  \/ job'[u] \in Active \cup {"succeeded"}
               \/ DocumentOf[u] \notin points' \ withdrawn'
    BY <1>2, <1>4, <2>1, <2>7 DEF At, Emptied
  <2> QED
    BY <1>1, <1>2, <1>4, <2>4, <2>5, <2>6, <2>7, OfferedKept
<1>5. ASSUME NEW d \in Docs, RequestDeletion(d) PROVE Placed' /\ Offered'
  <2> DEFINE state == [th[Deleter] EXCEPT !.pc = "lock", !.doc = d]
  <2>1. th' = [th EXCEPT ![Deleter] = state] /\ UNCHANGED <<pdfs, job>>
    BY <1>5 DEF RequestDeletion, library
  <2>2. state \in ThreadStates /\ state.pc = "lock"
    BY <1>1 DEF ThreadStates, ProgramCounters
  <2> HIDE DEF state
  <2>3. Moves(Deleter) /\ th'[Deleter].pc = "lock"
    BY <1>1, <2>1, <2>2 DEF TypeOK, Moves
  <2> QED
    BY <1>4, <2>1, <2>3 DEF Deleting, Emptied
<1>6. ASSUME th' = [th EXCEPT ![Deleter] = Idle], UNCHANGED <<pdfs, job>>
      PROVE  Placed' /\ Offered'
  <2>1. Moves(Deleter) /\ th'[Deleter].pc = "idle"
    BY <1>1, <1>6, IdleState DEF TypeOK, Moves, Idle
  <2> QED
    BY <1>4, <1>6, <2>1 DEF Deleting, Emptied
<1>7. ASSUME NEW next \in Deleting, Goto(Deleter, next)
      PROVE  Moves(Deleter) /\ th'[Deleter].pc = next /\ th'[Deleter].doc = th[Deleter].doc
  BY <1>1, <1>7, GotoKeeps DEF ProgramCounters
<1>8. ASSUME NEW pc \in Deleting, At(Deleter, pc)
      PROVE  At(Runner, "idle") /\ (pc \in Emptied => th[Deleter].doc \notin points)
  BY <1>1, <1>8 DEF DeleterPlaced, Offered, EmptiedHasNoPoints, At
<1>9. CASE LockForDeletion
  <2>1. /\ Goto(Deleter, "delPoints") /\ UNCHANGED <<pdfs, job>> /\ At(Runner, "idle")
    BY <1>9 DEF LockForDeletion, IngestionLockFree, library
  <2> QED
    BY <1>4, <1>7, <2>1 DEF Deleting, Emptied
<1>10. CASE DeletePoints
  <2>1. CASE th' = [th EXCEPT ![Deleter] = Idle]
    BY <1>6, <1>10, <2>1 DEF DeletePoints
  <2>2. CASE Goto(Deleter, "delPdf") /\ points' = points \ {th[Deleter].doc}
    BY <1>4, <1>7, <1>8, <1>10, <2>2 DEF DeletePoints, Deleting
  <2> QED
    BY <1>10, <2>1, <2>2 DEF DeletePoints
<1>11. CASE DeletePdf
  BY <1>2, <1>4, <1>7, <1>8, <1>11 DEF DeletePdf, Deleting, Emptied
<1>12. CASE DeleteOverride
  BY <1>2, <1>4, <1>7, <1>8, <1>12 DEF DeleteOverride, Deleting, Emptied
<1>13. CASE DeleteJobs
  BY <1>2, <1>4, <1>7, <1>8, <1>13 DEF DeleteJobs, Deleting, Emptied, library
<1>14. CASE DeleteListed
  BY <1>6, <1>14 DEF DeleteListed
<1> QED
  BY <1>5, <1>9, <1>10, <1>11, <1>12, <1>13, <1>14 DEF DeletionStep, Delete

\* The boot thread gives up the jobs that died with the process and finishes withdrawals.
LEMMA BootOffers ==
    ASSUME Sound, AtMostTwoPerDocument, Restart
    PROVE  Placed' /\ Offered'
<1> USE DEF Sound, InProcess, IInv, Placed
<1>1. Boot \in Threads /\ th[Boot] \in ThreadStates /\ Boot \notin Uploads \cup {Runner}
  BY DEF Threads, TypeOK
<1>2. ~At(Boot, "idle")
  <2>1. CASE Withdraws(Boot)
    BY <2>1, WithdrawOffers DEF At, Cleaning
  <2>2. CASE Fail(Boot)
    BY <2>2 DEF Fail, At
  <2>3. CASE FinishRecovery \/ StartServing \/ \E u \in Uploads : RecoverJob(u)
    <3>1. At(Boot, "recover") \/ At(Boot, "sweep")
      BY <2>3, Zenon DEF RecoverJob, FinishRecovery, StartServing
    <3> QED
      BY <3>1 DEF At
  <2> QED
    BY <2>1, <2>2, <2>3 DEF Restart, Withdraw, Withdraws
<1>3. At(Runner, "idle") /\ (GivingUp(Boot) => th[Boot].upload \in Uploads)
  BY <1>2 DEF BootInv
<1>4. CASE Withdraws(Boot)
  <2>1. /\ Moves(Boot) /\ SameUpload(Boot) /\ Offered' /\ job' = job
        /\ GivingUp(Boot)' <=> GivingUp(Boot)
        /\ Discard(Boot) \/ withdrawn' \subseteq withdrawn
    BY <1>4, WithdrawOffers
  <2>2. Discard(Boot) => /\ GivingUp(Boot)
                         /\ withdrawn' = withdrawn \cup {DocumentOf[th[Boot].upload]}
    BY DEF Discard, GivingUp, At, Discarding
  <2>3. GivingUp(Boot) => Spent(th[Boot].upload)
    BY DEF BootPlaced
  <2>4. \A d \in withdrawn' \ withdrawn : \E u \in Uploads : DocumentOf[u] = d /\ Spent(u)
    BY <1>3, <2>1, <2>2, <2>3
  <2>5. GivingUp(Boot)' => th'[Boot].upload \in Uploads /\ Spent(th'[Boot].upload)
    BY <1>3, <2>1, <2>3 DEF SameUpload
  <2> QED
    BY <1>2, <2>1, <2>4, <2>5, BootStaysPlaced
<1>5. ASSUME NEW state \in ThreadStates, th' = [th EXCEPT ![Boot] = state],
             state.pc \in {"recover", "discard", "sweep", "idle"},
             state.pc = "discard" => state.upload \in Uploads /\ Spent(state.upload),
             UNCHANGED library,
             \A u \in Uploads : job'[u] = job[u] \/ Spent(u),
             \A u \in Uploads : job[u] \in Active \cup {"succeeded"} =>
                 \/ job'[u] \in Active \cup {"succeeded"}
                 \/ DocumentOf[u] \notin points \ withdrawn
      PROVE  Placed' /\ Offered'
  <2>1. Moves(Boot) /\ th'[Boot] = state
    BY <1>1, <1>5 DEF TypeOK, Moves
  <2>2. GivingUp(Boot)' => th'[Boot].pc = "discard"
    BY <1>5, <2>1 DEF GivingUp, Cleaning, Discarding
  <2>3. Placed'
    BY <1>2, <1>5, <2>1, <2>2, BootStaysPlaced DEF library
  <2>4. KeepsOut(Boot)
    BY <1>1, <1>5, <2>1, <2>2 DEF KeepsOut, Emptied
  <2> QED
    BY <1>1, <1>5, <2>1, <2>3, <2>4, OfferedKept DEF library
<1>6. CASE Fail(Boot)
  <2> DEFINE state == [th[Boot] EXCEPT !.pc = "recover"]
  <2>1. PICK u \in Uploads : u = th[Boot].upload /\ Spent(u)
    BY <1>3, <1>6 DEF Fail, BootPlaced, GivingUp, Discarding, At
  <2>2. DocumentOf[u] \notin points \ withdrawn
    BY <1>6, <2>1 DEF Fail, Offered, GivenUpIsOut, GivingUp, Discarding, At
  <2>3. /\ th' = [th EXCEPT ![Boot] = state]
        /\ job' = [job EXCEPT ![u] = "failed"]
        /\ UNCHANGED library
    BY <1>1, <1>6, <2>1 DEF Fail, Goto, TypeOK
  <2>4. state \in ThreadStates /\ state.pc = "recover"
    BY <1>1 DEF ThreadStates, ProgramCounters
  <2> HIDE DEF state
  <2>5. \A v \in Uploads \ {u} : job'[v] = job[v]
    BY <2>3 DEF TypeOK
  <2> QED
    BY <1>5, <2>1, <2>2, <2>3, <2>4, <2>5
<1>7. ASSUME NEW u \in Uploads, RecoverJob(u) PROVE Placed' /\ Offered'
  <2> DEFINE state == [th[Boot] EXCEPT !.pc = "discard", !.upload = u]
  <2>1. th' = [th EXCEPT ![Boot] = state] /\ UNCHANGED <<library, job>>
    BY <1>7 DEF RecoverJob
  <2>2. state \in ThreadStates /\ state.pc = "discard" /\ state.upload = u
    BY <1>1 DEF ThreadStates, ProgramCounters, Discarding
  <2> HIDE DEF state
  <2>3. Spent(u)
    BY <1>2, <1>7 DEF RecoverJob, RequestPlaced, BootInv, AtRest, Active, Spent
  <2> QED
    BY <1>5, <2>1, <2>2, <2>3
<1>8. CASE FinishRecovery \/ StartServing
  <2> DEFINE state == IF FinishRecovery THEN [Idle EXCEPT !.pc = "sweep", !.docs = withdrawn]
                      ELSE Idle
  <2>1. state \in ThreadStates /\ state.pc \in {"sweep", "idle"}
    BY IdleState DEF TypeOK, Idle, ThreadStates, ProgramCounters
  <2>2. th' = [th EXCEPT ![Boot] = state] /\ UNCHANGED <<library, job>>
    BY <1>8 DEF FinishRecovery, StartServing
  <2> HIDE DEF state
  <2> QED
    BY <1>5, <2>1, <2>2
<1> QED
  BY <1>4, <1>6, <1>7, <1>8 DEF Restart, Withdraw, Withdraws

\* A crash leaves every marker with a request that is over, and the boot thread alone.
LEMMA CrashOffers ==
    ASSUME Sound, CrashApi
    PROVE  Placed' /\ Offered'
<1> USE DEF Sound, InProcess, IInv, Placed
<1>1. /\ UNCHANGED <<library, job>>
      /\ th' = [t \in Threads |-> Killed(t)]
  BY DEF CrashApi, Proc
<1>2. /\ th'[Runner].pc = "idle" /\ th'[Deleter].pc = "idle" /\ th'[Boot].pc = "recover"
  BY <1>1 DEF Threads, Killed, Idle
<1>3. ASSUME NEW u \in Uploads
      PROVE  \/ th'[u] = th[u] /\ th[u].pc \in {"new", "done", "refused", "rejected"}
             \/ th'[u].pc = "dead"
  BY <1>1, <1>3 DEF Threads, Killed, Request
<1>4. \A u \in Uploads : Spent(u) => Spent(u)'
  BY <1>3 DEF Spent
<1>5. \A u \in Uploads : RequestPlaced(u)'
  <2> TAKE u \in Uploads
  <2>1. CASE th'[u] = th[u] /\ th[u].pc \in {"new", "done", "refused", "rejected"}
    BY <1>1, <2>1 DEF RequestPlaced, Spent
  <2>2. CASE th'[u].pc = "dead"
    BY <2>2 DEF RequestPlaced, Spent, Cleaning
  <2> QED
    BY <1>3, <2>1, <2>2
<1>6. RunnerPlaced' /\ DeleterPlaced' /\ BootPlaced' /\ ~Working'
  BY <1>2 DEF RunnerPlaced, DeleterPlaced, BootPlaced, Working, GivingUp, At, Cleaning,
              Discarding, Deleting
<1>7. MarkersAreOfOthers'
  BY <1>1, <1>4, <1>6 DEF MarkersAreOfOthers, library
<1>8. UpsertHasPdf' /\ GivenUpIsOut'
  BY <1>2 DEF UpsertHasPdf, GivenUpIsOut, GivingUp, At, Cleaning, Discarding
<1>9. EmptiedHasNoPoints'
  <2>1. \A t \in Threads : th'[t].pc \notin Emptied
    BY <1>2, <1>3 DEF Threads, Emptied
  <2> QED
    BY <2>1 DEF EmptiedHasNoPoints
<1>10. LibraryIsSound'
  BY <1>1 DEF Offered, LibraryIsSound, EvidenceHasSource, FailedIsNotRetrievable, library
<1> QED
  BY <1>5, <1>6, <1>7, <1>8, <1>9, <1>10 DEF Offered

-----------------------------------------------------------------------------
\* The library starts empty and sound.
LEMMA InitSound == ~Durable /\ Init => Sound
<1> SUFFICES ASSUME ~Durable, Init PROVE Sound
  OBVIOUS
<1>1. InProcess
  BY InitIInv
     DEF InProcess, Init, Placed, RequestPlaced, RunnerPlaced, DeleterPlaced, BootPlaced,
         MarkersAreOfOthers, Working, GivingUp, At, Threads, Idle, Request, Cleaning,
         Discarding, Deleting
<1>2. Offered
  BY DEF Init, Offered, UpsertHasPdf, EmptiedHasNoPoints, GivenUpIsOut, LibraryIsSound,
         EvidenceHasSource, FailedIsNotRetrievable, GivingUp, At, Threads, Idle, Request
<1> QED
  BY <1>1, <1>2 DEF Sound

\* Every step keeps it sound.
LEMMA StepSound == AtMostTwoPerDocument /\ Sound /\ [Next]_vars => Sound'
<1> SUFFICES ASSUME AtMostTwoPerDocument, Sound, [Next]_vars PROVE Sound'
  OBVIOUS
<1>1. ~Durable /\ IInv'
  BY StepIInv DEF Sound, InProcess
<1>2. CASE UNCHANGED vars
  <2>1. Placed' /\ Offered'
    BY <1>2 DEF vars, library, Sound, InProcess, Placed, RequestPlaced, RunnerPlaced,
                DeleterPlaced, BootPlaced, MarkersAreOfOthers, Spent, Working, GivingUp, At,
                Offered, UpsertHasPdf, EmptiedHasNoPoints, GivenUpIsOut, LibraryIsSound,
                EvidenceHasSource, FailedIsNotRetrievable, Subject
  <2> QED
    BY <1>1, <2>1 DEF Sound, InProcess
<1>3. CASE Next
  <2>1. Placed' /\ Offered'
    BY <1>1, <1>3, RequestOffers, RunnerOffers, DeletionOffers, BootOffers, CrashOffers
       DEF Next, DeletionStep, CrashWorker
  <2> QED
    BY <1>1, <2>1 DEF Sound, InProcess
<1> QED
  BY <1>2, <1>3

\* Indexing inside the API process, any number of documents, of crashes and of interrupted
\* recoveries: points always have their PDF, and a document whose jobs all failed or are gone
\* is out of retrieval, as long as no third request carries the same PDF.
THEOREM LibraryStaysSound ==
    ~Durable /\ AtMostTwoPerDocument => (Spec => []LibraryIsSound)
<1> SUFFICES ASSUME ~Durable, AtMostTwoPerDocument PROVE Spec => []LibraryIsSound
  OBVIOUS
<1>1. Init => Sound
  BY InitSound
<1>2. Sound /\ [Next]_vars => Sound'
  BY StepSound
<1>3. Sound => LibraryIsSound
  BY DEF Sound, Offered
<1> QED
  BY <1>1, <1>2, <1>3, PTL DEF Spec

=============================================================================
