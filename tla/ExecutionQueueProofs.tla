------------------------ MODULE ExecutionQueueProofs ------------------------
(***************************************************************************)
(* The safety of the job queue for any set of jobs and any number of       *)
(* crashes.  The properties of ExecutionQueue are not inductive by         *)
(* themselves; IInv adds what the code relies on without saying so: what   *)
(* the worker holds in memory agrees with the files of the claimed job,    *)
(* and a turn that has consumed a result leaves no success behind.         *)
(***************************************************************************)
EXTENDS ExecutionQueue, TLAPS

\* The turn has not been told anything yet, or never will be.
Unanswered == {"waiting", "unavailable", "gone"}

Consumed == {"answered", "validated", "moved", "published", "rejected"}

Between == {"down", "idle", "recovering"}

\* The worker has a current job exactly when it is in the middle of one, that job is
\* the only claim, and an idle worker has none.
ClaimInv ==
    /\ phase \in Between <=> current = NoJob
    /\ phase \notin Between => processing = {current}
    /\ phase = "idle" => processing = {}
    /\ \A i, j \in processing : i = j

\* Nothing has happened to a job that is not yet submitted or not yet claimed.
Untouched(j) ==
    /\ j \notin processing
    /\ result[j] = "none"
    /\ staging[j] = "none"
    /\ verdict[j] = "none"
    /\ got[j] = "none"
    /\ starts[j] = 0

UntouchedInv ==
    \A j \in Jobs :
        /\ turn[j] = "new" => j \notin inbox /\ Untouched(j)
        /\ j \in inbox => turn[j] \in Unanswered /\ Untouched(j)

\* What the worker knows of its current job while it runs it, reports it or fails it.
CurrentInv ==
    /\ phase \in {"claimed", "running", "returned"} =>
          /\ result[current] = "none"
          /\ turn[current] \in Unanswered
          /\ got[current] = "none"
    /\ phase \in {"claimed", "running"} => verdict[current] = "none"
    /\ phase = "claimed" => starts[current] = 0
    /\ phase = "returned" => verdict[current] # "none"
    /\ phase = "returned" /\ verdict[current] = "succeeded" => staging[current] = "complete"
    /\ phase = "reported" /\ result[current] = "succeeded" => staging[current] = "complete"
    /\ phase = "releasing" => result[current] # "succeeded"

\* What a status, a directory and a turn say of a job agrees with its verdict.
OutcomeInv ==
    \A j \in Jobs :
        /\ "succeeded" \in {result[j], got[j]} => verdict[j] = "succeeded"
        /\ result[j] # "none" => verdict[j] # "none"
        /\ verdict[j] = "succeeded" => staging[j] # "partial"
        /\ turn[j] = "waiting" => got[j] = "none"
        /\ turn[j] \in Consumed => result[j] # "succeeded"
        /\ turn[j] \in {"validated", "moved", "published"} => got[j] = "succeeded"
        /\ turn[j] \in {"moved", "published"} => store[j] \in {"complete", "torn"}

IInv ==
    /\ TypeOK
    /\ ClaimInv
    /\ UntouchedInv
    /\ CurrentInv
    /\ OutcomeInv
    /\ SuccessHasOutputs
    /\ AtMostOneExecution

-----------------------------------------------------------------------------
USE QueueAssumption

LEMMA InitIInv == Init => IInv
BY DEF Init, IInv, TypeOK, ClaimInv, UntouchedInv, Untouched, CurrentInv, OutcomeInv,
       SuccessHasOutputs, AtMostOneExecution, Between, Statuses, Contents, Phases,
       TurnPhases, Unanswered, Consumed

\* Every step of the worker, of recovery and of a turn preserves the invariant.
LEMMA StepIInv == IInv /\ [Next]_vars => IInv'
<1> SUFFICES ASSUME IInv, [Next]_vars PROVE IInv'
  OBVIOUS
<1> USE DEF IInv, TypeOK, ClaimInv, UntouchedInv, Untouched, CurrentInv, OutcomeInv,
            SuccessHasOutputs, AtMostOneExecution, Between, Statuses, Contents, Phases,
            TurnPhases, Unanswered, Consumed, workerVars, turnVars
<1>1. CASE Refuse
  BY <1>1 DEF Refuse
<1>2. CASE StartProgram
  BY <1>2 DEF StartProgram
<1>3. CASE Succeed
  BY <1>3 DEF Succeed
<1>4. CASE Fail
  BY <1>4 DEF Fail
<1>5. CASE Report
  BY <1>5 DEF Report
<1>6. CASE Unclaim
  BY <1>6 DEF Unclaim
<1>7. ASSUME NEW j \in Jobs, Claim(j) PROVE IInv'
  BY <1>7 DEF Claim
<1>8. CASE Crash
  BY <1>8 DEF Crash
<1>9. CASE Restart
  BY <1>9 DEF Restart
<1>10. ASSUME NEW j \in Jobs, BeginRemoval(j) PROVE IInv'
  BY <1>10 DEF BeginRemoval
<1>11. CASE EndRemoval
  BY <1>11 DEF EndRemoval
<1>12. CASE ReportInterrupted
  BY <1>12 DEF ReportInterrupted
<1>13. CASE Release
  BY <1>13 DEF Release
<1>14. CASE BeginServing
  BY <1>14 DEF BeginServing
<1>15. ASSUME NEW j \in Jobs, Submit(j) PROVE IInv'
  BY <1>15 DEF Submit
<1>16. ASSUME NEW j \in Jobs, ReadResult(j) PROVE IInv'
  BY <1>16 DEF ReadResult
<1>17. ASSUME NEW j \in Jobs, RemoveResult(j) PROVE IInv'
  BY <1>17 DEF RemoveResult
<1>18. ASSUME NEW j \in Jobs, WaitTimesOut(j) PROVE IInv'
  BY <1>18 DEF WaitTimesOut
<1>19. ASSUME NEW j \in Jobs, Discard(j) PROVE IInv'
  BY <1>19 DEF Discard
<1>20. ASSUME NEW j \in Jobs, ValidateLineage(j) PROVE IInv'
  BY <1>20 DEF ValidateLineage
<1>21. ASSUME NEW j \in Jobs, Accept(j) PROVE IInv'
  BY <1>21 DEF Accept
<1>22. ASSUME NEW j \in Jobs, PublishDescriptor(j) PROVE IInv'
  BY <1>22 DEF PublishDescriptor
<1>23. ASSUME NEW j \in Jobs, Abandon(j) PROVE IInv'
  BY <1>23 DEF Abandon
<1>24. CASE UNCHANGED vars
  BY <1>24 DEF vars
<1> QED
  BY <1>1, <1>2, <1>3, <1>4, <1>5, <1>6, <1>7, <1>8, <1>9, <1>10, <1>11, <1>12, <1>13,
     <1>14, <1>15, <1>16, <1>17, <1>18, <1>19, <1>20, <1>21, <1>22, <1>23, <1>24
     DEF Next, WorkerStep, RecoveryStep, TurnStep

LEMMA AlwaysIInv == Spec => []IInv
BY InitIInv, StepIInv, PTL DEF Spec

-----------------------------------------------------------------------------
\* Every variable keeps its type, in particular the worker never has a job that was
\* not submitted and no directory is in a state the code does not know.
THEOREM TypeCorrect == Spec => []TypeOK
<1>1. IInv => TypeOK
  BY DEF IInv
<1> QED
  BY <1>1, AlwaysIInv, PTL

\* However often the worker is killed and restarted, a submitted program is started
\* at most once, and at most one job is claimed at a time.
THEOREM ExecutedOnce == Spec => [](AtMostOneExecution /\ SingleClaim)
<1>1. IInv => AtMostOneExecution /\ SingleClaim
  BY DEF IInv, ClaimInv, SingleClaim, Between
<1> QED
  BY <1>1, AlwaysIInv, PTL

\* The queue directories mean what worker.py says they mean.
THEOREM DirectoriesAgree == Spec => []DirectoryIsState
<1>1. IInv => DirectoryIsState
  BY DEF IInv, UntouchedInv, Untouched, CurrentInv, DirectoryIsState
<1> QED
  BY <1>1, AlwaysIInv, PTL

\* Success is reported only of validated outputs, and the outputs are there while the
\* report waits.
THEOREM SuccessesAreReal == Spec => []SuccessIsReal
<1>1. IInv => SuccessIsReal
  BY DEF IInv, OutcomeInv, SuccessIsReal, NoFalseSuccess
<1> QED
  BY <1>1, AlwaysIInv, PTL

\* Nothing but validated outputs becomes an artifact of a session.
THEOREM OnlyValidatedOutputs == Spec => []NothingUnvalidatedPublished
<1>1. IInv => NothingUnvalidatedPublished
  BY DEF IInv, OutcomeInv, NothingUnvalidatedPublished
<1> QED
  BY <1>1, AlwaysIInv, PTL

-----------------------------------------------------------------------------
\* The queue refines JobContract: initial states map to initial states ...
LEMMA InitRefines == Init => Contract!Init
BY DEF Init, Contract!Init, JobStatus, AnswerGiven

\* ... and a step of the queue is a step of the contract or leaves it unchanged.
LEMMA StepRefines == IInv /\ [Next]_vars => [Contract!Next]_(Contract!contractVars)
<1> SUFFICES ASSUME IInv, [Next]_vars
             PROVE  Contract!Next \/ UNCHANGED Contract!contractVars
  OBVIOUS
<1> USE DEF IInv, TypeOK, ClaimInv, UntouchedInv, Untouched, CurrentInv, OutcomeInv,
            Between, Statuses, Unanswered, Consumed, workerVars, turnVars,
            JobStatus, AnswerGiven, Contract!contractVars, Contract!Ended
<1>1. ASSUME StartProgram PROVE UNCHANGED Contract!contractVars
  BY <1>1 DEF StartProgram
<1>2. ASSUME Report PROVE UNCHANGED Contract!contractVars
  BY <1>2 DEF Report
<1>3. ASSUME Unclaim PROVE UNCHANGED Contract!contractVars
  BY <1>3 DEF Unclaim
<1>4. ASSUME Crash PROVE UNCHANGED Contract!contractVars
  BY <1>4 DEF Crash
<1>5. ASSUME Restart PROVE UNCHANGED Contract!contractVars
  BY <1>5 DEF Restart
<1>6. ASSUME EndRemoval PROVE UNCHANGED Contract!contractVars
  BY <1>6 DEF EndRemoval
<1>7. ASSUME Release PROVE UNCHANGED Contract!contractVars
  BY <1>7 DEF Release
<1>8. ASSUME BeginServing PROVE UNCHANGED Contract!contractVars
  BY <1>8 DEF BeginServing
<1>9. ASSUME NEW j \in Jobs, BeginRemoval(j) PROVE UNCHANGED Contract!contractVars
  BY <1>9 DEF BeginRemoval
<1>10. ASSUME NEW j \in Jobs, RemoveResult(j) PROVE UNCHANGED Contract!contractVars
  BY <1>10 DEF RemoveResult
<1>11. ASSUME NEW j \in Jobs, Discard(j) PROVE UNCHANGED Contract!contractVars
  BY <1>11 DEF Discard
<1>12. ASSUME NEW j \in Jobs, ValidateLineage(j) PROVE UNCHANGED Contract!contractVars
  BY <1>12 DEF ValidateLineage
<1>13. ASSUME NEW j \in Jobs, Accept(j) PROVE UNCHANGED Contract!contractVars
  BY <1>13 DEF Accept
<1>14. ASSUME Refuse PROVE current \in Jobs /\ Contract!End(current)
  BY <1>14 DEF Refuse, Contract!End
<1>15. ASSUME Succeed PROVE current \in Jobs /\ Contract!End(current)
  BY <1>15 DEF Succeed, Contract!End
<1>16. ASSUME Fail PROVE current \in Jobs /\ Contract!End(current)
  BY <1>16 DEF Fail, Contract!End
<1>17. ASSUME ReportInterrupted
      PROVE  UNCHANGED Contract!contractVars \/ (current \in Jobs /\ Contract!End(current))
  <2>1. /\ current \in Jobs
        /\ \A k \in Jobs : AnswerGiven(k)' = AnswerGiven(k)
        /\ \A k \in Jobs : turn'[k] = "published" <=> turn[k] = "published"
        /\ \A k \in Jobs \ {current} : JobStatus(k)' = JobStatus(k)
    BY <1>17 DEF ReportInterrupted
  <2>2. CASE verdict[current] = "none"
    <3>1. PICK k \in Jobs : k = current
      BY <2>1
    <3>2. JobStatus(k) = "running" /\ JobStatus(k)' = "failed"
      BY <1>17, <2>2, <3>1 DEF ReportInterrupted
    <3> HIDE DEF IInv, TypeOK, ClaimInv, UntouchedInv, Untouched, CurrentInv, OutcomeInv,
                 JobStatus, AnswerGiven
    <3> QED
      BY <2>1, <3>1, <3>2 DEF Contract!End
  <2>3. CASE verdict[current] # "none"
    <3>1. \A k \in Jobs : JobStatus(k)' = JobStatus(k)
      BY <1>17, <2>1, <2>3 DEF ReportInterrupted
    <3> HIDE DEF IInv, TypeOK, ClaimInv, UntouchedInv, Untouched, CurrentInv, OutcomeInv,
                 JobStatus, AnswerGiven
    <3> QED
      BY <2>1, <3>1
  <2> QED
    BY <2>2, <2>3
<1>18. ASSUME NEW j \in Jobs, Claim(j) PROVE Contract!Start(j)
  <2>1. /\ JobStatus(j) = "queued" /\ JobStatus(j)' = "running"
        /\ \A k \in Jobs \ {j} : JobStatus(k)' = JobStatus(k)
    BY <1>18 DEF Claim
  <2>2. /\ \A k \in Jobs : AnswerGiven(k)' = AnswerGiven(k)
        /\ turn' = turn
    BY <1>18 DEF Claim
  <2> HIDE DEF IInv, TypeOK, ClaimInv, UntouchedInv, Untouched, CurrentInv, OutcomeInv,
               JobStatus, AnswerGiven
  <2> QED
    BY <2>1, <2>2 DEF Contract!Start
<1>19. ASSUME NEW j \in Jobs, Submit(j) PROVE Contract!Submit(j)
  BY <1>19 DEF Submit, Contract!Submit
<1>20. ASSUME NEW j \in Jobs, ReadResult(j) PROVE Contract!Answer(j)
  <2>1. \A k \in Jobs : JobStatus(k)' = JobStatus(k)
    BY <1>20 DEF ReadResult
  <2>2. /\ AnswerGiven(j) = "none" /\ AnswerGiven(j)' = result[j]
        /\ \A k \in Jobs \ {j} : AnswerGiven(k)' = AnswerGiven(k)
    BY <1>20 DEF ReadResult
  <2>3. /\ result[j] \in {"succeeded", "failed"}
        /\ result[j] = "succeeded" => JobStatus(j) = "succeeded"
        /\ JobStatus(j) \in {"succeeded", "failed"}
    BY <1>20 DEF ReadResult
  <2>4. \A k \in Jobs : turn'[k] = "published" <=> turn[k] = "published"
    BY <1>20 DEF ReadResult
  <2> HIDE DEF IInv, TypeOK, ClaimInv, UntouchedInv, Untouched, CurrentInv, OutcomeInv,
               JobStatus, AnswerGiven
  <2> QED
    BY <2>1, <2>2, <2>3, <2>4 DEF Contract!Answer, Contract!Ended
<1>21. ASSUME NEW j \in Jobs, WaitTimesOut(j) PROVE Contract!Answer(j)
  <2>1. \A k \in Jobs : JobStatus(k)' = JobStatus(k)
    BY <1>21 DEF WaitTimesOut
  <2>2. /\ AnswerGiven(j) = "none" /\ AnswerGiven(j)' = "unavailable"
        /\ \A k \in Jobs \ {j} : AnswerGiven(k)' = AnswerGiven(k)
    BY <1>21 DEF WaitTimesOut
  <2>3. JobStatus(j) # "new" /\ \A k \in Jobs : turn'[k] = "published" <=> turn[k] = "published"
    BY <1>21 DEF WaitTimesOut
  <2> HIDE DEF IInv, TypeOK, ClaimInv, UntouchedInv, Untouched, CurrentInv, OutcomeInv,
               JobStatus, AnswerGiven
  <2> QED
    BY <2>1, <2>2, <2>3 DEF Contract!Answer
<1>22. ASSUME NEW j \in Jobs, PublishDescriptor(j) PROVE Contract!Publish(j)
  BY <1>22 DEF PublishDescriptor, Contract!Publish
<1>23. ASSUME NEW j \in Jobs, Abandon(j)
      PROVE  UNCHANGED Contract!contractVars \/ Contract!Answer(j)
  <2>1. /\ \A k \in Jobs : JobStatus(k)' = JobStatus(k)
        /\ JobStatus(j) # "new"
        /\ \A k \in Jobs : turn'[k] = "published" <=> turn[k] = "published"
    BY <1>23 DEF Abandon
  <2>2. \A k \in Jobs \ {j} : AnswerGiven(k)' = AnswerGiven(k)
    BY <1>23 DEF Abandon
  <2>3. CASE got[j] = "none"
    <3>1. AnswerGiven(j) = "none" /\ AnswerGiven(j)' = "unavailable"
      BY <1>23, <2>3 DEF Abandon
    <3> HIDE DEF IInv, TypeOK, ClaimInv, UntouchedInv, Untouched, CurrentInv, OutcomeInv,
                 JobStatus, AnswerGiven
    <3> QED
      BY <2>1, <2>2, <3>1 DEF Contract!Answer
  <2>4. CASE got[j] # "none"
    <3>1. AnswerGiven(j)' = AnswerGiven(j)
      BY <1>23, <2>4 DEF Abandon
    <3> QED
      BY <2>1, <2>2, <3>1
  <2> QED
    BY <2>3, <2>4
<1>24. ASSUME UNCHANGED vars PROVE UNCHANGED Contract!contractVars
  BY <1>24 DEF vars
<1> HIDE DEF IInv, TypeOK, ClaimInv, UntouchedInv, Untouched, CurrentInv, OutcomeInv,
            JobStatus, AnswerGiven, Contract!contractVars
<1> QED
  BY <1>1, <1>2, <1>3, <1>4, <1>5, <1>6, <1>7, <1>8, <1>9, <1>10, <1>11, <1>12, <1>13, <1>14, <1>15, <1>16, <1>17, <1>18, <1>19, <1>20, <1>21, <1>22, <1>23, <1>24
     DEF Next, WorkerStep, RecoveryStep, TurnStep, Contract!Next

\* The queue directories, the worker with its crashes and the turns implement the
\* contract of the executor.
THEOREM RefinesContract == Spec => ImplementsContract
BY InitRefines, StepRefines, AlwaysIInv, PTL DEF Spec, ImplementsContract, Contract!Spec
=============================================================================
