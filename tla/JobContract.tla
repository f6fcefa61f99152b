---------------------------- MODULE JobContract ----------------------------
(***************************************************************************)
(* What the isolated executor promises the agent about one submitted job,  *)
(* with no queue directories, worker process or crash in sight: a job is   *)
(* executed at most once, it ends once, the agent hears at most one        *)
(* answer, success is only ever reported of a job that succeeded, and only *)
(* such a job's outputs become an artifact of the session.                 *)
(***************************************************************************)
CONSTANT Jobs

VARIABLES
    job,        \* [Jobs -> the job's status]
    answer,     \* [Jobs -> what the submitting turn was told]
    published   \* the jobs whose outputs are an artifact of their session

contractVars == <<job, answer, published>>

Ended == {"succeeded", "failed"}

Init ==
    /\ job = [j \in Jobs |-> "new"]
    /\ answer = [j \in Jobs |-> "none"]
    /\ published = {}

Submit(j) ==
    /\ job[j] = "new"
    /\ job' = [job EXCEPT ![j] = "queued"]
    /\ UNCHANGED <<answer, published>>

Start(j) ==
    /\ job[j] = "queued"
    /\ job' = [job EXCEPT ![j] = "running"]
    /\ UNCHANGED <<answer, published>>

End(j) ==
    /\ job[j] = "running"
    /\ \E verdict \in Ended : job' = [job EXCEPT ![j] = verdict]
    /\ UNCHANGED <<answer, published>>

\* The turn may stop listening at any time; a failure may be reported of a job
\* that succeeded (its outputs are lost then), never the other way round.
Answer(j) ==
    /\ answer[j] = "none"
    /\ \/ /\ job[j] = "succeeded"
          /\ answer' = [answer EXCEPT ![j] = "succeeded"]
       \/ /\ job[j] \in Ended
          /\ answer' = [answer EXCEPT ![j] = "failed"]
       \/ /\ job[j] # "new"
          /\ answer' = [answer EXCEPT ![j] = "unavailable"]
    /\ UNCHANGED <<job, published>>

Publish(j) ==
    /\ answer[j] = "succeeded"
    /\ j \notin published
    /\ published' = published \cup {j}
    /\ UNCHANGED <<job, answer>>

Next == \E j \in Jobs : Submit(j) \/ Start(j) \/ End(j) \/ Answer(j) \/ Publish(j)

Spec == Init /\ [][Next]_contractVars
=============================================================================
