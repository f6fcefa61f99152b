---------------------------- MODULE SessionsProofs ----------------------------
(***************************************************************************)
(* The safety of the session service for any set of sessions, requests,    *)
(* replicas and keys, on both backends, with any mishaps.  The properties  *)
(* of Sessions are not inductive by themselves.  IInv adds what the        *)
(* service relies on: who holds which lock, connection and advisory lock;  *)
(* that a section only runs while its research waits for it or has sunk;   *)
(* and what a deletion has already removed at each of its steps.           *)
(***************************************************************************)
EXTENDS Sessions, FiniteSetTheorems, TLAPS

Begun(t) == step[t] # "new"
Busy(t) == Begun(t) /\ step[t] \notin Over

ChatSteps == Waiting \cup {"new", "in", "asked", "running", "recording", "leaving", "ended",
                           "killed"}
BriefSteps == Waiting \cup {"new", "in", "asked", "briefing", "recording", "leaving",
                            "sinking", "ended", "sunk", "killed"}
DeleteSteps == Waiting \cup {"new", "in", "checkpoints", "row", "directory", "leaving",
                             "ended", "killed"}
SectionSteps == Waiting \cup {"new", "in", "running", "leaving", "shown", "killed"}

\* A research whose sections may be at work: it waits for them, or a raise made it leave.
Waits(b) == step[b] \in {"briefing", "sinking"}

\* A task that has begun has a session and runs where the backend lets it, and does only
\* what its kind of request does.
TaskInv ==
    /\ \A t \in Tasks : Begun(t) => on[t] \in Sessions /\ at[t] \in Serving
    /\ \A t \in Tasks : step[t] \in {"connecting", "waiting"} => backend = "postgres"
    /\ \A t \in Chats : step[t] \in ChatSteps
    /\ \A t \in Briefs : step[t] \in BriefSteps
    /\ \A t \in Deletes : step[t] \in DeleteSteps
    /\ \A t \in Kids : step[t] \in SectionSteps

\* A section runs on the session it created, beside the research it belongs to.
SectionInv ==
    /\ \A k \in Kids : Begun(k) =>
        /\ on[k] = k
        /\ by[k] \in Briefs
        /\ Begun(by[k])
        /\ at[k] = at[by[k]]
    /\ \A k \in Kids : Busy(k) => Waits(by[k]) \/ step[by[k]] = "sunk"
    /\ \A b \in Briefs : pending[b] > 0 => Waits(b) \/ step[b] = "sunk"
    /\ \A t \in Requests : Begun(t) /\ on[t] \in Kids => step[on[t]] = "shown"

Connections(r) == {t \in Tasks : HasConnection(t) /\ at[t] = r}

\* Every lock has one owner, which is in a step that gives it back.
LockInv ==
    /\ \A r \in Replicas, s \in Sessions :
        s \in locked[r] <=> \E t \in Tasks : HasLocal(t) /\ at[t] = r /\ on[t] = s
    /\ \A t, u \in Tasks : HasLocal(t) /\ HasLocal(u) /\ at[t] = at[u] /\ on[t] = on[u] => t = u
    /\ \A r \in Replicas :
        IsFiniteSet(Connections(r)) /\ inUse[r] = Cardinality(Connections(r))
    /\ \A k \in Keys, t \in Tasks :
        held[k] = t <=> backend = "postgres" /\ Inside(t) /\ Key(on[t]) = k

\* A section has a row as soon as it has begun, and so has the session of a request; a
\* research at work has not lost its session, and the sections it waits for have not lost
\* theirs.
RowInv ==
    /\ \A k \in Kids : row[k] = "unborn" <=> ~Begun(k)
    /\ \A t \in Requests : Begun(t) => row[on[t]] # "unborn"
    /\ \A b \in Briefs : (Waits(b) \/ step[b] = "asked") /\ on[b] \in Tops
                            => row[on[b]] # "deleted"
    /\ \A k \in Kids : Busy(k) /\ Waits(by[k]) => row[k] # "deleted"

\* A session nothing writes to any more once its deletion has the lock: one of a client, or
\* one whose section died with its research.
Settled(s) == s \in Tops \/ (step[s] = "killed" /\ step[by[s]] # "sunk")

KilledInv ==
    \A k \in Kids : Settled(k) /\ row[k] = "deleted" => Removed(k)

Deleting == {"checkpoints", "row", "directory"}

\* A deletion has its own session on the list, and child sessions of it.
ToRemove(d) ==
    step[d] \in Deleting =>
        /\ on[d] \in todo[d]
        /\ \A s \in todo[d] : s = on[d] \/ (s \in Kids /\ Begun(s) /\ Parent(s) = on[d])

\* No child session that lives is left out, unless a raise left its section behind.
LeftOut(d) ==
    step[d] \in Deleting \cup {"leaving"} =>
        \A k \in Kids : k \in Live /\ Parent(k) = on[d] /\ k \notin todo[d]
                          => step[by[k]] = "sunk"

\* What it has removed of the session it is at is not written again ...
Removing(d) ==
    /\ step[d] = "row" /\ Settled(Current(d)) => Current(d) \notin checkpoints
    /\ step[d] = "directory" =>
        /\ Current(d) \notin Live
        /\ Settled(Current(d)) => Removed(Current(d))

\* ... and in the end nothing is left of its own, but what feedback has recreated.
Finished(d) ==
    step[d] = "leaving" =>
        /\ todo[d] = {}
        /\ on[d] \in Tops => Removed(on[d])
        /\ on[d] \in Tops \cap dirs => "rating" \in spent

DeleteInv == \A d \in Deletes : ToRemove(d) /\ LeftOut(d) /\ Removing(d) /\ Finished(d)

RatingInv == rating # {} => "rating" \in spent

IInv ==
    /\ TypeOK
    /\ TaskInv
    /\ SectionInv
    /\ LockInv
    /\ RowInv
    /\ ChildrenGoFirst
    /\ KilledInv
    /\ DeleteInv
    /\ RatingInv

-----------------------------------------------------------------------------
USE SessionsAssumption

\* SQLite's one replica is a replica, and every backend serves some.
LEMMA ServingReplicas == Home \in Replicas /\ Home \in Serving /\ Serving \subseteq Replicas
BY DEF Home, Serving

\* A new system has no task at work and nothing to keep apart.
LEMMA InitIInv == Init => IInv
<1> SUFFICES ASSUME Init PROVE IInv
  OBVIOUS
<1> USE DEF Init
<1>1. TypeOK
  BY ServingReplicas DEF TypeOK, Steps
<1>2. TaskInv /\ SectionInv /\ RowInv
  BY DEF TaskInv, SectionInv, RowInv, Begun, Busy, Waits, Tasks, Requests, Sessions,
         ChatSteps, BriefSteps, DeleteSteps, SectionSteps
<1>3. \A t \in Tasks : ~HasLocal(t) /\ ~HasConnection(t) /\ ~Inside(t)
  BY DEF HasLocal, HasConnection, Inside, Working, Closing
<1>4. \A r \in Replicas : Connections(r) = {}
  BY <1>3 DEF Connections
<1>5. LockInv
  BY <1>3, <1>4, FS_EmptySet DEF LockInv, Sessions
<1>6. ChildrenGoFirst /\ KilledInv /\ DeleteInv /\ RatingInv
  BY DEF ChildrenGoFirst, KilledInv, DeleteInv, ToRemove, LeftOut, Removing, Finished,
         RatingInv, Deleting, Live, Tasks, Requests, Sessions
<1> QED
  BY <1>1, <1>2, <1>5, <1>6 DEF IInv

-----------------------------------------------------------------------------
\* A session is used by one task at a time, and so is a key.
LEMMA Exclusion == TypeOK /\ TaskInv /\ LockInv => OneTaskPerSession
<1> SUFFICES ASSUME TypeOK, TaskInv, LockInv,
                    NEW t \in Tasks, NEW u \in Tasks, t # u, Inside(t), Inside(u)
             PROVE  /\ on[t] # on[u]
                    /\ backend = "postgres" => Key(on[t]) # Key(on[u])
  BY DEF OneTaskPerSession
<1>1. Begun(t) /\ Begun(u) /\ HasLocal(t) /\ HasLocal(u)
  BY DEF Begun, Inside, HasLocal, Working, Closing
<1>2. on[t] \in Sessions /\ Key(on[t]) \in Keys
  BY <1>1 DEF TaskInv, Keys
<1>3. CASE backend = "postgres"
  <2>1. held[Key(on[t])] = t
    BY <1>2, <1>3 DEF LockInv
  <2>2. Key(on[t]) # Key(on[u])
    BY <1>2, <1>3, <2>1 DEF LockInv
  <2> QED
    BY <2>2
<1>4. CASE backend = "sqlite"
  BY <1>1, <1>4 DEF TaskInv, LockInv, Serving
<1> QED
  BY <1>3, <1>4 DEF TypeOK

-----------------------------------------------------------------------------
\* Every step leaves every variable with its type: a connection is only returned by a task
\* that has one, and only a research that has sections to create creates one.
LEMMA StepType == IInv /\ [Next]_vars => TypeOK'
<1> SUFFICES ASSUME IInv, [Next]_vars PROVE TypeOK'
  OBVIOUS
<1> USE ServingReplicas DEF IInv, TypeOK, TaskInv, Goto, Happens, Sessions, Requests, Tasks,
        Steps, Waiting, Working, Closing, Over, Begun, store, locks, plans, pruner
<1>1. ASSUME NEW t \in Tasks, TakeLocal(t) PROVE TypeOK'
  BY <1>1 DEF TakeLocal
<1>2. ASSUME NEW t \in Tasks, Connect(t) PROVE TypeOK'
  BY <1>2 DEF Connect
<1>3. ASSUME NEW t \in Tasks, PoolTimeout(t) PROVE TypeOK'
  BY <1>3 DEF PoolTimeout
<1>4. ASSUME NEW t \in Tasks, Acquire(t) PROVE TypeOK'
  BY <1>4 DEF Acquire
<1>5. ASSUME NEW t \in Tasks, Leave(t) PROVE TypeOK'
  <2>1. backend = "postgres" => t \in Connections(at[t])
    BY <1>5 DEF Leave, Connections, HasConnection, Inside
  <2>2. backend = "postgres" => inUse[at[t]] # 0
    BY <2>1, FS_EmptySet DEF LockInv
  <2>3. backend = "postgres" => inUse[at[t]] - 1 \in Nat
    BY <2>2
  <2>4. inUse' \in [Replicas -> Nat]
    BY <1>5, <2>3 DEF Leave
  <2>5. held' \in [Keys -> Tasks \cup {NoTask}]
    BY <1>5 DEF Leave
  <2>6. locked' \in [Replicas -> SUBSET Sessions]
    BY <1>5 DEF Leave
  <2>7. step' \in [Tasks -> Steps]
    BY <1>5 DEF Leave
  <2> QED
    BY <1>5, <2>4, <2>5, <2>6, <2>7 DEF Leave
<1>6. ASSUME NEW t \in Tasks, Open(t) PROVE TypeOK'
  BY <1>6 DEF Open, AppendMessage, SqliteAppend, PostgresAppend
<1>7. ASSUME NEW t \in Tasks, StartTurn(t) PROVE TypeOK'
  BY <1>7 DEF StartTurn
<1>8. ASSUME NEW t \in Tasks, FinishTurn(t) PROVE TypeOK'
  BY <1>8 DEF FinishTurn
<1>9. ASSUME NEW t \in Tasks, Record(t) PROVE TypeOK'
  BY <1>9 DEF Record, AppendMessage, SqliteAppend, PostgresAppend
<1>10. ASSUME NEW b \in Briefs, Plan(b) PROVE TypeOK'
  BY <1>10 DEF Plan
<1>11. ASSUME NEW b \in Briefs, NEW k \in Kids, CreateSection(b, k) PROVE TypeOK'
  BY <1>11 DEF CreateSection
<1>12. ASSUME NEW b \in Briefs, Compile(b) PROVE TypeOK'
  BY <1>12 DEF Compile
<1>13. ASSUME NEW d \in Deletes, ListOwned(d) PROVE TypeOK'
  BY <1>13 DEF ListOwned, Live
<1>14. ASSUME NEW d \in Deletes, DropCheckpoints(d) PROVE TypeOK'
  BY <1>14 DEF DropCheckpoints
<1>15. ASSUME NEW d \in Deletes, DropRow(d) PROVE TypeOK'
  BY <1>15 DEF DropRow
<1>16. ASSUME NEW d \in Deletes, DropDirectory(d) PROVE TypeOK'
  BY <1>16 DEF DropDirectory
<1>17. ASSUME NEW b \in Briefs, CreateFails(b) PROVE TypeOK'
  BY <1>17 DEF CreateFails
<1>18. ASSUME NEW s \in Tops, CreateSession(s) PROVE TypeOK'
  BY <1>18 DEF CreateSession
<1>19. ASSUME NEW s \in Sessions, ReadTrace(s) PROVE TypeOK'
  BY <1>19 DEF ReadTrace
<1>20. ASSUME NEW s \in Sessions, WriteFeedback(s) PROVE TypeOK'
  BY <1>20 DEF WriteFeedback
<1>21. ASSUME NEW s \in Sessions, PruneSession(s) PROVE TypeOK'
  BY <1>21 DEF PruneSession
<1>22. ASSUME NEW S \in SUBSET Ageing, PruneList(S) PROVE TypeOK'
  BY <1>22 DEF PruneList
<1>23. CASE PruneCheckpoints
  BY <1>23 DEF PruneCheckpoints
<1>24. ASSUME NEW r \in Replicas, Crash(r) PROVE TypeOK'
  BY <1>24 DEF Crash
<1>25. ASSUME NEW t \in Requests, NEW s \in Sessions, NEW r \in Replicas,
              Begin(t, s, r)
       PROVE  TypeOK'
  BY <1>25 DEF Begin, Known
<1>26. CASE UNCHANGED vars
  BY <1>26 DEF vars, store, locks, pruner, plans
<1> QED
  BY <1>1, <1>2, <1>3, <1>4, <1>5, <1>6, <1>7, <1>8, <1>9, <1>10, <1>11, <1>12, <1>13,
     <1>14, <1>15, <1>16, <1>17, <1>18, <1>19, <1>20, <1>21, <1>22, <1>23, <1>24, <1>25,
     <1>26
     DEF Next, TaskStep, LockStep, TurnStep, BriefStep, DeleteStep, Mishap

\* A task goes from one step of its kind to the next.
LEMMA StepTask == IInv /\ [Next]_vars => TaskInv'
<1> SUFFICES ASSUME IInv, [Next]_vars PROVE TaskInv'
  OBVIOUS
<1> USE ServingReplicas DEF IInv, TypeOK, TaskInv, Begun, Goto, Sessions, Requests, Tasks,
        Serving, ChatSteps, BriefSteps, DeleteSteps, SectionSteps, Waiting, Closing, store,
        locks, plans, pruner
<1>1. ASSUME NEW t \in Tasks, TakeLocal(t) PROVE TaskInv'
  BY <1>1 DEF TakeLocal
<1>2. ASSUME NEW t \in Tasks, Connect(t) PROVE TaskInv'
  BY <1>2 DEF Connect
<1>3. ASSUME NEW t \in Tasks, PoolTimeout(t) PROVE TaskInv'
  BY <1>3 DEF PoolTimeout
<1>4. ASSUME NEW t \in Tasks, Acquire(t) PROVE TaskInv'
  BY <1>4 DEF Acquire
<1>5. ASSUME NEW t \in Tasks, Leave(t) PROVE TaskInv'
  BY <1>5 DEF Leave
<1>6. ASSUME NEW t \in Tasks, Open(t) PROVE TaskInv'
  BY <1>6 DEF Open
<1>7. ASSUME NEW t \in Tasks, StartTurn(t) PROVE TaskInv'
  BY <1>7 DEF StartTurn
<1>8. ASSUME NEW t \in Tasks, FinishTurn(t) PROVE TaskInv'
  BY <1>8 DEF FinishTurn
<1>9. ASSUME NEW t \in Tasks, Record(t) PROVE TaskInv'
  BY <1>9 DEF Record
<1>10. ASSUME NEW b \in Briefs, Plan(b) PROVE TaskInv'
  BY <1>10 DEF Plan
<1>11. ASSUME NEW b \in Briefs, NEW k \in Kids, CreateSection(b, k) PROVE TaskInv'
  BY <1>11 DEF CreateSection, SectionInv, Waits
<1>12. ASSUME NEW b \in Briefs, Compile(b) PROVE TaskInv'
  BY <1>12 DEF Compile
<1>13. ASSUME NEW d \in Deletes, ListOwned(d) PROVE TaskInv'
  BY <1>13 DEF ListOwned
<1>14. ASSUME NEW d \in Deletes, DropCheckpoints(d) PROVE TaskInv'
  BY <1>14 DEF DropCheckpoints
<1>15. ASSUME NEW d \in Deletes, DropRow(d) PROVE TaskInv'
  BY <1>15 DEF DropRow
<1>16. ASSUME NEW d \in Deletes, DropDirectory(d) PROVE TaskInv'
  BY <1>16 DEF DropDirectory
<1>17. ASSUME NEW b \in Briefs, CreateFails(b) PROVE TaskInv'
  BY <1>17 DEF CreateFails, SectionInv, Waits
<1>18. ASSUME NEW s \in Tops, CreateSession(s) PROVE TaskInv'
  BY <1>18 DEF CreateSession
<1>19. ASSUME NEW s \in Sessions, ReadTrace(s) PROVE TaskInv'
  BY <1>19 DEF ReadTrace
<1>20. ASSUME NEW s \in Sessions, WriteFeedback(s) PROVE TaskInv'
  BY <1>20 DEF WriteFeedback
<1>21. ASSUME NEW s \in Sessions, PruneSession(s) PROVE TaskInv'
  BY <1>21 DEF PruneSession
<1>22. ASSUME NEW S \in SUBSET Ageing, PruneList(S) PROVE TaskInv'
  BY <1>22 DEF PruneList
<1>23. CASE PruneCheckpoints
  BY <1>23 DEF PruneCheckpoints
<1>24. ASSUME NEW r \in Replicas, Crash(r) PROVE TaskInv'
  BY <1>24 DEF Crash
<1>25. ASSUME NEW t \in Requests, NEW s \in Sessions, NEW r \in Replicas,
              Begin(t, s, r)
       PROVE  TaskInv'
  BY <1>25 DEF Begin, Known
<1>26. CASE UNCHANGED vars
  BY <1>26 DEF vars, store, locks, pruner, plans
<1> QED
  BY <1>1, <1>2, <1>3, <1>4, <1>5, <1>6, <1>7, <1>8, <1>9, <1>10, <1>11, <1>12, <1>13,
     <1>14, <1>15, <1>16, <1>17, <1>18, <1>19, <1>20, <1>21, <1>22, <1>23, <1>24, <1>25,
     <1>26
     DEF Next, TaskStep, LockStep, TurnStep, BriefStep, DeleteStep, Mishap

\* A section begins with its research, ends before its research does unless that one sinks,
\* and is on no other task's list until it is shown.
LEMMA StepSection == IInv /\ [Next]_vars => SectionInv'
<1> SUFFICES ASSUME IInv, [Next]_vars PROVE SectionInv'
  OBVIOUS
<1> USE DEF IInv, TypeOK, TaskInv, SectionInv, Begun, Busy, Waits, Goto, Sessions, Requests,
        Tasks, ChatSteps, BriefSteps, DeleteSteps, SectionSteps, Waiting, Closing, Over, store,
        locks, plans, pruner
<1>1. ASSUME NEW t \in Tasks, TakeLocal(t) PROVE SectionInv'
  BY <1>1 DEF TakeLocal
<1>2. ASSUME NEW t \in Tasks, Connect(t) PROVE SectionInv'
  BY <1>2 DEF Connect
<1>3. ASSUME NEW t \in Tasks, PoolTimeout(t) PROVE SectionInv'
  BY <1>3 DEF PoolTimeout
<1>4. ASSUME NEW t \in Tasks, Acquire(t) PROVE SectionInv'
  BY <1>4 DEF Acquire
<1>5. ASSUME NEW t \in Tasks, Leave(t) PROVE SectionInv'
  BY <1>5 DEF Leave
<1>6. ASSUME NEW t \in Tasks, Open(t) PROVE SectionInv'
  BY <1>6 DEF Open
<1>7. ASSUME NEW t \in Tasks, StartTurn(t) PROVE SectionInv'
  BY <1>7 DEF StartTurn
<1>8. ASSUME NEW t \in Tasks, FinishTurn(t) PROVE SectionInv'
  BY <1>8 DEF FinishTurn
<1>9. ASSUME NEW t \in Tasks, Record(t) PROVE SectionInv'
  BY <1>9 DEF Record
<1>10. ASSUME NEW b \in Briefs, Plan(b) PROVE SectionInv'
  BY <1>10 DEF Plan
<1>11. ASSUME NEW b \in Briefs, NEW k \in Kids, CreateSection(b, k) PROVE SectionInv'
  BY <1>11 DEF CreateSection
<1>12. ASSUME NEW b \in Briefs, Compile(b) PROVE SectionInv'
  BY <1>12 DEF Compile, Active, SectionsOf
<1>13. ASSUME NEW d \in Deletes, ListOwned(d) PROVE SectionInv'
  BY <1>13 DEF ListOwned
<1>14. ASSUME NEW d \in Deletes, DropCheckpoints(d) PROVE SectionInv'
  BY <1>14 DEF DropCheckpoints
<1>15. ASSUME NEW d \in Deletes, DropRow(d) PROVE SectionInv'
  BY <1>15 DEF DropRow
<1>16. ASSUME NEW d \in Deletes, DropDirectory(d) PROVE SectionInv'
  BY <1>16 DEF DropDirectory
<1>17. ASSUME NEW b \in Briefs, CreateFails(b) PROVE SectionInv'
  BY <1>17 DEF CreateFails
<1>18. ASSUME NEW s \in Tops, CreateSession(s) PROVE SectionInv'
  BY <1>18 DEF CreateSession
<1>19. ASSUME NEW s \in Sessions, ReadTrace(s) PROVE SectionInv'
  BY <1>19 DEF ReadTrace
<1>20. ASSUME NEW s \in Sessions, WriteFeedback(s) PROVE SectionInv'
  BY <1>20 DEF WriteFeedback
<1>21. ASSUME NEW s \in Sessions, PruneSession(s) PROVE SectionInv'
  BY <1>21 DEF PruneSession
<1>22. ASSUME NEW S \in SUBSET Ageing, PruneList(S) PROVE SectionInv'
  BY <1>22 DEF PruneList
<1>23. CASE PruneCheckpoints
  BY <1>23 DEF PruneCheckpoints
<1>24. ASSUME NEW r \in Replicas, Crash(r) PROVE SectionInv'
  BY <1>24 DEF Crash
<1>25. ASSUME NEW t \in Requests, NEW s \in Sessions, NEW r \in Replicas,
              Begin(t, s, r)
       PROVE  SectionInv'
  BY <1>25 DEF Begin, Known
<1>26. CASE UNCHANGED vars
  BY <1>26 DEF vars, store, locks, pruner, plans
<1> QED
  BY <1>1, <1>2, <1>3, <1>4, <1>5, <1>6, <1>7, <1>8, <1>9, <1>10, <1>11, <1>12, <1>13,
     <1>14, <1>15, <1>16, <1>17, <1>18, <1>19, <1>20, <1>21, <1>22, <1>23, <1>24, <1>25,
     <1>26
     DEF Next, TaskStep, LockStep, TurnStep, BriefStep, DeleteStep, Mishap

-----------------------------------------------------------------------------
\* What takes no part in the locks keeps their owners: a step that moves no task into or out
\* of a lock.
LEMMA LocksUntouched ==
    ASSUME LockInv, UNCHANGED <<backend, locks>>,
           \A t \in Tasks : /\ Inside(t)' <=> Inside(t)
                            /\ HasLocal(t)' <=> HasLocal(t)
                            /\ HasConnection(t)' <=> HasConnection(t)
                            /\ HasLocal(t) => on'[t] = on[t] /\ at'[t] = at[t]
    PROVE  LockInv'
<1>1. \A t \in Tasks : (Inside(t) => HasLocal(t)) /\ (HasConnection(t) => HasLocal(t))
  BY DEF HasConnection, HasLocal, Inside
<1>2. \A r \in Replicas : Connections(r)' = Connections(r)
  BY <1>1 DEF Connections
<1>3. \A t \in Tasks : Inside(t) => Key(on[t])' = Key(on[t])
  BY <1>1 DEF Key
<1>4. /\ locked' = locked
      /\ inUse' = inUse
      /\ held' = held
      /\ backend' = backend
  BY DEF locks
<1>5. \A r \in Replicas, s \in Sessions :
        s \in locked'[r] <=> \E t \in Tasks : HasLocal(t)' /\ at'[t] = r /\ on'[t] = s
  BY <1>4 DEF LockInv
<1>6. \A t, u \in Tasks :
        HasLocal(t)' /\ HasLocal(u)' /\ at'[t] = at'[u] /\ on'[t] = on'[u] => t = u
  BY DEF LockInv
<1>7. \A r \in Replicas :
        IsFiniteSet(Connections(r)') /\ inUse'[r] = Cardinality(Connections(r)')
  BY <1>2, <1>4 DEF LockInv
<1>8. \A k \in Keys, t \in Tasks :
        held'[k] = t <=> backend' = "postgres" /\ Inside(t)' /\ Key(on[t])' = k
  BY <1>3, <1>4 DEF LockInv
<1> QED
  BY <1>5, <1>6, <1>7, <1>8 DEF LockInv

\* A task that is in a lock before and after its step, and whose step touches no lock.
LEMMA InsideMove ==
    ASSUME TypeOK, LockInv, UNCHANGED <<backend, on, at, locks>>,
           NEW t \in Tasks, NEW next \in Working \cup Closing,
           Inside(t), Goto(t, next)
    PROVE  LockInv'
<1>1. \A u \in Tasks : /\ Inside(u)' <=> Inside(u)
                       /\ HasLocal(u)' <=> HasLocal(u)
                       /\ HasConnection(u)' <=> HasConnection(u)
  BY DEF TypeOK, Goto, Inside, HasLocal, HasConnection
<1> QED
  BY <1>1, LocksUntouched

\* A task that was in no lock and is in none after its step; the others stay where they are.
LEMMA OutsideMove ==
    ASSUME TypeOK, LockInv, UNCHANGED <<backend, locks>>,
           NEW t \in Tasks,
           NEW next \in Steps \ (Working \cup Closing \cup {"connecting", "waiting"}),
           ~HasLocal(t), Goto(t, next),
           \A u \in Tasks \ {t} : on'[u] = on[u] /\ at'[u] = at[u]
    PROVE  LockInv'
<1>1. \A u \in Tasks : /\ Inside(u)' <=> Inside(u)
                       /\ HasLocal(u)' <=> HasLocal(u)
                       /\ HasConnection(u)' <=> HasConnection(u)
                       /\ HasLocal(u) => on'[u] = on[u] /\ at'[u] = at[u]
  BY DEF TypeOK, Goto, Inside, HasLocal, HasConnection
<1> QED
  BY <1>1, LocksUntouched

\* A step that no task takes.
LEMMA NoMove ==
    ASSUME LockInv, UNCHANGED <<backend, step, on, at, locks>>
    PROVE  LockInv'
<1>1. \A u \in Tasks : /\ Inside(u)' <=> Inside(u)
                       /\ HasLocal(u)' <=> HasLocal(u)
                       /\ HasConnection(u)' <=> HasConnection(u)
  BY DEF Inside, HasLocal, HasConnection
<1> QED
  BY <1>1, LocksUntouched

\* What is taken is given back, by the one that took it.
LEMMA StepLocks == IInv /\ [Next]_vars => LockInv'
<1> SUFFICES ASSUME IInv, [Next]_vars PROVE LockInv'
  OBVIOUS
<1> USE DEF IInv, TypeOK, Goto
<1>1. ASSUME NEW t \in Tasks, TakeLocal(t) PROVE LockInv'
  <2>1. \A u \in Tasks : /\ Inside(u)' <=> Inside(u) \/ (u = t /\ backend = "sqlite")
                         /\ HasLocal(u)' <=> HasLocal(u) \/ u = t
                         /\ HasConnection(u)' <=> HasConnection(u)
    BY <1>1 DEF TakeLocal, Inside, HasLocal, HasConnection, Working, Closing
  <2>2. ~HasLocal(t) /\ ~Inside(t) /\ at[t] \in Replicas /\ on[t] \in Sessions
    BY <1>1 DEF TakeLocal, HasLocal, Inside, Working, Closing, TaskInv, Begun
  <2>3. \A r \in Replicas : Connections(r)' = Connections(r)
    BY <1>1, <2>1 DEF TakeLocal, Connections
  <2>4. \A u \in Tasks : Key(on[u])' = Key(on[u])
    BY <1>1 DEF TakeLocal, Key
  <2>5. \A r \in Replicas, s \in Sessions :
          s \in locked'[r] <=> \E u \in Tasks : HasLocal(u)' /\ at'[u] = r /\ on'[u] = s
    BY <1>1, <2>1, <2>2 DEF TakeLocal, LockInv
  <2>6. \A u, v \in Tasks :
          HasLocal(u)' /\ HasLocal(v)' /\ at'[u] = at'[v] /\ on'[u] = on'[v] => u = v
    BY <1>1, <2>1, <2>2 DEF TakeLocal, LockInv
  <2>7. \A r \in Replicas :
          IsFiniteSet(Connections(r)') /\ inUse'[r] = Cardinality(Connections(r)')
    BY <1>1, <2>3 DEF TakeLocal, LockInv
  <2>8. \A k \in Keys, u \in Tasks :
          held'[k] = u <=> backend' = "postgres" /\ Inside(u)' /\ Key(on[u])' = k
    BY <1>1, <2>1, <2>4 DEF TakeLocal, LockInv
  <2> QED
    BY <2>5, <2>6, <2>7, <2>8 DEF LockInv
<1>2. ASSUME NEW t \in Tasks, Connect(t) PROVE LockInv'
  <2>1. \A u \in Tasks : /\ Inside(u)' <=> Inside(u)
                         /\ HasLocal(u)' <=> HasLocal(u)
                         /\ HasConnection(u)' <=> HasConnection(u) \/ u = t
    BY <1>2 DEF Connect, TaskInv, Inside, HasLocal, HasConnection, Working, Closing
  <2>2. ~HasConnection(t) /\ at[t] \in Replicas
    BY <1>2 DEF Connect, HasConnection, Inside, Working, Closing
  <2>3. Connections(at[t])' = Connections(at[t]) \cup {t} /\ t \notin Connections(at[t])
    BY <1>2, <2>1, <2>2 DEF Connect, Connections
  <2>4. \A r \in Replicas \ {at[t]} : Connections(r)' = Connections(r)
    BY <1>2, <2>1 DEF Connect, Connections
  <2>5. \A u \in Tasks : Key(on[u])' = Key(on[u])
    BY <1>2 DEF Connect, Key
  <2>6. /\ IsFiniteSet(Connections(at[t])')
        /\ Cardinality(Connections(at[t])') = Cardinality(Connections(at[t])) + 1
    BY <2>2, <2>3, FS_AddElement DEF LockInv
  <2>7. \A r \in Replicas, s \in Sessions :
          s \in locked'[r] <=> \E u \in Tasks : HasLocal(u)' /\ at'[u] = r /\ on'[u] = s
    BY <1>2, <2>1 DEF Connect, LockInv
  <2>8. \A u, v \in Tasks :
          HasLocal(u)' /\ HasLocal(v)' /\ at'[u] = at'[v] /\ on'[u] = on'[v] => u = v
    BY <1>2, <2>1 DEF Connect, LockInv
  <2>9. \A r \in Replicas :
          IsFiniteSet(Connections(r)') /\ inUse'[r] = Cardinality(Connections(r)')
    BY <1>2, <2>2, <2>4, <2>6 DEF Connect, LockInv
  <2>10. \A k \in Keys, u \in Tasks :
          held'[k] = u <=> backend' = "postgres" /\ Inside(u)' /\ Key(on[u])' = k
    BY <1>2, <2>1, <2>5 DEF Connect, LockInv
  <2> QED
    BY <2>7, <2>8, <2>9, <2>10 DEF LockInv
<1>3. ASSUME NEW t \in Tasks, PoolTimeout(t) PROVE LockInv'
  <2>1. \A u \in Tasks : /\ Inside(u)' <=> Inside(u)
                         /\ HasLocal(u)' <=> HasLocal(u) /\ u # t
                         /\ HasConnection(u)' <=> HasConnection(u)
    BY <1>3 DEF PoolTimeout, Inside, HasLocal, HasConnection, Working, Closing
  <2>2. HasLocal(t) /\ ~HasConnection(t) /\ ~Inside(t) /\ at[t] \in Replicas
    BY <1>3 DEF PoolTimeout, HasLocal, HasConnection, Inside, Working, Closing
  <2>3. \A r \in Replicas : Connections(r)' = Connections(r)
    BY <1>3, <2>1 DEF PoolTimeout, Connections
  <2>4. \A u \in Tasks : Key(on[u])' = Key(on[u])
    BY <1>3 DEF PoolTimeout, Key
  <2>5. \A r \in Replicas, s \in Sessions :
          s \in locked'[r] <=> \E u \in Tasks : HasLocal(u)' /\ at'[u] = r /\ on'[u] = s
    BY <1>3, <2>1, <2>2 DEF PoolTimeout, LockInv
  <2>6. \A u, v \in Tasks :
          HasLocal(u)' /\ HasLocal(v)' /\ at'[u] = at'[v] /\ on'[u] = on'[v] => u = v
    BY <1>3, <2>1 DEF PoolTimeout, LockInv
  <2>7. \A r \in Replicas :
          IsFiniteSet(Connections(r)') /\ inUse'[r] = Cardinality(Connections(r)')
    BY <1>3, <2>3 DEF PoolTimeout, LockInv
  <2>8. \A k \in Keys, u \in Tasks :
          held'[k] = u <=> backend' = "postgres" /\ Inside(u)' /\ Key(on[u])' = k
    BY <1>3, <2>1, <2>4 DEF PoolTimeout, LockInv
  <2> QED
    BY <2>5, <2>6, <2>7, <2>8 DEF LockInv
<1>4. ASSUME NEW t \in Tasks, Acquire(t) PROVE LockInv'
  <2>1. \A u \in Tasks : /\ Inside(u)' <=> Inside(u) \/ u = t
                         /\ HasLocal(u)' <=> HasLocal(u)
                         /\ HasConnection(u)' <=> HasConnection(u)
    BY <1>4 DEF Acquire, Inside, HasLocal, HasConnection, Working, Closing
  <2>2. backend = "postgres" /\ ~Inside(t) /\ on[t] \in Sessions /\ Key(on[t]) \in Keys
    BY <1>4 DEF Acquire, Inside, Working, Closing, TaskInv, Begun, Keys
  <2>3. \A r \in Replicas : Connections(r)' = Connections(r)
    BY <1>4, <2>1 DEF Acquire, Connections
  <2>4. \A u \in Tasks : Key(on[u])' = Key(on[u])
    BY <1>4 DEF Acquire, Key
  <2>5. \A r \in Replicas, s \in Sessions :
          s \in locked'[r] <=> \E u \in Tasks : HasLocal(u)' /\ at'[u] = r /\ on'[u] = s
    BY <1>4, <2>1 DEF Acquire, LockInv
  <2>6. \A u, v \in Tasks :
          HasLocal(u)' /\ HasLocal(v)' /\ at'[u] = at'[v] /\ on'[u] = on'[v] => u = v
    BY <1>4, <2>1 DEF Acquire, LockInv
  <2>7. \A r \in Replicas :
          IsFiniteSet(Connections(r)') /\ inUse'[r] = Cardinality(Connections(r)')
    BY <1>4, <2>3 DEF Acquire, LockInv
  <2>8. \A k \in Keys, u \in Tasks :
          held'[k] = u <=> backend' = "postgres" /\ Inside(u)' /\ Key(on[u])' = k
    BY <1>4, <2>1, <2>2, <2>4 DEF Acquire, LockInv
  <2> QED
    BY <2>5, <2>6, <2>7, <2>8 DEF LockInv
<1>5. ASSUME NEW t \in Tasks, Leave(t) PROVE LockInv'
  <2>1. \A u \in Tasks : /\ Inside(u)' <=> Inside(u) /\ u # t
                         /\ HasLocal(u)' <=> HasLocal(u) /\ u # t
                         /\ HasConnection(u)' <=> HasConnection(u) /\ u # t
    BY <1>5 DEF Leave, Inside, HasLocal, HasConnection, Working, Closing
  <2>2. HasLocal(t) /\ Inside(t) /\ at[t] \in Replicas /\ on[t] \in Sessions
    BY <1>5 DEF Leave, HasLocal, Inside, TaskInv, Begun, Closing
  <2>3. Key(on[t]) \in Keys /\ \A u \in Tasks : Key(on[u])' = Key(on[u])
    BY <1>5, <2>2 DEF Leave, Key, Keys
  <2>4. Connections(at[t])' = Connections(at[t]) \ {t}
    BY <1>5, <2>1 DEF Leave, Connections
  <2>5. \A r \in Replicas \ {at[t]} : Connections(r)' = Connections(r)
    BY <1>5, <2>1 DEF Leave, Connections
  <2>6. t \in Connections(at[t]) <=> backend = "postgres"
    BY <2>2 DEF Connections, HasConnection
  <2>7. /\ IsFiniteSet(Connections(at[t])')
        /\ Cardinality(Connections(at[t])') = IF backend = "postgres"
                                              THEN Cardinality(Connections(at[t])) - 1
                                              ELSE Cardinality(Connections(at[t]))
    BY <2>2, <2>4, <2>6, FS_RemoveElement DEF LockInv
  <2>8. \A r \in Replicas, s \in Sessions :
          s \in locked'[r] <=> \E u \in Tasks : HasLocal(u)' /\ at'[u] = r /\ on'[u] = s
    BY <1>5, <2>1, <2>2 DEF Leave, LockInv
  <2>9. \A u, v \in Tasks :
          HasLocal(u)' /\ HasLocal(v)' /\ at'[u] = at'[v] /\ on'[u] = on'[v] => u = v
    BY <1>5, <2>1 DEF Leave, LockInv
  <2>10. \A r \in Replicas :
          IsFiniteSet(Connections(r)') /\ inUse'[r] = Cardinality(Connections(r)')
    BY <1>5, <2>2, <2>5, <2>7 DEF Leave, LockInv
  <2>11. \A k \in Keys, u \in Tasks :
          held'[k] = u <=> backend' = "postgres" /\ Inside(u)' /\ Key(on[u])' = k
    BY <1>5, <2>1, <2>2, <2>3 DEF Leave, LockInv
  <2> QED
    BY <2>8, <2>9, <2>10, <2>11 DEF LockInv
<1>6. ASSUME NEW t \in Tasks, Open(t) PROVE LockInv'
  BY <1>6, InsideMove DEF Open, Inside, Working, Closing, Waits, Deleting, store, plans
<1>7. ASSUME NEW t \in Tasks, StartTurn(t) PROVE LockInv'
  BY <1>7, InsideMove DEF StartTurn, Inside, Working, Closing, Waits, Deleting, store, plans
<1>8. ASSUME NEW t \in Tasks, FinishTurn(t) PROVE LockInv'
  BY <1>8, InsideMove DEF FinishTurn, Inside, Working, Closing, Waits, Deleting, store, plans
<1>9. ASSUME NEW t \in Tasks, Record(t) PROVE LockInv'
  BY <1>9, InsideMove DEF Record, Inside, Working, Closing, Waits, Deleting, store, plans
<1>10. ASSUME NEW b \in Briefs, Plan(b) PROVE LockInv'
  BY <1>10, InsideMove DEF Plan, Inside, Working, Closing, Waits, Deleting, store, plans,
       Tasks, Requests
<1>11. ASSUME NEW b \in Briefs, NEW k \in Kids, CreateSection(b, k) PROVE LockInv'
  BY <1>11, OutsideMove DEF CreateSection, HasLocal, Inside, Working, Closing, Steps,
       Waiting, Over, plans, store, Tasks
<1>12. ASSUME NEW b \in Briefs, Compile(b) PROVE LockInv'
  BY <1>12, InsideMove DEF Compile, Inside, Working, Closing, Waits, Deleting, store, plans,
       Tasks, Requests
<1>13. ASSUME NEW d \in Deletes, ListOwned(d) PROVE LockInv'
  BY <1>13, InsideMove DEF ListOwned, Inside, Working, Closing, Waits, Deleting, store,
       plans, Tasks, Requests
<1>14. ASSUME NEW d \in Deletes, DropCheckpoints(d) PROVE LockInv'
  BY <1>14, InsideMove DEF DropCheckpoints, Inside, Working, Closing, Waits, Deleting,
       store, plans, Tasks, Requests
<1>15. ASSUME NEW d \in Deletes, DropRow(d) PROVE LockInv'
  BY <1>15, InsideMove DEF DropRow, Inside, Working, Closing, Waits, Deleting, store, plans,
       Tasks, Requests
<1>16. ASSUME NEW d \in Deletes, DropDirectory(d) PROVE LockInv'
  BY <1>16, InsideMove DEF DropDirectory, Inside, Working, Closing, Waits, Deleting, store,
       plans, Tasks, Requests
<1>17. ASSUME NEW b \in Briefs, CreateFails(b) PROVE LockInv'
  <2>1. CASE step[b] = "briefing"
    BY <1>17, <2>1, InsideMove DEF CreateFails, Inside, Working, Closing, Tasks, Requests
  <2>2. CASE step[b] # "briefing"
    BY <1>17, <2>2, NoMove DEF CreateFails
  <2> QED
    BY <2>1, <2>2
<1>18. ASSUME NEW s \in Tops, CreateSession(s) PROVE LockInv'
  BY <1>18, NoMove DEF CreateSession
<1>19. ASSUME NEW s \in Sessions, ReadTrace(s) PROVE LockInv'
  BY <1>19, NoMove DEF ReadTrace
<1>20. ASSUME NEW s \in Sessions, WriteFeedback(s) PROVE LockInv'
  BY <1>20, NoMove DEF WriteFeedback
<1>21. ASSUME NEW s \in Sessions, PruneSession(s) PROVE LockInv'
  BY <1>21, NoMove DEF PruneSession
<1>22. ASSUME NEW S \in SUBSET Ageing, PruneList(S) PROVE LockInv'
  BY <1>22, NoMove DEF PruneList
<1>23. CASE PruneCheckpoints
  BY <1>23, NoMove DEF PruneCheckpoints
<1>24. ASSUME NEW r \in Replicas, Crash(r) PROVE LockInv'
  <2> DEFINE dead == {t \in Tasks : at[t] = r /\ step[t] \notin {"new"} \cup Over}
  <2>1. \A u \in Tasks : /\ Inside(u)' <=> Inside(u) /\ at[u] # r
                         /\ HasLocal(u)' <=> HasLocal(u) /\ at[u] # r
                         /\ HasConnection(u)' <=> HasConnection(u) /\ at[u] # r
    BY <1>24 DEF Crash, Inside, HasLocal, HasConnection, Working, Closing, Over
  <2>2. \A u \in Tasks : Inside(u) => (u \in dead <=> at[u] = r)
    BY DEF Inside, Working, Closing, Over
  <2>3. Connections(r)' = {} /\ \A q \in Replicas \ {r} : Connections(q)' = Connections(q)
    BY <1>24, <2>1 DEF Crash, Connections
  <2>4. \A u \in Tasks : Key(on[u])' = Key(on[u])
    BY <1>24 DEF Crash, Key
  <2>5. held' = [k \in Keys |-> IF held[k] \in dead THEN NoTask ELSE held[k]]
    BY <1>24 DEF Crash
  <2> HIDE DEF dead
  <2>6. dead \subseteq Tasks
    BY DEF dead
  <2>7. \A q \in Replicas, s \in Sessions :
          s \in locked'[q] <=> \E u \in Tasks : HasLocal(u)' /\ at'[u] = q /\ on'[u] = s
    BY <1>24, <2>1 DEF Crash, LockInv
  <2>8. \A u, v \in Tasks :
          HasLocal(u)' /\ HasLocal(v)' /\ at'[u] = at'[v] /\ on'[u] = on'[v] => u = v
    BY <1>24, <2>1 DEF Crash, LockInv
  <2>9. \A q \in Replicas :
          IsFiniteSet(Connections(q)') /\ inUse'[q] = Cardinality(Connections(q)')
    <3>1. IsFiniteSet(Connections(r)') /\ inUse'[r] = Cardinality(Connections(r)')
      BY <1>24, <2>3, FS_EmptySet DEF Crash
    <3>2. ASSUME NEW q \in Replicas \ {r}
          PROVE  IsFiniteSet(Connections(q)') /\ inUse'[q] = Cardinality(Connections(q)')
      BY <1>24, <2>3 DEF Crash, LockInv
    <3> QED
      BY <3>1, <3>2
  <2>10. \A k \in Keys, u \in Tasks :
          held'[k] = u <=> backend' = "postgres" /\ Inside(u)' /\ Key(on[u])' = k
    BY <1>24, <2>1, <2>2, <2>4, <2>5, <2>6 DEF Crash, LockInv
  <2> QED
    BY <2>7, <2>8, <2>9, <2>10 DEF LockInv
<1>25. ASSUME NEW t \in Requests, NEW s \in Sessions, NEW r \in Replicas,
              Begin(t, s, r)
       PROVE  LockInv'
  BY <1>25, OutsideMove DEF Begin, HasLocal, Inside, Working, Closing, Steps, Waiting, Over,
       Tasks
<1>26. CASE UNCHANGED vars
  BY <1>26, NoMove DEF vars, store, locks, pruner, plans
<1> QED
  BY <1>1, <1>2, <1>3, <1>4, <1>5, <1>6, <1>7, <1>8, <1>9, <1>10, <1>11, <1>12, <1>13,
     <1>14, <1>15, <1>16, <1>17, <1>18, <1>19, <1>20, <1>21, <1>22, <1>23, <1>24, <1>25,
     <1>26
     DEF Next, TaskStep, LockStep, TurnStep, BriefStep, DeleteStep, Mishap

-----------------------------------------------------------------------------
\* Nobody else is at work on the session a deletion holds, and no research that waits for
\* its sections is.
LEMMA DeletionAlone ==
    ASSUME IInv, NEW d \in Deletes, Inside(d)
    PROVE  /\ \A t \in Tasks : t # d /\ Inside(t) => on[t] # on[d]
           /\ \A b \in Briefs : Waits(b) \/ step[b] = "asked" => on[b] # on[d]
           /\ \A k \in Kids : Busy(k) /\ Parent(k) = on[d] => step[by[k]] = "sunk"
<1>1. OneTaskPerSession
  BY Exclusion DEF IInv
<1>2. \A t \in Tasks : t # d /\ Inside(t) => on[t] # on[d]
  BY <1>1 DEF OneTaskPerSession, Tasks, Requests
<1>3. \A b \in Briefs : Waits(b) \/ step[b] = "asked" => on[b] # on[d]
  BY <1>2 DEF Inside, Working, Closing, Waits, Tasks, Requests
<1>4. \A k \in Kids : Busy(k) /\ Parent(k) = on[d] => step[by[k]] = "sunk"
  BY <1>3 DEF IInv, SectionInv, Parent, Busy
<1> QED
  BY <1>2, <1>3, <1>4

\* A deletion removes its own session last, and before it only child sessions of it.
LEMMA CurrentIsOwned ==
    ASSUME IInv, NEW d \in Deletes, step[d] \in Deleting
    PROVE  /\ Current(d) \in todo[d] /\ Current(d) \in Sessions
           /\ Current(d) = on[d] <=> todo[d] = {on[d]}
           /\ Current(d) = on[d] \/ (/\ Current(d) \in Kids /\ Begun(Current(d))
                                     /\ Parent(Current(d)) = on[d])
           /\ on[d] \in Sessions /\ Begun(d) /\ Inside(d)
<1>1. on[d] \in todo[d] /\ todo[d] \subseteq Sessions
  BY DEF IInv, DeleteInv, ToRemove, TypeOK
<1>2. Current(d) \in todo[d] /\ (Current(d) = on[d] <=> todo[d] = {on[d]})
  BY <1>1 DEF Current
<1>3. Begun(d) /\ Inside(d)
  BY DEF Begun, Inside, Working, Closing, Deleting
<1> QED
  BY <1>1, <1>2, <1>3 DEF IInv, DeleteInv, ToRemove

\* Nobody is at work on a section that died with its research.
LEMMA KilledIsLeftAlone ==
    ASSUME IInv, NEW t \in Tasks, Begun(t), NEW k \in Kids, step[k] = "killed"
    PROVE  on[t] = k => t = k
<1>1. CASE t \in Requests
  BY <1>1 DEF IInv, SectionInv
<1>2. CASE t \in Kids
  BY <1>2 DEF IInv, SectionInv
<1> QED
  BY <1>1, <1>2 DEF Tasks

-----------------------------------------------------------------------------
\* A row is written once, and taken only from sessions nobody waits for.
LEMMA StepRow == IInv /\ [Next]_vars => RowInv'
<1> SUFFICES ASSUME IInv, [Next]_vars PROVE RowInv'
  OBVIOUS
<1> USE DEF IInv, TypeOK, TaskInv, SectionInv, RowInv, Begun, Busy, Waits, Goto, Sessions,
        Requests, Tasks, ChatSteps, BriefSteps, DeleteSteps, SectionSteps, Waiting, Closing,
        Over, store, locks, plans, pruner
<1>1. ASSUME NEW t \in Tasks, TakeLocal(t) PROVE RowInv'
  BY <1>1 DEF TakeLocal
<1>2. ASSUME NEW t \in Tasks, Connect(t) PROVE RowInv'
  BY <1>2 DEF Connect
<1>3. ASSUME NEW t \in Tasks, PoolTimeout(t) PROVE RowInv'
  BY <1>3 DEF PoolTimeout
<1>4. ASSUME NEW t \in Tasks, Acquire(t) PROVE RowInv'
  BY <1>4 DEF Acquire
<1>5. ASSUME NEW t \in Tasks, Leave(t) PROVE RowInv'
  BY <1>5 DEF Leave
<1>6. ASSUME NEW t \in Tasks, Open(t) PROVE RowInv'
  BY <1>6 DEF Open, Live
<1>7. ASSUME NEW t \in Tasks, StartTurn(t) PROVE RowInv'
  BY <1>7 DEF StartTurn
<1>8. ASSUME NEW t \in Tasks, FinishTurn(t) PROVE RowInv'
  BY <1>8 DEF FinishTurn
<1>9. ASSUME NEW t \in Tasks, Record(t) PROVE RowInv'
  BY <1>9 DEF Record
<1>10. ASSUME NEW b \in Briefs, Plan(b) PROVE RowInv'
  BY <1>10 DEF Plan
<1>11. ASSUME NEW b \in Briefs, NEW k \in Kids, CreateSection(b, k) PROVE RowInv'
  BY <1>11 DEF CreateSection
<1>12. ASSUME NEW b \in Briefs, Compile(b) PROVE RowInv'
  BY <1>12 DEF Compile
<1>13. ASSUME NEW d \in Deletes, ListOwned(d) PROVE RowInv'
  BY <1>13 DEF ListOwned
<1>14. ASSUME NEW d \in Deletes, DropCheckpoints(d) PROVE RowInv'
  BY <1>14 DEF DropCheckpoints
<1>15. ASSUME NEW d \in Deletes, DropRow(d) PROVE RowInv'
  <2>1. step[d] \in Deleting
    BY <1>15 DEF DropRow, Deleting
  <2>2. PICK c \in Sessions : c = Current(d)
    BY <2>1, CurrentIsOwned
  <2>3. c = on[d] \/ (c \in Kids /\ Begun(c) /\ Parent(c) = on[d])
    BY <2>1, <2>2, CurrentIsOwned
  <2>4. Inside(d) /\ Begun(d)
    BY <2>1, CurrentIsOwned
  <2>5. row' = [row EXCEPT ![c] = IF row[c] = "live" THEN "deleted" ELSE row[c]]
    BY <1>15, <2>2 DEF DropRow
  <2>6. \A b \in Briefs : (Waits(b) \/ step[b] = "asked") /\ on[b] \in Tops => on[b] # c
    BY <2>3, <2>4, DeletionAlone
  <2>7. \A k \in Kids : Busy(k) /\ Waits(by[k]) => k # c
    BY <2>3, <2>4, DeletionAlone
  <2> QED
    BY <1>15, <2>5, <2>6, <2>7 DEF DropRow
<1>16. ASSUME NEW d \in Deletes, DropDirectory(d) PROVE RowInv'
  BY <1>16 DEF DropDirectory
<1>17. ASSUME NEW b \in Briefs, CreateFails(b) PROVE RowInv'
  BY <1>17 DEF CreateFails
<1>18. ASSUME NEW s \in Tops, CreateSession(s) PROVE RowInv'
  BY <1>18 DEF CreateSession
<1>19. ASSUME NEW s \in Sessions, ReadTrace(s) PROVE RowInv'
  BY <1>19 DEF ReadTrace
<1>20. ASSUME NEW s \in Sessions, WriteFeedback(s) PROVE RowInv'
  BY <1>20 DEF WriteFeedback
<1>21. ASSUME NEW s \in Sessions, PruneSession(s) PROVE RowInv'
  BY <1>21 DEF PruneSession
<1>22. ASSUME NEW S \in SUBSET Ageing, PruneList(S) PROVE RowInv'
  BY <1>22 DEF PruneList
<1>23. CASE PruneCheckpoints
  BY <1>23 DEF PruneCheckpoints
<1>24. ASSUME NEW r \in Replicas, Crash(r) PROVE RowInv'
  BY <1>24 DEF Crash
<1>25. ASSUME NEW t \in Requests, NEW s \in Sessions, NEW r \in Replicas,
              Begin(t, s, r)
       PROVE  RowInv'
  BY <1>25 DEF Begin, Known
<1>26. CASE UNCHANGED vars
  BY <1>26 DEF vars, store, locks, pruner, plans
<1> QED
  BY <1>1, <1>2, <1>3, <1>4, <1>5, <1>6, <1>7, <1>8, <1>9, <1>10, <1>11, <1>12, <1>13,
     <1>14, <1>15, <1>16, <1>17, <1>18, <1>19, <1>20, <1>21, <1>22, <1>23, <1>24, <1>25,
     <1>26
     DEF Next, TaskStep, LockStep, TurnStep, BriefStep, DeleteStep, Mishap

\* What lasts: a task that has begun stays with its session and its research, and one that
\* is over stays as it ended.
LEMMA WhatLasts ==
    IInv /\ [Next]_vars =>
        /\ \A t \in Tasks : Begun(t) => Begun(t)' /\ on'[t] = on[t]
        /\ \A t \in Tasks : step[t] \in Over => step'[t] = step[t]
        /\ \A k \in Kids : Begun(k) => by'[k] = by[k]
<1> DEFINE Lasting ==
        /\ \A t \in Tasks : Begun(t) => Begun(t)' /\ on'[t] = on[t]
        /\ \A t \in Tasks : step[t] \in Over => step'[t] = step[t]
        /\ \A k \in Kids : Begun(k) => by'[k] = by[k]
<1> SUFFICES ASSUME IInv, [Next]_vars PROVE Lasting
  OBVIOUS
<1> USE DEF IInv, TypeOK, Begun, Goto, Requests, Tasks, Closing, Over, store, locks, plans,
        pruner
<1>1. ASSUME NEW t \in Tasks, TakeLocal(t) PROVE Lasting
  BY <1>1 DEF TakeLocal
<1>2. ASSUME NEW t \in Tasks, Connect(t) PROVE Lasting
  BY <1>2 DEF Connect
<1>3. ASSUME NEW t \in Tasks, PoolTimeout(t) PROVE Lasting
  BY <1>3 DEF PoolTimeout
<1>4. ASSUME NEW t \in Tasks, Acquire(t) PROVE Lasting
  BY <1>4 DEF Acquire
<1>5. ASSUME NEW t \in Tasks, Leave(t) PROVE Lasting
  BY <1>5 DEF Leave
<1>6. ASSUME NEW t \in Tasks, Open(t) PROVE Lasting
  BY <1>6 DEF Open
<1>7. ASSUME NEW t \in Tasks, StartTurn(t) PROVE Lasting
  BY <1>7 DEF StartTurn
<1>8. ASSUME NEW t \in Tasks, FinishTurn(t) PROVE Lasting
  BY <1>8 DEF FinishTurn
<1>9. ASSUME NEW t \in Tasks, Record(t) PROVE Lasting
  BY <1>9 DEF Record
<1>10. ASSUME NEW b \in Briefs, Plan(b) PROVE Lasting
  BY <1>10 DEF Plan
<1>11. ASSUME NEW b \in Briefs, NEW k \in Kids, CreateSection(b, k) PROVE Lasting
  BY <1>11 DEF CreateSection
<1>12. ASSUME NEW b \in Briefs, Compile(b) PROVE Lasting
  BY <1>12 DEF Compile
<1>13. ASSUME NEW d \in Deletes, ListOwned(d) PROVE Lasting
  BY <1>13 DEF ListOwned
<1>14. ASSUME NEW d \in Deletes, DropCheckpoints(d) PROVE Lasting
  BY <1>14 DEF DropCheckpoints
<1>15. ASSUME NEW d \in Deletes, DropRow(d) PROVE Lasting
  BY <1>15 DEF DropRow
<1>16. ASSUME NEW d \in Deletes, DropDirectory(d) PROVE Lasting
  BY <1>16 DEF DropDirectory
<1>17. ASSUME NEW b \in Briefs, CreateFails(b) PROVE Lasting
  BY <1>17 DEF CreateFails
<1>18. ASSUME NEW s \in Tops, CreateSession(s) PROVE Lasting
  BY <1>18 DEF CreateSession
<1>19. ASSUME NEW s \in Sessions, ReadTrace(s) PROVE Lasting
  BY <1>19 DEF ReadTrace
<1>20. ASSUME NEW s \in Sessions, WriteFeedback(s) PROVE Lasting
  BY <1>20 DEF WriteFeedback
<1>21. ASSUME NEW s \in Sessions, PruneSession(s) PROVE Lasting
  BY <1>21 DEF PruneSession
<1>22. ASSUME NEW S \in SUBSET Ageing, PruneList(S) PROVE Lasting
  BY <1>22 DEF PruneList
<1>23. CASE PruneCheckpoints
  BY <1>23 DEF PruneCheckpoints
<1>24. ASSUME NEW r \in Replicas, Crash(r) PROVE Lasting
  BY <1>24 DEF Crash
<1>25. ASSUME NEW t \in Requests, NEW s \in Sessions, NEW r \in Replicas,
              Begin(t, s, r)
       PROVE  Lasting
  BY <1>25 DEF Begin
<1>26. CASE UNCHANGED vars
  BY <1>26 DEF vars, store, locks, pruner, plans
<1> QED
  BY <1>1, <1>2, <1>3, <1>4, <1>5, <1>6, <1>7, <1>8, <1>9, <1>10, <1>11, <1>12, <1>13,
     <1>14, <1>15, <1>16, <1>17, <1>18, <1>19, <1>20, <1>21, <1>22, <1>23, <1>24, <1>25,
     <1>26
     DEF Next, TaskStep, LockStep, TurnStep, BriefStep, DeleteStep, Mishap

\* The section of a research stays one of the same session.
LEMMA FamilyLasts ==
    ASSUME IInv, [Next]_vars, NEW k \in Kids, Begun(k)
    PROVE  /\ by'[k] = by[k] /\ by[k] \in Briefs
           /\ Parent(k)' = Parent(k)
           /\ step[by[k]] = "sunk" => step'[by[k]] = "sunk"
           /\ step[k] = "killed" => step'[k] = "killed"
<1>1. by[k] \in Briefs /\ Begun(by[k]) /\ by'[k] = by[k]
  BY WhatLasts DEF IInv, SectionInv
<1>2. by[k] \in Tasks /\ k \in Tasks
  BY <1>1 DEF Tasks, Requests
<1>3. on'[by[k]] = on[by[k]]
  BY <1>1, <1>2, WhatLasts
<1>4. step[by[k]] = "sunk" => step'[by[k]] = "sunk"
  BY <1>2, WhatLasts DEF Over
<1>5. step[k] = "killed" => step'[k] = "killed"
  BY <1>2, WhatLasts DEF Over
<1> QED
  BY <1>1, <1>3, <1>4, <1>5 DEF Parent

\* A trace that a feedback request has read is there because one was read.
LEMMA StepRating == IInv /\ [Next]_vars => RatingInv' /\ spent \subseteq spent'
<1> SUFFICES ASSUME IInv, [Next]_vars PROVE RatingInv' /\ spent \subseteq spent'
  OBVIOUS
<1> USE DEF IInv, RatingInv, Happens, store, locks, plans, pruner
<1>1. ASSUME NEW t \in Tasks, TakeLocal(t) PROVE RatingInv' /\ spent \subseteq spent'
  BY <1>1 DEF TakeLocal
<1>2. ASSUME NEW t \in Tasks, Connect(t) PROVE RatingInv' /\ spent \subseteq spent'
  BY <1>2 DEF Connect
<1>3. ASSUME NEW t \in Tasks, PoolTimeout(t) PROVE RatingInv' /\ spent \subseteq spent'
  BY <1>3 DEF PoolTimeout
<1>4. ASSUME NEW t \in Tasks, Acquire(t) PROVE RatingInv' /\ spent \subseteq spent'
  BY <1>4 DEF Acquire
<1>5. ASSUME NEW t \in Tasks, Leave(t) PROVE RatingInv' /\ spent \subseteq spent'
  BY <1>5 DEF Leave
<1>6. ASSUME NEW t \in Tasks, Open(t) PROVE RatingInv' /\ spent \subseteq spent'
  BY <1>6 DEF Open
<1>7. ASSUME NEW t \in Tasks, StartTurn(t) PROVE RatingInv' /\ spent \subseteq spent'
  BY <1>7 DEF StartTurn
<1>8. ASSUME NEW t \in Tasks, FinishTurn(t) PROVE RatingInv' /\ spent \subseteq spent'
  BY <1>8 DEF FinishTurn
<1>9. ASSUME NEW t \in Tasks, Record(t) PROVE RatingInv' /\ spent \subseteq spent'
  BY <1>9 DEF Record
<1>10. ASSUME NEW b \in Briefs, Plan(b) PROVE RatingInv' /\ spent \subseteq spent'
  BY <1>10 DEF Plan
<1>11. ASSUME NEW b \in Briefs, NEW k \in Kids,
              CreateSection(b, k)
       PROVE  RatingInv' /\ spent \subseteq spent'
  BY <1>11 DEF CreateSection
<1>12. ASSUME NEW b \in Briefs, Compile(b) PROVE RatingInv' /\ spent \subseteq spent'
  BY <1>12 DEF Compile
<1>13. ASSUME NEW d \in Deletes, ListOwned(d) PROVE RatingInv' /\ spent \subseteq spent'
  BY <1>13 DEF ListOwned
<1>14. ASSUME NEW d \in Deletes, DropCheckpoints(d) PROVE RatingInv' /\ spent \subseteq spent'
  BY <1>14 DEF DropCheckpoints
<1>15. ASSUME NEW d \in Deletes, DropRow(d) PROVE RatingInv' /\ spent \subseteq spent'
  BY <1>15 DEF DropRow
<1>16. ASSUME NEW d \in Deletes, DropDirectory(d) PROVE RatingInv' /\ spent \subseteq spent'
  BY <1>16 DEF DropDirectory
<1>17. ASSUME NEW b \in Briefs, CreateFails(b) PROVE RatingInv' /\ spent \subseteq spent'
  BY <1>17 DEF CreateFails
<1>18. ASSUME NEW s \in Tops, CreateSession(s) PROVE RatingInv' /\ spent \subseteq spent'
  BY <1>18 DEF CreateSession
<1>19. ASSUME NEW s \in Sessions, ReadTrace(s) PROVE RatingInv' /\ spent \subseteq spent'
  BY <1>19 DEF ReadTrace
<1>20. ASSUME NEW s \in Sessions, WriteFeedback(s) PROVE RatingInv' /\ spent \subseteq spent'
  BY <1>20 DEF WriteFeedback
<1>21. ASSUME NEW s \in Sessions, PruneSession(s) PROVE RatingInv' /\ spent \subseteq spent'
  BY <1>21 DEF PruneSession
<1>22. ASSUME NEW S \in SUBSET Ageing, PruneList(S) PROVE RatingInv' /\ spent \subseteq spent'
  BY <1>22 DEF PruneList
<1>23. CASE PruneCheckpoints
  BY <1>23 DEF PruneCheckpoints
<1>24. ASSUME NEW r \in Replicas, Crash(r) PROVE RatingInv' /\ spent \subseteq spent'
  BY <1>24 DEF Crash
<1>25. ASSUME NEW t \in Requests, NEW s \in Sessions, NEW r \in Replicas,
              Begin(t, s, r)
       PROVE  RatingInv' /\ spent \subseteq spent'
  BY <1>25 DEF Begin
<1>26. CASE UNCHANGED vars
  BY <1>26 DEF vars, store, locks, pruner, plans
<1> QED
  BY <1>1, <1>2, <1>3, <1>4, <1>5, <1>6, <1>7, <1>8, <1>9, <1>10, <1>11, <1>12, <1>13,
     <1>14, <1>15, <1>16, <1>17, <1>18, <1>19, <1>20, <1>21, <1>22, <1>23, <1>24, <1>25,
     <1>26
     DEF Next, TaskStep, LockStep, TurnStep, BriefStep, DeleteStep, Mishap

\* What a step may add or take away: only a deletion that has come to a session deletes its
\* row, only a task at work on a session writes its checkpoints, messages and traces, and a
\* crash touches none of them.
Writer(t, s) == t \notin Deletes /\ Inside(t) /\ on[t] = s

StoreChanges ==
    /\ \A s \in Sessions :
        /\ row'[s] = "deleted" => \/ row[s] = "deleted"
                                  \/ \E d \in Deletes : DropRow(d) /\ Current(d) = s
        /\ row'[s] = "live" => row[s] \in {"live", "unborn"}
        /\ s \in checkpoints' \ checkpoints => \E t \in Tasks : Writer(t, s)
        /\ s \in transcripts' \ transcripts => \E t \in Tasks : Writer(t, s)
        /\ s \in dirs' \ dirs => (\E t \in Tasks : Writer(t, s)) \/ "rating" \in spent'
    /\ \A k \in Kids : row'[k] = "live" /\ row[k] = "unborn"
                          => \E b \in Briefs : CreateSection(b, k)
    /\ \A t \in Tasks : step'[t] = "killed" /\ step[t] # "killed" => Busy(t) /\ UNCHANGED store

LEMMA StepStore == IInv /\ [Next]_vars => StoreChanges
<1> SUFFICES ASSUME IInv, [Next]_vars PROVE StoreChanges
  OBVIOUS
<1> USE DEF StoreChanges, Writer, IInv, TypeOK, TaskInv, Begun, Busy, Goto, Sessions, Requests,
        Tasks, DeleteSteps, Closing, Over, Waiting, store, locks, plans, pruner
<1>1. ASSUME NEW t \in Tasks, TakeLocal(t) PROVE StoreChanges
  BY <1>1 DEF TakeLocal
<1>2. ASSUME NEW t \in Tasks, Connect(t) PROVE StoreChanges
  BY <1>2 DEF Connect
<1>3. ASSUME NEW t \in Tasks, PoolTimeout(t) PROVE StoreChanges
  BY <1>3 DEF PoolTimeout
<1>4. ASSUME NEW t \in Tasks, Acquire(t) PROVE StoreChanges
  BY <1>4 DEF Acquire
<1>5. ASSUME NEW t \in Tasks, Leave(t) PROVE StoreChanges
  BY <1>5 DEF Leave
<1>6. ASSUME NEW t \in Tasks, Open(t) PROVE StoreChanges
  BY <1>6 DEF Open, AppendMessage, SqliteAppend, PostgresAppend, Inside, Working
<1>7. ASSUME NEW t \in Tasks, StartTurn(t) PROVE StoreChanges
  BY <1>7 DEF StartTurn, Inside, Working
<1>8. ASSUME NEW t \in Tasks, FinishTurn(t) PROVE StoreChanges
  BY <1>8 DEF FinishTurn, Inside, Working
<1>9. ASSUME NEW t \in Tasks, Record(t) PROVE StoreChanges
  BY <1>9 DEF Record, AppendMessage, SqliteAppend, PostgresAppend, Inside, Working
<1>10. ASSUME NEW b \in Briefs, Plan(b) PROVE StoreChanges
  BY <1>10 DEF Plan
<1>11. ASSUME NEW b \in Briefs, NEW k \in Kids, CreateSection(b, k) PROVE StoreChanges
  BY <1>11 DEF CreateSection, RowInv
<1>12. ASSUME NEW b \in Briefs, Compile(b) PROVE StoreChanges
  BY <1>12 DEF Compile
<1>13. ASSUME NEW d \in Deletes, ListOwned(d) PROVE StoreChanges
  BY <1>13 DEF ListOwned
<1>14. ASSUME NEW d \in Deletes, DropCheckpoints(d) PROVE StoreChanges
  BY <1>14 DEF DropCheckpoints
<1>15. ASSUME NEW d \in Deletes, DropRow(d) PROVE StoreChanges
  BY <1>15 DEF DropRow
<1>16. ASSUME NEW d \in Deletes, DropDirectory(d) PROVE StoreChanges
  BY <1>16 DEF DropDirectory
<1>17. ASSUME NEW b \in Briefs, CreateFails(b) PROVE StoreChanges
  BY <1>17 DEF CreateFails
<1>18. ASSUME NEW s \in Tops, CreateSession(s) PROVE StoreChanges
  BY <1>18 DEF CreateSession
<1>19. ASSUME NEW s \in Sessions, ReadTrace(s) PROVE StoreChanges
  BY <1>19 DEF ReadTrace
<1>20. ASSUME NEW s \in Sessions, WriteFeedback(s) PROVE StoreChanges
  BY <1>20 DEF WriteFeedback, RatingInv
<1>21. ASSUME NEW s \in Sessions, PruneSession(s) PROVE StoreChanges
  BY <1>21 DEF PruneSession
<1>22. ASSUME NEW S \in SUBSET Ageing, PruneList(S) PROVE StoreChanges
  BY <1>22 DEF PruneList
<1>23. CASE PruneCheckpoints
  BY <1>23 DEF PruneCheckpoints
<1>24. ASSUME NEW r \in Replicas, Crash(r) PROVE StoreChanges
  BY <1>24 DEF Crash
<1>25. ASSUME NEW t \in Requests, NEW s \in Sessions, NEW r \in Replicas,
              Begin(t, s, r)
       PROVE  StoreChanges
  BY <1>25 DEF Begin
<1>26. CASE UNCHANGED vars
  BY <1>26 DEF vars, store, locks, pruner, plans
<1> QED
  BY <1>1, <1>2, <1>3, <1>4, <1>5, <1>6, <1>7, <1>8, <1>9, <1>10, <1>11, <1>12, <1>13,
     <1>14, <1>15, <1>16, <1>17, <1>18, <1>19, <1>20, <1>21, <1>22, <1>23, <1>24, <1>25,
     <1>26
     DEF Next, TaskStep, LockStep, TurnStep, BriefStep, DeleteStep, Mishap

\* A section that is settled after a step was so before, or it has just died and nothing was
\* written; nobody writes to it, nor to the session a deletion holds.
LEMMA SettledLasts ==
    ASSUME IInv, [Next]_vars, NEW k \in Kids, Settled(k)'
    PROVE  \/ Settled(k) /\ step[k] = "killed"
           \/ Busy(k) /\ Waits(by[k]) /\ UNCHANGED store
<1>1. step'[k] = "killed" /\ step'[by'[k]] # "sunk"
  BY SessionsAssumption DEF Settled
<1>2. CASE step[k] = "killed"
  BY <1>1, <1>2, FamilyLasts DEF Begun, Settled
<1>3. CASE step[k] # "killed"
  <2>1. Busy(k) /\ UNCHANGED store
    BY <1>1, <1>3, StepStore DEF StoreChanges, Tasks
  <2>2. step[by[k]] # "sunk"
    BY <1>1, <2>1, FamilyLasts DEF Busy
  <2> QED
    BY <2>1, <2>2 DEF IInv, SectionInv
<1> QED
  BY <1>2, <1>3

LEMMA SettledIsNotWritten ==
    ASSUME IInv, NEW k \in Kids, step[k] = "killed", NEW t \in Tasks
    PROVE  ~Writer(t, k)
BY KilledIsLeftAlone DEF Writer, Begun, Inside, Working, Closing

\* A section that died with its research and has lost its row has nothing left.
LEMMA StepKilled == IInv /\ [Next]_vars => KilledInv'
<1> SUFFICES ASSUME IInv, [Next]_vars, NEW k \in Kids, Settled(k)', row'[k] = "deleted"
             PROVE  Removed(k)'
  BY DEF KilledInv
<1>1. k \in Sessions
  BY DEF Sessions
<1>2. ASSUME Busy(k), Waits(by[k]), UNCHANGED store PROVE FALSE
  BY <1>2 DEF IInv, RowInv, store
<1>3. Settled(k) /\ step[k] = "killed"
  BY <1>2, SettledLasts
<1>4. (k \in checkpoints' => k \in checkpoints) /\ (k \in transcripts' => k \in transcripts)
  BY <1>1, <1>3, StepStore, SettledIsNotWritten DEF StoreChanges
<1>5. k \notin Live'
  BY DEF Live
<1>6. CASE row[k] = "deleted"
  BY <1>3, <1>4, <1>5, <1>6 DEF IInv, KilledInv, Removed
<1>7. ASSUME NEW d \in Deletes, DropRow(d), Current(d) = k PROVE Removed(k)'
  BY <1>3, <1>4, <1>5, <1>7 DEF DropRow, IInv, DeleteInv, Removing, Removed
<1> QED
  BY <1>1, <1>6, <1>7, StepStore DEF StoreChanges

\* A chat loses its row after its sections, save those a raise left behind.
LEMMA StepChildren == IInv /\ [Next]_vars => ChildrenGoFirst'
<1> SUFFICES ASSUME IInv, [Next]_vars, NEW k \in Kids, row'[k] = "live",
                    Parent(k)' \in Tops, row'[Parent(k)'] = "deleted"
             PROVE  step'[by'[k]] = "sunk"
  BY DEF ChildrenGoFirst, Live
<1>1. CASE row[k] = "live"
  <2>1. Begun(k)
    BY <1>1 DEF IInv, RowInv
  <2>2. PICK p \in Tops : p = Parent(k) /\ p = Parent(k)'
    BY <2>1, FamilyLasts
  <2>3. CASE row[p] = "deleted"
    BY <1>1, <2>1, <2>2, <2>3, FamilyLasts DEF IInv, ChildrenGoFirst, Live, Sessions
  <2>4. ASSUME NEW d \in Deletes, DropRow(d), Current(d) = p PROVE step[by[k]] = "sunk"
    <3>1. step[d] = "row" /\ step[d] \in Deleting
      BY <2>4 DEF DropRow, Deleting
    <3>2. on[d] = p /\ todo[d] = {p}
      BY <2>4, <3>1, CurrentIsOwned, SessionsAssumption
    <3>3. k \notin todo[d]
      BY <3>2, SessionsAssumption
    <3>4. k \in Live /\ Parent(k) = on[d]
      BY <1>1, <2>2, <3>2 DEF Live, Sessions
    <3> QED
      BY <3>1, <3>3, <3>4 DEF IInv, DeleteInv, LeftOut
  <2>5. row[p] = "deleted" \/ \E d \in Deletes : DropRow(d) /\ Current(d) = p
    BY <2>2, StepStore DEF StoreChanges, Sessions
  <2> QED
    BY <2>1, <2>3, <2>4, <2>5, FamilyLasts
<1>2. CASE row[k] # "live"
  <2>1. row[k] = "unborn" /\ k \in Sessions
    BY <1>2, StepStore DEF StoreChanges, Sessions
  <2>2. PICK b \in Briefs : CreateSection(b, k)
    BY <2>1, StepStore DEF StoreChanges
  <2>3. b \in Tasks /\ k \in Tasks /\ b # k
    BY SessionsAssumption DEF Tasks, Requests
  <2>4. by'[k] = b /\ on'[b] = on[b] /\ step'[b] = step[b]
    BY <2>2, <2>3 DEF CreateSection, Goto, IInv, TypeOK
  <2>5. on[b] \in Tops /\ row[on[b]] = "deleted"
    BY <2>2, <2>4, SessionsAssumption DEF CreateSection, Parent, IInv, TypeOK, Sessions
  <2> QED
    BY <2>2, <2>4, <2>5 DEF CreateSection, IInv, SectionInv, RowInv
<1> QED
  BY <1>1, <1>2

-----------------------------------------------------------------------------
\* What a deletion has to do changes only by its own steps.
OwnStep(d) == ListOwned(d) \/ DropCheckpoints(d) \/ DropRow(d) \/ DropDirectory(d)

LEMMA DeletionSteps ==
    IInv /\ [Next]_vars =>
        \A d \in Deletes : step'[d] \in Deleting \cup {"leaving"} =>
            OwnStep(d) \/ (step'[d] = step[d] /\ todo'[d] = todo[d])
<1> DEFINE Moves ==
        \A d \in Deletes : step'[d] \in Deleting \cup {"leaving"} =>
            OwnStep(d) \/ (step'[d] = step[d] /\ todo'[d] = todo[d])
<1> SUFFICES ASSUME IInv, [Next]_vars PROVE Moves
  OBVIOUS
<1> USE DEF OwnStep, Deleting, IInv, TypeOK, TaskInv, Goto, Requests, Tasks, DeleteSteps,
        Waiting, Closing, store, locks, plans, pruner
<1>1. ASSUME NEW t \in Tasks, TakeLocal(t) PROVE Moves
  BY <1>1 DEF TakeLocal
<1>2. ASSUME NEW t \in Tasks, Connect(t) PROVE Moves
  BY <1>2 DEF Connect
<1>3. ASSUME NEW t \in Tasks, PoolTimeout(t) PROVE Moves
  BY <1>3 DEF PoolTimeout
<1>4. ASSUME NEW t \in Tasks, Acquire(t) PROVE Moves
  BY <1>4 DEF Acquire
<1>5. ASSUME NEW t \in Tasks, Leave(t) PROVE Moves
  BY <1>5 DEF Leave
<1>6. ASSUME NEW t \in Tasks, Open(t) PROVE Moves
  BY <1>6 DEF Open
<1>7. ASSUME NEW t \in Tasks, StartTurn(t) PROVE Moves
  BY <1>7 DEF StartTurn
<1>8. ASSUME NEW t \in Tasks, FinishTurn(t) PROVE Moves
  BY <1>8 DEF FinishTurn
<1>9. ASSUME NEW t \in Tasks, Record(t) PROVE Moves
  BY <1>9 DEF Record
<1>10. ASSUME NEW b \in Briefs, Plan(b) PROVE Moves
  BY <1>10 DEF Plan
<1>11. ASSUME NEW b \in Briefs, NEW k \in Kids, CreateSection(b, k) PROVE Moves
  BY <1>11 DEF CreateSection
<1>12. ASSUME NEW b \in Briefs, Compile(b) PROVE Moves
  BY <1>12 DEF Compile
<1>13. ASSUME NEW d \in Deletes, ListOwned(d) PROVE Moves
  <2>1. ASSUME NEW e \in Deletes \ {d} PROVE step'[e] = step[e] /\ todo'[e] = todo[e]
    BY <1>13 DEF ListOwned
  <2> QED
    BY <1>13, <2>1
<1>14. ASSUME NEW d \in Deletes, DropCheckpoints(d) PROVE Moves
  <2>1. ASSUME NEW e \in Deletes \ {d} PROVE step'[e] = step[e] /\ todo'[e] = todo[e]
    BY <1>14 DEF DropCheckpoints
  <2> QED
    BY <1>14, <2>1
<1>15. ASSUME NEW d \in Deletes, DropRow(d) PROVE Moves
  <2>1. ASSUME NEW e \in Deletes \ {d} PROVE step'[e] = step[e] /\ todo'[e] = todo[e]
    BY <1>15 DEF DropRow
  <2> QED
    BY <1>15, <2>1
<1>16. ASSUME NEW d \in Deletes, DropDirectory(d) PROVE Moves
  <2>1. ASSUME NEW e \in Deletes \ {d} PROVE step'[e] = step[e] /\ todo'[e] = todo[e]
    BY <1>16 DEF DropDirectory
  <2> QED
    BY <1>16, <2>1
<1>17. ASSUME NEW b \in Briefs, CreateFails(b) PROVE Moves
  BY <1>17 DEF CreateFails
<1>18. ASSUME NEW s \in Tops, CreateSession(s) PROVE Moves
  BY <1>18 DEF CreateSession
<1>19. ASSUME NEW s \in Sessions, ReadTrace(s) PROVE Moves
  BY <1>19 DEF ReadTrace
<1>20. ASSUME NEW s \in Sessions, WriteFeedback(s) PROVE Moves
  BY <1>20 DEF WriteFeedback
<1>21. ASSUME NEW s \in Sessions, PruneSession(s) PROVE Moves
  BY <1>21 DEF PruneSession
<1>22. ASSUME NEW S \in SUBSET Ageing, PruneList(S) PROVE Moves
  BY <1>22 DEF PruneList
<1>23. CASE PruneCheckpoints
  BY <1>23 DEF PruneCheckpoints
<1>24. ASSUME NEW r \in Replicas, Crash(r) PROVE Moves
  BY <1>24 DEF Crash
<1>25. ASSUME NEW t \in Requests, NEW s \in Sessions, NEW r \in Replicas,
              Begin(t, s, r)
       PROVE  Moves
  BY <1>25 DEF Begin
<1>26. CASE UNCHANGED vars
  BY <1>26 DEF vars, store, locks, pruner, plans
<1> QED
  BY <1>1, <1>2, <1>3, <1>4, <1>5, <1>6, <1>7, <1>8, <1>9, <1>10, <1>11, <1>12, <1>13,
     <1>14, <1>15, <1>16, <1>17, <1>18, <1>19, <1>20, <1>21, <1>22, <1>23, <1>24, <1>25,
     <1>26
     DEF Next, TaskStep, LockStep, TurnStep, BriefStep, DeleteStep, Mishap

\* What a deletion holds is settled once and for all: a section that dies while the
\* deletion has the lock is one whose research had sunk.
LEMMA HeldIsNotWritten ==
    ASSUME IInv, [Next]_vars, NEW d \in Deletes, Inside(d), NEW c \in Sessions, Settled(c)',
           c = on[d] \/ (c \in Kids /\ Begun(c) /\ Parent(c) = on[d])
    PROVE  Settled(c) /\ \A t \in Tasks : ~Writer(t, c)
<1>1. d \in Tasks /\ Begun(d)
  BY DEF Tasks, Requests, Begun, Inside, Working, Closing
<1>2. CASE c \in Tops
  <2>1. c = on[d]
    BY <1>2, SessionsAssumption
  <2> QED
    BY <1>2, <2>1, DeletionAlone DEF Settled, Writer
<1>3. CASE c \in Kids
  <2>1. ~(Busy(c) /\ Waits(by[c]))
    BY <1>1, <1>3, DeletionAlone DEF IInv, SectionInv, Requests, Busy, Over, Waits
  <2>2. Settled(c) /\ step[c] = "killed"
    BY <1>3, <2>1, SettledLasts
  <2> QED
    BY <1>3, <2>2, SettledIsNotWritten
<1> QED
  BY <1>2, <1>3 DEF Sessions

\* At each of its steps a deletion has removed what it will not come back to.
LEMMA StepDelete == IInv /\ [Next]_vars => DeleteInv'
<1> SUFFICES ASSUME IInv, [Next]_vars, NEW d \in Deletes, step'[d] \in Deleting \cup {"leaving"}
             PROVE  ToRemove(d)' /\ LeftOut(d)' /\ Removing(d)' /\ Finished(d)'
  BY DEF DeleteInv, ToRemove, LeftOut, Removing, Finished, Deleting
<1>1. OwnStep(d) \/ (step'[d] = step[d] /\ todo'[d] = todo[d])
  BY DeletionSteps
<1>2. Inside(d) /\ Begun(d) /\ d \in Tasks
  BY <1>1 DEF OwnStep, ListOwned, DropCheckpoints, DropRow, DropDirectory, Inside, Begun,
              Working, Closing, Deleting, Tasks, Requests
<1>3. on'[d] = on[d] /\ on[d] \in Sessions
  BY <1>2, WhatLasts DEF IInv, TaskInv
<1>4. TypeOK /\ DeleteInv /\ RowInv
  BY DEF IInv
<1>5. DropDirectory(d) => todo'[d] = todo[d] \ {Current(d)}
  BY <1>4 DEF DropDirectory, TypeOK
<1>6. DropDirectory(d) => step'[d] = IF Current(d) = on[d] THEN "leaving" ELSE "checkpoints"
  BY <1>2, <1>4 DEF DropDirectory, Goto, TypeOK
<1>7. ~ListOwned(d) => step[d] \in Deleting \cup {"leaving"}
  BY <1>1 DEF OwnStep, DropCheckpoints, DropRow, DropDirectory, Deleting
<1>8. ~ListOwned(d) /\ ~DropDirectory(d) => todo'[d] = todo[d] /\ Current(d)' = Current(d)
  <2> SUFFICES ASSUME ~ListOwned(d), ~DropDirectory(d)
               PROVE  todo'[d] = todo[d] /\ Current(d)' = Current(d)
    OBVIOUS
  <2>1. todo'[d] = todo[d]
    BY <1>1 DEF OwnStep, DropCheckpoints, DropRow, plans
  <2>2. Current(d)' = Current(d)
    BY <2>1, <1>3 DEF Current
  <2> QED
    BY <2>1, <2>2
<1>9. ListOwned(d) => /\ todo'[d] = {on[d]} \cup {k \in Kids \cap Live : Parent(k) = on[d]}
                      /\ step'[d] = "checkpoints"
  BY <1>2, <1>4 DEF ListOwned, Goto, TypeOK
<1>10. \A k \in Kids \cap Live : Begun(k)
  BY <1>4 DEF RowInv, Live
<1>11. ToRemove(d)'
  <2>1. CASE ListOwned(d)
    BY <2>1, <1>3, <1>9, <1>10, FamilyLasts, WhatLasts DEF ToRemove, Tasks
  <2>2. ASSUME ~ListOwned(d), step'[d] \in Deleting PROVE ToRemove(d)'
    <3>1. step[d] \in Deleting
      BY <2>2, <1>1 DEF OwnStep, DropCheckpoints, DropRow, DropDirectory, Deleting
    <3>2. todo'[d] \subseteq todo[d] /\ on[d] \in todo'[d]
      BY <2>2, <3>1, <1>4, <1>5, <1>6, <1>8 DEF DeleteInv, ToRemove, Deleting
    <3>3. \A s \in todo[d] : s = on[d] \/ (s \in Kids /\ Begun(s) /\ Parent(s) = on[d])
      BY <3>1, <1>4 DEF DeleteInv, ToRemove
    <3> QED
      BY <3>2, <3>3, <1>3, FamilyLasts, WhatLasts DEF ToRemove, Tasks
  <2> QED
    BY <2>1, <2>2 DEF ToRemove
<1>12. LeftOut(d)'
  <2> SUFFICES ASSUME NEW k \in Kids, k \in Live', Parent(k)' = on[d], k \notin todo'[d]
               PROVE  step'[by'[k]] = "sunk"
    BY <1>3 DEF LeftOut
  <2>1. CASE k \in Live
    <3>1. Begun(k) /\ Parent(k) = on[d]
      BY <2>1, <1>10, FamilyLasts
    <3>2. ~ListOwned(d)
      BY <2>1, <3>1, <1>9
    <3>3. k \notin todo[d]
      BY <2>1, <3>2, <1>4, <1>5, <1>8 DEF DropDirectory, DeleteInv, Removing
    <3>4. step[by[k]] = "sunk"
      BY <2>1, <3>1, <3>2, <3>3, <1>4, <1>7 DEF DeleteInv, LeftOut
    <3> QED
      BY <3>1, <3>4, FamilyLasts
  <2>2. CASE k \notin Live
    <3>1. PICK b \in Briefs : CreateSection(b, k)
      BY <2>2, StepStore DEF StoreChanges, Live, Sessions
    <3>2. b \in Tasks /\ k \in Tasks /\ b # k
      BY SessionsAssumption DEF Tasks, Requests
    <3>3. by'[k] = b /\ on'[b] = on[b] /\ step'[b] = step[b]
      BY <3>1, <3>2, <1>4 DEF CreateSection, Goto, TypeOK
    <3>4. on[b] = on[d]
      BY <3>3 DEF Parent
    <3>5. pending[b] > 0
      BY <3>1 DEF CreateSection
    <3> QED
      BY <3>3, <3>4, <3>5, <1>2, DeletionAlone DEF IInv, SectionInv
  <2> QED
    BY <2>1, <2>2
<1>13. Removing(d)'
  <2> SUFFICES ASSUME step'[d] \in {"row", "directory"} PROVE Removing(d)'
    BY DEF Removing
  <2>1. ~ListOwned(d) /\ ~DropDirectory(d) /\ step[d] \in Deleting
    BY <1>1, <1>6, <1>9 DEF OwnStep, DropCheckpoints, DropRow, Deleting
  <2>2. PICK c \in Sessions : c = Current(d) /\ c = Current(d)'
    BY <2>1, <1>8, CurrentIsOwned
  <2>3. c = on[d] \/ (c \in Kids /\ Begun(c) /\ Parent(c) = on[d])
    BY <2>1, <2>2, CurrentIsOwned
  <2>4. Settled(c)' => Settled(c) /\ \A t \in Tasks : ~Writer(t, c)
    BY <2>3, <1>2, HeldIsNotWritten
  <2>5. row[c] # "unborn"
    BY <2>3, <1>2, <1>4 DEF RowInv, Requests
  <2>6. ASSUME step'[d] = "row", Settled(c)' PROVE c \notin checkpoints'
    <3>1. CASE DropCheckpoints(d)
      BY <3>1, <2>2 DEF DropCheckpoints
    <3>2. CASE step[d] = "row"
      <4>1. c \notin checkpoints
        BY <3>2, <2>2, <2>4, <2>6, <1>4 DEF DeleteInv, Removing
      <4> QED
        BY <4>1, <2>4, <2>6, StepStore DEF StoreChanges
    <3> QED
      BY <2>1, <2>6, <3>1, <3>2, <1>1, <1>2, <1>4 DEF OwnStep, DropRow, Goto, TypeOK
  <2>7. ASSUME step'[d] = "directory"
        PROVE  c \notin Live' /\ (Settled(c)' => Removed(c)')
    <3>1. CASE DropRow(d)
      <4>1. row'[c] # "live" /\ c \notin transcripts'
        BY <3>1, <2>2, <2>5, <1>4 DEF DropRow, TypeOK
      <4>2. Settled(c) => c \notin checkpoints'
        BY <3>1, <2>2, <1>4 DEF DropRow, DeleteInv, Removing
      <4> QED
        BY <4>1, <4>2, <2>4 DEF Live, Removed
    <3>2. CASE step[d] = "directory"
      <4>1. c \notin Live /\ (Settled(c) => Removed(c))
        BY <3>2, <2>2, <1>4 DEF DeleteInv, Removing
      <4>2. c \notin Live'
        BY <4>1, <2>5, StepStore DEF StoreChanges, Live
      <4> QED
        BY <4>1, <4>2, <2>4, StepStore DEF StoreChanges, Removed
    <3> QED
      BY <2>1, <2>7, <3>1, <3>2, <1>1, <1>2, <1>4 DEF OwnStep, DropCheckpoints, Goto, TypeOK
  <2> QED
    BY <2>2, <2>6, <2>7 DEF Removing
<1>14. Finished(d)'
  <2> SUFFICES ASSUME step'[d] = "leaving"
               PROVE  /\ todo'[d] = {}
                      /\ on[d] \in Tops => Removed(on[d])'
                      /\ on[d] \in Tops \cap dirs' => "rating" \in spent'
    BY <1>3 DEF Finished
  <2>1. CASE DropDirectory(d)
    <3>1. step[d] = "directory" /\ Current(d) = on[d]
      BY <2>1, <1>6 DEF DropDirectory
    <3>2. todo[d] = {on[d]}
      BY <3>1, CurrentIsOwned DEF Deleting
    <3>3. on[d] \in Tops => Removed(on[d])
      BY <3>1, <1>4 DEF DeleteInv, Removing, Settled
    <3>4. on[d] \notin dirs' /\ UNCHANGED <<row, checkpoints, transcripts>>
      BY <2>1, <3>1 DEF DropDirectory
    <3> QED
      BY <2>1, <3>1, <3>2, <3>3, <3>4, <1>3, <1>5 DEF Removed, Live
  <2>2. CASE step[d] = "leaving"
    <3>1. todo'[d] = todo[d]
      BY <2>2, <1>1 DEF OwnStep, ListOwned, DropCheckpoints, DropRow, DropDirectory
    <3>2. todo[d] = {}
      BY <2>2, <1>4 DEF DeleteInv, Finished
    <3>3. ASSUME on[d] \in Tops
          PROVE  Removed(on[d])' /\ (on[d] \in dirs' => "rating" \in spent')
      <4>1. \A t \in Tasks : ~Writer(t, on[d])
        BY <1>2, DeletionAlone DEF Writer
      <4>2. Removed(on[d]) /\ (on[d] \in dirs => "rating" \in spent)
        BY <2>2, <3>3, <1>4 DEF DeleteInv, Finished
      <4>3. row[on[d]] # "unborn"
        BY <1>2, <1>4 DEF RowInv, Requests
      <4>4. on[d] \notin Live'
        BY <4>2, <4>3, <1>3, StepStore DEF StoreChanges, Removed, Live
      <4>5. on[d] \notin checkpoints' \cup transcripts'
        BY <4>1, <4>2, <1>3, StepStore DEF StoreChanges, Removed
      <4>6. on[d] \in dirs' => "rating" \in spent'
        BY <4>1, <4>2, <1>3, StepStore, StepRating DEF StoreChanges
      <4> QED
        BY <4>4, <4>5, <4>6, <1>3 DEF Removed
    <3> QED
      BY <3>1, <3>2, <3>3
  <2> QED
    BY <2>1, <2>2, <1>1, <1>2, <1>4 DEF OwnStep, ListOwned, DropCheckpoints, DropRow, Goto,
                                        TypeOK
<1> QED
  BY <1>11, <1>12, <1>13, <1>14

-----------------------------------------------------------------------------
\* Every step preserves the invariant, so it always holds.
LEMMA StepIInv == IInv /\ [Next]_vars => IInv'
BY StepType, StepTask, StepSection, StepLocks, StepRow, StepChildren, StepKilled, StepDelete,
   StepRating DEF IInv

LEMMA AlwaysIInv == Spec => []IInv
BY InitIInv, StepIInv, PTL DEF Spec

-----------------------------------------------------------------------------
\* Every variable keeps its type: no pool counts below zero, and a delete, a section and a
\* lock are always about sessions that exist.
THEOREM TypeCorrect == Spec => []TypeOK
<1>1. IInv => TypeOK
  BY DEF IInv
<1> QED
  BY <1>1, AlwaysIInv, PTL

\* On either backend, with any number of replicas, sessions and colliding keys: one task at a
\* time is inside the lock of a session, and every local lock, pool connection and advisory
\* lock has one owner that gives it back, whatever times out, raises or dies.
THEOREM SessionsAreExclusive == Spec => []LocksExclude
<1>1. IInv => LocksExclude
  <2> SUFFICES ASSUME IInv PROVE LocksExclude
    OBVIOUS
  <2>1. OneTaskPerSession
    BY Exclusion DEF IInv
  <2>2. \A t \in Tasks : HasLocal(t) => on[t] \in Sessions
    BY DEF IInv, TaskInv, HasLocal, Inside, Begun, Working, Closing
  <2>3. \A r \in Replicas :
          locked[r] = {on[t] : t \in {u \in Tasks : HasLocal(u) /\ at[u] = r}}
    BY <2>2 DEF IInv, LockInv, TypeOK
  <2>4. LocksAreOwned
    BY <2>3 DEF IInv, LockInv, LocksAreOwned, Connections
  <2> QED
    BY <2>1, <2>4 DEF LocksExclude
<1> QED
  BY <1>1, AlwaysIInv, PTL

\* A deletion that has the lock takes the row and the checkpoints of no turn that relies on
\* that lock or on the one its research holds.
LEMMA DeletionSparesTurns ==
    ASSUME IInv, NEW d \in Deletes, step[d] \in Deleting, NEW t \in Tasks, Protected(t)
    PROVE  Current(d) # on[t]
<1>1. /\ Inside(d)
      /\ \/ Current(d) = on[d]
         \/ Current(d) \in Kids /\ Begun(Current(d)) /\ Parent(Current(d)) = on[d]
  BY CurrentIsOwned
<1>2. Begun(d)
  BY DEF Begun, Deleting
<1>3. CASE t \in Chats /\ on[t] \in Tops /\ step[t] \in {"asked", "running"}
  <2>1. Inside(t) /\ t # d
    BY <1>3, SessionsAssumption DEF Inside, Working
  <2> QED
    BY <1>1, <1>3, <2>1, DeletionAlone, SessionsAssumption
<1>4. CASE t \in Kids /\ step[t] \in {"in", "running"} /\ step[by[t]] = "briefing"
  <2>1. Busy(t) /\ on[t] = t
    BY <1>4 DEF Busy, Begun, Over, IInv, SectionInv
  <2>2. Parent(t) # on[d]
    BY <1>1, <1>4, <2>1, DeletionAlone
  <2>3. on[d] # t
    BY <1>2, <1>4 DEF IInv, SectionInv, Requests
  <2> QED
    BY <1>1, <2>1, <2>2, <2>3
<1> QED
  BY <1>3, <1>4 DEF Protected

\* What takes a row or checkpoints: a deletion, or the maintenance script of a session on its
\* list.
LEMMA WhatIsTaken ==
    IInv /\ [Next]_vars =>
        \A s \in Sessions :
            (s \in Live \ Live' \/ s \in checkpoints \ checkpoints') =>
                s \in stale \/ \E d \in Deletes : step[d] \in Deleting /\ Current(d) = s
<1> DEFINE Taken ==
        \A s \in Sessions :
            (s \in Live \ Live' \/ s \in checkpoints \ checkpoints') =>
                s \in stale \/ \E d \in Deletes : step[d] \in Deleting /\ Current(d) = s
<1> SUFFICES ASSUME IInv, [Next]_vars PROVE Taken
  OBVIOUS
<1> USE DEF IInv, TypeOK, TaskInv, Live, Deleting, Sessions, Requests, Tasks, DeleteSteps,
        ChatSteps, BriefSteps, SectionSteps, Waiting, store, locks, plans, pruner
<1>1. ASSUME NEW t \in Tasks, TakeLocal(t) PROVE Taken
  BY <1>1 DEF TakeLocal
<1>2. ASSUME NEW t \in Tasks, Connect(t) PROVE Taken
  BY <1>2 DEF Connect
<1>3. ASSUME NEW t \in Tasks, PoolTimeout(t) PROVE Taken
  BY <1>3 DEF PoolTimeout
<1>4. ASSUME NEW t \in Tasks, Acquire(t) PROVE Taken
  BY <1>4 DEF Acquire
<1>5. ASSUME NEW t \in Tasks, Leave(t) PROVE Taken
  BY <1>5 DEF Leave
<1>6. ASSUME NEW t \in Tasks, Open(t) PROVE Taken
  BY <1>6 DEF Open
<1>7. ASSUME NEW t \in Tasks, StartTurn(t) PROVE Taken
  BY <1>7 DEF StartTurn
<1>8. ASSUME NEW t \in Tasks, FinishTurn(t) PROVE Taken
  BY <1>8 DEF FinishTurn
<1>9. ASSUME NEW t \in Tasks, Record(t) PROVE Taken
  BY <1>9 DEF Record
<1>10. ASSUME NEW b \in Briefs, Plan(b) PROVE Taken
  BY <1>10 DEF Plan
<1>11. ASSUME NEW b \in Briefs, NEW k \in Kids, CreateSection(b, k) PROVE Taken
  BY <1>11 DEF CreateSection
<1>12. ASSUME NEW b \in Briefs, Compile(b) PROVE Taken
  BY <1>12 DEF Compile
<1>13. ASSUME NEW d \in Deletes, ListOwned(d) PROVE Taken
  BY <1>13 DEF ListOwned
<1>14. ASSUME NEW d \in Deletes, DropCheckpoints(d) PROVE Taken
  <2>1. d \in Deletes /\ step[d] = "checkpoints" /\ checkpoints' = checkpoints \ {Current(d)}
        /\ row' = row
    BY <1>14 DEF DropCheckpoints
  <2> QED
    BY <2>1
<1>15. ASSUME NEW d \in Deletes, DropRow(d) PROVE Taken
  <2>1. PICK c : c = Current(d)
    OBVIOUS
  <2>2. step[d] = "row" /\ row' = [row EXCEPT ![c] = IF @ = "live" THEN "deleted" ELSE @]
        /\ checkpoints' = checkpoints
    BY <1>15, <2>1 DEF DropRow
  <2> QED
    BY <2>1, <2>2
<1>16. ASSUME NEW d \in Deletes, DropDirectory(d) PROVE Taken
  BY <1>16 DEF DropDirectory
<1>17. ASSUME NEW b \in Briefs, CreateFails(b) PROVE Taken
  BY <1>17 DEF CreateFails
<1>18. ASSUME NEW s \in Tops, CreateSession(s) PROVE Taken
  BY <1>18 DEF CreateSession
<1>19. ASSUME NEW s \in Sessions, ReadTrace(s) PROVE Taken
  BY <1>19 DEF ReadTrace
<1>20. ASSUME NEW s \in Sessions, WriteFeedback(s) PROVE Taken
  BY <1>20 DEF WriteFeedback
<1>21. ASSUME NEW s \in Sessions, PruneSession(s) PROVE Taken
  BY <1>21 DEF PruneSession
<1>22. ASSUME NEW S \in SUBSET Ageing, PruneList(S) PROVE Taken
  BY <1>22 DEF PruneList
<1>23. CASE PruneCheckpoints
  BY <1>23 DEF PruneCheckpoints
<1>24. ASSUME NEW r \in Replicas, Crash(r) PROVE Taken
  BY <1>24 DEF Crash
<1>25. ASSUME NEW t \in Requests, NEW s \in Sessions, NEW r \in Replicas,
              Begin(t, s, r)
       PROVE  Taken
  BY <1>25 DEF Begin
<1>26. CASE UNCHANGED vars
  BY <1>26 DEF vars, store, locks, pruner, plans
<1> QED
  BY <1>1, <1>2, <1>3, <1>4, <1>5, <1>6, <1>7, <1>8, <1>9, <1>10, <1>11, <1>12, <1>13,
     <1>14, <1>15, <1>16, <1>17, <1>18, <1>19, <1>20, <1>21, <1>22, <1>23, <1>24, <1>25,
     <1>26
     DEF Next, TaskStep, LockStep, TurnStep, BriefStep, DeleteStep, Mishap

\* "so a running graph never loses its checkpoint underneath it", for the turns that rely on
\* the lock of a session or of the chat above it, but for the maintenance script.
THEOREM TurnsKeepTheirSession == Spec => TurnKeepsItsSession
<1>1. IInv /\ [Next]_vars =>
        \A t \in Tasks : Protected(t) /\ Protected(t)' /\ on[t] \notin stale =>
            /\ on[t] \in Live => on[t] \in Live'
            /\ on[t] \in checkpoints => on[t] \in checkpoints'
  <2> SUFFICES ASSUME IInv, [Next]_vars, NEW t \in Tasks, Protected(t), on[t] \notin stale
               PROVE  /\ on[t] \in Live => on[t] \in Live'
                      /\ on[t] \in checkpoints => on[t] \in checkpoints'
    OBVIOUS
  <2>1. on[t] \in Sessions
    BY DEF Protected, IInv, TaskInv, Begun
  <2> QED
    BY <2>1, WhatIsTaken, DeletionSparesTurns
<1> QED
  BY <1>1, AlwaysIInv, PTL DEF Spec, TurnKeepsItsSession

\* Whatever interrupts a deletion, no child session outlives its chat, and when it returns
\* nothing is left of the session and of the sections that died with it, but what the
\* property names: sections of a research that sank, sessions the maintenance script took and
\* directories that feedback recreated.
THEOREM DeletionsAreWhole == Spec => DeletionIsWhole
<1> DEFINE Returned ==
        \A d \in Deletes : step[d] = "leaving" /\ step'[d] = "ended" =>
            /\ on[d] \in Tops => /\ Removed(on[d])
                                 /\ on[d] \in dirs => "rating" \in spent
            /\ \A k \in Kids : /\ step[k] = "killed" /\ Parent(k) = on[d]
                               /\ step[by[k]] # "sunk" /\ row[k] # "pruned"
                              => Removed(k)
<1>1. IInv => Returned
  <2> SUFFICES ASSUME IInv, NEW d \in Deletes, step[d] = "leaving"
               PROVE  /\ on[d] \in Tops => /\ Removed(on[d])
                                           /\ on[d] \in dirs => "rating" \in spent
                      /\ \A k \in Kids : /\ step[k] = "killed" /\ Parent(k) = on[d]
                                         /\ step[by[k]] # "sunk" /\ row[k] # "pruned"
                                        => Removed(k)
    OBVIOUS
  <2>1. LeftOut(d) /\ Finished(d)
    BY DEF IInv, DeleteInv
  <2>2. ASSUME NEW k \in Kids, step[k] = "killed", Parent(k) = on[d],
               step[by[k]] # "sunk", row[k] # "pruned"
        PROVE  Removed(k)
    <3>1. k \notin Live
      BY <2>1, <2>2 DEF LeftOut, Finished
    <3>2. row[k] = "deleted"
      BY <2>2, <3>1 DEF IInv, TypeOK, RowInv, Begun, Live, Sessions
    <3> QED
      BY <2>2, <3>2 DEF IInv, KilledInv, Settled
  <2> QED
    BY <2>1, <2>2 DEF Finished
<1>2. IInv' => ChildrenGoFirst'
  BY DEF IInv
<1>3. IInv /\ IInv' /\ [Next]_vars => ChildrenGoFirst' /\ Returned
  BY <1>1, <1>2
<1> QED
  BY <1>3, AlwaysIInv, StepIInv, PTL DEF Spec, DeletionIsWhole

=============================================================================
