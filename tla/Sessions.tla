------------------------------- MODULE Sessions -------------------------------
(***************************************************************************)
(* Sessions of the agent and the requests that use them: AgentService      *)
(* (chat, research, delete_session, record_feedback), the two state        *)
(* backends behind it (SqliteStateBackend: one process, asyncio locks;     *)
(* PostgresStateBackend: any number of replicas, a local lock, then a      *)
(* connection of a bounded pool, then an advisory lock), TraceStore, and   *)
(* the maintenance script prune_checkpoints, which takes no lock.          *)
(*                                                                         *)
(* A task is a request, or one section of a research request.  A section   *)
(* is named after the child session it creates: no other section ever      *)
(* runs on that session.  A request is used once.                          *)
(***************************************************************************)
EXTENDS Naturals, FiniteSets

CONSTANTS
    Tops,         \* sessions a client creates
    Kids,         \* child sessions, and the sections of a research that run on them
    Chats,        \* chat requests
    Briefs,       \* research requests
    Deletes,      \* delete requests
    Replicas,     \* API processes
    Twins,        \* sessions whose IDs start with the same 32 bits
    NoTask,       \* nobody holds the advisory lock
    NoSession,    \* a task that has no session yet
    Backends,     \* the backends to consider: "sqlite", "postgres"
    PoolSize,     \* lock connections of a replica
    MaxSections,  \* MAX_RESEARCH_SECTIONS
    Concurrency,  \* RESEARCH_SECTION_CONCURRENCY
    Mishaps,      \* which of MishapKinds may happen, each once
    MaxMishaps,   \* bound: how many of them in one behaviour
    Ageing        \* bound: sessions the maintenance script may find stale, or feedback rate

Sessions == Tops \cup Kids
Requests == Chats \cup Briefs \cup Deletes
Tasks == Requests \cup Kids

\* A replica is killed, sessions.create raises, a feedback request, a run of the
\* maintenance script.
MishapKinds == {"crash", "fault", "rating", "prune"}

ASSUME SessionsAssumption ==
    /\ Tops \cap Kids = {} /\ NoSession \notin Sessions
    /\ Kids \cap Requests = {} /\ NoTask \notin Tasks
    /\ Chats \cap Briefs = {} /\ Chats \cap Deletes = {} /\ Briefs \cap Deletes = {}
    /\ Replicas # {} /\ Twins \subseteq Sessions
    /\ Backends \subseteq {"sqlite", "postgres"}
    /\ PoolSize \in Nat \ {0} /\ Concurrency \in Nat \ {0} /\ MaxSections \in Nat
    /\ Mishaps \subseteq MishapKinds /\ MaxMishaps \in Nat /\ Ageing \subseteq Sessions

VARIABLES
    backend,      \* which StateBackend the settings chose
    row,          \* app_sessions: "unborn", "live", "deleted" by a request, "pruned"
    checkpoints,  \* sessions whose thread has checkpoints
    transcripts,  \* sessions with rows in app_messages
    dirs,         \* sessions with a directory under workspace/sessions
    step,         \* what each task is doing
    on,           \* the session it does it to
    at,           \* the replica it runs in
    by,           \* the research a section belongs to
    pending,      \* sections of a research that have not created their session
    todo,         \* sessions a delete has yet to remove
    locked,       \* per replica, the sessions whose local asyncio lock is taken
    inUse,        \* per replica, the lock connections taken from the pool
    held,         \* the holder of each advisory lock
    rating,       \* sessions of the traces a feedback request has read
    stale,        \* sessions the maintenance script listed and has yet to remove
    cleared,      \* it has removed their checkpoints
    spent         \* the mishaps there were

store == <<row, checkpoints, transcripts, dirs>>
locks == <<locked, inUse, held>>
pruner == <<stale, cleared>>
plans == <<by, pending, todo>>
vars == <<backend, store, step, on, at, plans, locks, rating, pruner, spent>>

\* The first 32 bits of a session ID.
Key(s) == IF s \in Twins THEN "twin" ELSE s
Keys == {Key(s) : s \in Sessions}

\* SQLite serves exactly one API process, Home.
Home == CHOOSE r \in Replicas : TRUE
Serving == IF backend = "sqlite" THEN {Home} ELSE Replicas

Live == {s \in Sessions : row[s] = "live"}

Waiting == {"queued", "connecting", "waiting"}
Working == {"in", "asked", "running", "recording", "briefing", "checkpoints", "row",
            "directory"}
Closing == {"leaving", "sinking"}
Over == {"ended", "shown", "sunk", "killed"}
Steps == {"new"} \cup Waiting \cup Working \cup Closing \cup Over

\* The task is inside `async with session_lock(session_id)`.
Inside(t) == step[t] \in Working \cup Closing
HasLocal(t) == Inside(t) \/ step[t] \in {"connecting", "waiting"}
HasConnection(t) == backend = "postgres" /\ (Inside(t) \/ step[t] = "waiting")

Parent(k) == on[by[k]]
SectionsOf(b) == {k \in Kids : by[k] = b}

TypeOK ==
    /\ backend \in Backends
    /\ row \in [Sessions -> {"unborn", "live", "deleted", "pruned"}]
    /\ checkpoints \subseteq Sessions
    /\ transcripts \subseteq Sessions
    /\ dirs \subseteq Sessions
    /\ step \in [Tasks -> Steps]
    /\ on \in [Tasks -> Sessions \cup {NoSession}]
    /\ at \in [Tasks -> Replicas]
    /\ by \in [Kids -> Briefs \cup {NoTask}]
    /\ pending \in [Briefs -> Nat]
    /\ todo \in [Deletes -> SUBSET Sessions]
    /\ locked \in [Replicas -> SUBSET Sessions]
    /\ inUse \in [Replicas -> Nat]
    /\ held \in [Keys -> Tasks \cup {NoTask}]
    /\ rating \subseteq Sessions
    /\ stale \subseteq Sessions
    /\ cleared \in BOOLEAN
    /\ spent \subseteq Mishaps

Init ==
    /\ backend \in Backends
    /\ row = [s \in Sessions |-> "unborn"]
    /\ checkpoints = {} /\ transcripts = {} /\ dirs = {}
    /\ step = [t \in Tasks |-> "new"]
    /\ on = [t \in Tasks |-> NoSession]
    /\ at = [t \in Tasks |-> Home]
    /\ by = [k \in Kids |-> NoTask]
    /\ pending = [b \in Briefs |-> 0]
    /\ todo = [d \in Deletes |-> {}]
    /\ locked = [r \in Replicas |-> {}]
    /\ inUse = [r \in Replicas |-> 0]
    /\ held = [k \in Keys |-> NoTask]
    /\ rating = {} /\ stale = {} /\ cleared = FALSE
    /\ spent = {}

Goto(t, next) == step' = [step EXCEPT ![t] = next]

Happens(x) ==
    /\ x \in Mishaps \ spent
    /\ Cardinality(spent) < MaxMishaps
    /\ spent' = spent \cup {x}

-----------------------------------------------------------------------------
(***************************************************************************)
(* session_lock                                                            *)
(***************************************************************************)
\* The local lock of one replica is taken for the lock of all of them.
TakeLocalOnly(t) ==
    /\ step[t] = "queued"
    /\ on[t] \notin locked[at[t]]
    /\ locked' = [locked EXCEPT ![at[t]] = @ \cup {on[t]}]
    /\ Goto(t, "in")
    /\ UNCHANGED <<backend, store, on, at, plans, inUse, held, rating, pruner, spent>>

\* The local asyncio lock: requests for one session queue here first.
TakeLocal(t) ==
    /\ step[t] = "queued"
    /\ on[t] \notin locked[at[t]]
    /\ locked' = [locked EXCEPT ![at[t]] = @ \cup {on[t]}]
    /\ Goto(t, IF backend = "sqlite" THEN "in" ELSE "connecting")
    /\ UNCHANGED <<backend, store, on, at, plans, inUse, held, rating, pruner, spent>>

Connect(t) ==
    /\ step[t] = "connecting"
    /\ inUse[at[t]] < PoolSize
    /\ inUse' = [inUse EXCEPT ![at[t]] = @ + 1]
    /\ Goto(t, "waiting")
    /\ UNCHANGED <<backend, store, on, at, plans, locked, held, rating, pruner, spent>>

\* A time-out leaves the local lock taken.
PoolTimeoutKeepsLock(t) ==
    /\ step[t] = "connecting"
    /\ inUse[at[t]] = PoolSize
    /\ Goto(t, IF t \in Kids THEN "shown" ELSE "ended")
    /\ UNCHANGED <<backend, store, on, at, plans, locks, rating, pruner, spent>>

\* No connection of the pool came free within lock_wait_seconds: PoolTimeout.  The
\* section it happens to is reported as failed.
PoolTimeout(t) ==
    /\ step[t] = "connecting"
    /\ inUse[at[t]] = PoolSize
    /\ locked' = [locked EXCEPT ![at[t]] = @ \ {on[t]}]
    /\ Goto(t, IF t \in Kids THEN "shown" ELSE "ended")
    /\ UNCHANGED <<backend, store, on, at, plans, inUse, held, rating, pruner, spent>>

\* pg_advisory_lock, which waits without a limit.
Acquire(t) ==
    /\ step[t] = "waiting"
    /\ held[Key(on[t])] = NoTask
    /\ held' = [held EXCEPT ![Key(on[t])] = t]
    /\ Goto(t, "in")
    /\ UNCHANGED <<backend, store, on, at, plans, locked, inUse, rating, pruner, spent>>

\* The connection goes back to the pool with its advisory lock still held.
LeaveKeepsAdvisory(t) ==
    /\ step[t] \in Closing
    /\ locked' = [locked EXCEPT ![at[t]] = @ \ {on[t]}]
    /\ inUse' = [inUse EXCEPT ![at[t]] = IF backend = "postgres" THEN @ - 1 ELSE @]
    /\ Goto(t, CASE step[t] = "sinking" -> "sunk"
                 [] t \in Kids -> "shown"
                 [] OTHER -> "ended")
    /\ UNCHANGED <<backend, store, on, at, plans, held, rating, pruner, spent>>

\* Unlock, return the connection, release the local lock.  A section is then reported
\* to the client with its session ID (section_done).
Leave(t) ==
    /\ step[t] \in Closing
    /\ locked' = [locked EXCEPT ![at[t]] = @ \ {on[t]}]
    /\ IF backend = "postgres"
       THEN /\ inUse' = [inUse EXCEPT ![at[t]] = @ - 1]
            /\ held' = [held EXCEPT ![Key(on[t])] = NoTask]
       ELSE UNCHANGED <<inUse, held>>
    /\ Goto(t, CASE step[t] = "sinking" -> "sunk"
                 [] t \in Kids -> "shown"
                 [] OTHER -> "ended")
    /\ UNCHANGED <<backend, store, on, at, plans, rating, pruner, spent>>

-----------------------------------------------------------------------------
(***************************************************************************)
(* Requests                                                                *)
(***************************************************************************)
CreateSession(s) ==
    /\ row[s] = "unborn"
    /\ row' = [row EXCEPT ![s] = "live"]
    /\ UNCHANGED <<backend, checkpoints, transcripts, dirs, step, on, at, plans, locks,
                   rating, pruner, spent>>

\* The session IDs a client has been told.
Known == {s \in Tops : row[s] # "unborn"} \cup {k \in Kids : step[k] = "shown"}

\* A request reaches a replica.  delete_session looks the session up before it asks for
\* the lock; chat and research look it up inside.  Replicas are alike: the first request
\* goes to Home.
Begin(t, s, r) ==
    /\ step[t] = "new"
    /\ s \in Known /\ r \in Serving
    /\ (\A u \in Requests : step[u] = "new") => r = Home
    /\ on' = [on EXCEPT ![t] = s]
    /\ at' = [at EXCEPT ![t] = r]
    /\ Goto(t, IF t \in Deletes /\ s \notin Live THEN "ended" ELSE "queued")
    /\ UNCHANGED <<backend, store, plans, locks, rating, pruner, spent>>

\* A message is stored.  The foreign key of Postgres refuses a message of a session that is
\* gone; SQLite has no such key.
SqliteAppend(s) == transcripts \cup {s}
PostgresAppend(s) == IF s \in Live THEN transcripts \cup {s} ELSE transcripts
AppendMessage(s) ==
    transcripts' = IF backend = "sqlite" THEN SqliteAppend(s) ELSE PostgresAppend(s)

\* sessions.get, then append_user_message.
Open(t) ==
    /\ t \in Chats \cup Briefs
    /\ step[t] = "in"
    /\ IF on[t] \in Live
       THEN /\ AppendMessage(on[t])
            /\ Goto(t, "asked")
       ELSE /\ Goto(t, "leaving")
            /\ UNCHANGED transcripts
    /\ UNCHANGED <<backend, row, checkpoints, dirs, on, at, plans, locks, rating, pruner, spent>>

\* _chat_turn looks the session up again and the graph writes its first checkpoint.
StartTurn(t) ==
    /\ \/ t \in Chats /\ step[t] = "asked"
       \/ t \in Kids /\ step[t] = "in"
    /\ IF on[t] \in Live
       THEN /\ checkpoints' = checkpoints \cup {on[t]}
            /\ Goto(t, "running")
       ELSE /\ Goto(t, IF t \in Chats THEN "recording" ELSE "leaving")
            /\ UNCHANGED checkpoints
    /\ UNCHANGED <<backend, row, transcripts, dirs, on, at, plans, locks, rating, pruner, spent>>

\* The graph writes its last checkpoint; the turn writes its trace, unless something
\* other than an operational error ended it.
FinishTurn(t) ==
    /\ step[t] = "running"
    /\ checkpoints' = checkpoints \cup {on[t]}
    /\ \E traced \in BOOLEAN : dirs' = IF traced THEN dirs \cup {on[t]} ELSE dirs
    /\ Goto(t, IF t \in Chats THEN "recording" ELSE "leaving")
    /\ UNCHANGED <<backend, row, transcripts, on, at, plans, locks, rating, pruner, spent>>

\* append_assistant_message: the answer, the error or the report.  A refusal of the database
\* is swallowed.
Record(t) ==
    /\ step[t] = "recording"
    /\ AppendMessage(on[t])
    /\ Goto(t, "leaving")
    /\ UNCHANGED <<backend, row, checkpoints, dirs, on, at, plans, locks, rating, pruner, spent>>

-----------------------------------------------------------------------------
(***************************************************************************)
(* Research                                                                *)
(***************************************************************************)
\* Planning fails, and the failure is recorded; or there are n sections.
Plan(b) ==
    /\ b \in Briefs /\ step[b] = "asked"
    /\ \/ Goto(b, "recording") /\ UNCHANGED pending
       \/ \E n \in 0..MaxSections :
            /\ pending' = [pending EXCEPT ![b] = n]
            /\ Goto(b, "briefing")
    /\ UNCHANGED <<backend, store, on, at, by, todo, locks, rating, pruner, spent>>

Active(b) == {k \in SectionsOf(b) : step[k] \notin Over}

\* A fresh session ID; which one is drawn first makes no difference.
Fresh == CHOOSE k \in Kids : step[k] = "new"

\* run_section passes the gate, creates its hidden session and queues for its lock.  The
\* sections are tasks of the event loop: they go on when the research has raised.
CreateSection(b, k) ==
    /\ pending[b] > 0
    /\ Cardinality(Active(b)) < Concurrency
    /\ step[k] = "new" /\ k = Fresh
    /\ row' = [row EXCEPT ![k] = "live"]
    /\ by' = [by EXCEPT ![k] = b]
    /\ pending' = [pending EXCEPT ![b] = @ - 1]
    /\ on' = [on EXCEPT ![k] = k]
    /\ at' = [at EXCEPT ![k] = at[b]]
    /\ Goto(k, "queued")
    /\ UNCHANGED <<backend, checkpoints, transcripts, dirs, todo, locks, rating, pruner, spent>>

\* sessions.create raises, outside the try of run_section: gather raises in research,
\* which leaves without a report, and does not cancel the other sections.
CreateFails(b) ==
    /\ pending[b] > 0
    /\ Cardinality(Active(b)) < Concurrency
    /\ pending' = [pending EXCEPT ![b] = @ - 1]
    /\ IF step[b] = "briefing" THEN Goto(b, "sinking") ELSE UNCHANGED step
    /\ Happens("fault")
    /\ UNCHANGED <<backend, store, on, at, by, todo, locks, rating, pruner>>

\* Every section has returned: the report.
Compile(b) ==
    /\ b \in Briefs /\ step[b] = "briefing"
    /\ pending[b] = 0 /\ Active(b) = {}
    /\ Goto(b, "recording")
    /\ UNCHANGED <<backend, store, on, at, plans, locks, rating, pruner, spent>>

-----------------------------------------------------------------------------
(***************************************************************************)
(* delete_session, inside the lock                                         *)
(***************************************************************************)
\* The session and its child sessions as they are now.
ListOwned(d) ==
    /\ d \in Deletes /\ step[d] = "in"
    /\ todo' = [todo EXCEPT ![d] = {on[d]} \cup {k \in Kids \cap Live : Parent(k) = on[d]}]
    /\ Goto(d, "checkpoints")
    /\ UNCHANGED <<backend, store, on, at, by, pending, locks, rating, pruner, spent>>

\* The session first.
CurrentParentFirst(d) == IF on[d] \in todo[d] THEN on[d] ELSE CHOOSE s \in todo[d] : TRUE

\* Child sessions in any order, then the session itself.
Current(d) == IF todo[d] = {on[d]} THEN on[d] ELSE CHOOSE s \in todo[d] : s # on[d]

DropCheckpoints(d) ==
    /\ step[d] = "checkpoints"
    /\ checkpoints' = checkpoints \ {Current(d)}
    /\ Goto(d, "row")
    /\ UNCHANGED <<backend, row, transcripts, dirs, on, at, plans, locks, rating, pruner, spent>>

\* sessions.delete: the row, and with it the messages.
DropRow(d) ==
    /\ step[d] = "row"
    /\ row' = [row EXCEPT ![Current(d)] = IF @ = "live" THEN "deleted" ELSE @]
    /\ transcripts' = transcripts \ {Current(d)}
    /\ Goto(d, "directory")
    /\ UNCHANGED <<backend, checkpoints, dirs, on, at, plans, locks, rating, pruner, spent>>

DropDirectory(d) ==
    /\ step[d] = "directory"
    /\ dirs' = dirs \ {Current(d)}
    /\ todo' = [todo EXCEPT ![d] = @ \ {Current(d)}]
    /\ Goto(d, IF Current(d) = on[d] THEN "leaving" ELSE "checkpoints")
    /\ UNCHANGED <<backend, row, checkpoints, transcripts, on, at, by, pending, locks,
                   rating, pruner, spent>>

-----------------------------------------------------------------------------
(***************************************************************************)
(* Feedback, the maintenance script, and the death of a replica            *)
(***************************************************************************)
\* record_feedback finds the trace of the run, and then writes beside it.
ReadTrace(s) ==
    /\ s \in dirs \cap Ageing /\ s \notin rating
    /\ rating' = rating \cup {s}
    /\ Happens("rating")
    /\ UNCHANGED <<backend, store, step, on, at, plans, locks, pruner>>

WriteFeedback(s) ==
    /\ s \in rating
    /\ rating' = rating \ {s}
    /\ dirs' = dirs \cup {s}
    /\ UNCHANGED <<backend, row, checkpoints, transcripts, step, on, at, plans, locks,
                   pruner, spent>>

\* stale_session_ids: sessions nobody has touched for days, so none with a request at work.
Untouched == Live \ {on[t] : t \in {u \in Tasks : step[u] \in Working}}

PruneList(S) ==
    /\ stale = {} /\ S # {}
    /\ S \subseteq Untouched
    /\ stale' = S
    /\ Happens("prune")
    /\ UNCHANGED <<backend, store, step, on, at, plans, locks, rating, cleared>>

\* First the checkpoints of all of them.
PruneCheckpoints ==
    /\ stale # {} /\ ~cleared
    /\ checkpoints' = checkpoints \ stale
    /\ cleared' = TRUE
    /\ UNCHANGED <<backend, row, transcripts, dirs, step, on, at, plans, locks, rating,
                   stale, spent>>

\* Then each row with its messages, and the directory.
PruneSession(s) ==
    /\ s \in stale /\ cleared
    /\ row' = [row EXCEPT ![s] = IF @ = "live" THEN "pruned" ELSE @]
    /\ transcripts' = transcripts \ {s}
    /\ dirs' = dirs \ {s}
    /\ stale' = stale \ {s}
    /\ cleared' = (stale # {s})
    /\ UNCHANGED <<backend, checkpoints, step, on, at, plans, locks, rating, spent>>

\* A replica dies and is started again: its tasks and local locks are gone, and the
\* server releases the advisory locks of its connections.
Crash(r) ==
    LET dead == {t \in Tasks : at[t] = r /\ step[t] \notin {"new"} \cup Over}
    IN  /\ r \in Serving
        /\ step' = [t \in Tasks |-> IF t \in dead THEN "killed" ELSE step[t]]
        /\ pending' = [b \in Briefs |-> IF at[b] = r THEN 0 ELSE pending[b]]
        /\ locked' = [locked EXCEPT ![r] = {}]
        /\ inUse' = [inUse EXCEPT ![r] = 0]
        /\ held' = [k \in Keys |-> IF held[k] \in dead THEN NoTask ELSE held[k]]
        /\ rating' = IF Serving = {r} THEN {} ELSE rating
        /\ todo' = [d \in Deletes |-> IF d \in dead THEN {} ELSE todo[d]]
        /\ Happens("crash")
        /\ UNCHANGED <<backend, store, on, at, by, pruner>>

-----------------------------------------------------------------------------
LockStep(t) == TakeLocal(t) \/ Connect(t) \/ PoolTimeout(t) \/ Acquire(t) \/ Leave(t)
TurnStep(t) == Open(t) \/ StartTurn(t) \/ FinishTurn(t) \/ Record(t)
BriefStep(b) == Plan(b) \/ (\E k \in Kids : CreateSection(b, k)) \/ Compile(b)
DeleteStep(d) == ListOwned(d) \/ DropCheckpoints(d) \/ DropRow(d) \/ DropDirectory(d)

TaskStep(t) ==
    \/ LockStep(t) \/ TurnStep(t)
    \/ t \in Briefs /\ BriefStep(t)
    \/ t \in Deletes /\ DeleteStep(t)

Mishap ==
    \/ \E b \in Briefs : CreateFails(b)
    \/ \E s \in Sessions : ReadTrace(s) \/ WriteFeedback(s) \/ PruneSession(s)
    \/ \E S \in SUBSET Ageing : PruneList(S)
    \/ PruneCheckpoints
    \/ \E r \in Replicas : Crash(r)

Next ==
    \/ \E t \in Tasks : TaskStep(t)
    \/ \E s \in Tops : CreateSession(s)
    \/ \E t \in Requests, s \in Sessions, r \in Replicas : Begin(t, s, r)
    \/ Mishap

Spec == Init /\ [][Next]_vars

\* The event loop runs every task that can run, the pool times out, and the server grants
\* a free advisory lock to a waiter.  Nothing makes a client, an operator or a crash act.
Fairness == \A t \in Tasks : WF_vars(TaskStep(t))

FairSpec == Spec /\ Fairness

-----------------------------------------------------------------------------
(***************************************************************************)
(* Properties                                                              *)
(***************************************************************************)
\* No two tasks are inside the lock of one session, on one replica or on two, nor of two
\* sessions whose keys collide (postgres_state.py:33).
OneTaskPerSession ==
    \A t, u \in Tasks :
        t # u /\ Inside(t) /\ Inside(u) =>
            /\ on[t] # on[u]
            /\ backend = "postgres" => Key(on[t]) # Key(on[u])

\* Every lock, connection and advisory lock has exactly one owner that will give it back:
\* nothing leaks through a time-out, a raise or the death of a replica, and a busy session
\* holds one connection of a replica (postgres_state.py:342).
LocksAreOwned ==
    /\ \A r \in Replicas :
        /\ locked[r] = {on[t] : t \in {u \in Tasks : HasLocal(u) /\ at[u] = r}}
        /\ inUse[r] = Cardinality({t \in Tasks : HasConnection(t) /\ at[t] = r})
        /\ \A t, u \in Tasks :
            HasLocal(t) /\ HasLocal(u) /\ at[t] = r /\ at[u] = r /\ t # u => on[t] # on[u]
    /\ \A k \in Keys :
        \A t \in Tasks : held[k] = t <=> /\ backend = "postgres" /\ Inside(t)
                                         /\ Key(on[t]) = k

\* The locks exclude, and survive what goes wrong around them.
LocksExclude == OneTaskPerSession /\ LocksAreOwned

\* delete_session and the sections: the turn of a client's own session, and the turn of a
\* section whose research is still waiting for it.
Protected(t) ==
    \/ t \in Chats /\ on[t] \in Tops /\ step[t] \in {"asked", "running"}
    \/ t \in Kids /\ step[t] \in {"in", "running"} /\ step[by[t]] = "briefing"

\* "so a running graph never loses its checkpoint underneath it": nothing but the
\* maintenance script takes the row or the checkpoints of a protected turn.
TurnKeepsItsSession ==
    [][\A t \in Tasks :
        Protected(t) /\ Protected(t)' /\ on[t] \notin stale =>
            /\ on[t] \in Live => on[t] \in Live'
            /\ on[t] \in checkpoints => on[t] \in checkpoints']_vars

\* "Research sections live in hidden child sessions; they go with their chat": the row of a
\* chat never goes before the rows of its sections, unless a raise left sections of its
\* research running.
ChildrenGoFirst ==
    \A k \in Kids \cap Live :
        Parent(k) \in Tops /\ row[Parent(k)] = "deleted" => step[by[k]] = "sunk"

Removed(s) == s \notin Live \cup checkpoints \cup transcripts

\* Whatever a deletion interrupts and whatever interrupts it, no child session is left
\* whose chat is gone.  And when a delete returns, its session has no row, no checkpoints and
\* no transcript left, and no directory but one that a feedback request has recreated; nor
\* have the sections that died before they were given to the client any of the former,
\* unless a raise had left them running or the maintenance script took them
\* (AgentService.delete_session).
DeletionIsWhole ==
    [][/\ ChildrenGoFirst'
       /\ \A d \in Deletes : step[d] = "leaving" /\ step'[d] = "ended" =>
            /\ on[d] \in Tops => /\ Removed(on[d])
                                 /\ on[d] \in dirs => "rating" \in spent
            /\ \A k \in Kids : /\ step[k] = "killed" /\ Parent(k) = on[d]
                               /\ step[by[k]] # "sunk" /\ row[k] # "pruned"
                              => Removed(k)]_vars

\* Every request a replica survives is answered, whatever holds the locks: without a key
\* shared by a research and its own sections.
RequestsEnd == <>[](\A t \in Requests : step[t] \in {"new"} \cup Over)

\* "A hash collision between two live sessions only serializes them" (postgres_state.py:34):
\* the same, with any keys.
CollisionsOnlySerialize == RequestsEnd

\* "One section must never sink the whole brief" (service.py:308): a research that got its
\* plan and was not killed ends with its report.
BriefNeverSinks == \A b \in Briefs : step[b] # "sunk"

\* "Keep the latest rating for a run beside its trace; it goes when the session does"
\* (persistence.py:317).
FeedbackGoesWithSession ==
    \A s \in Tops : row[s] = "deleted" /\ s \in dirs => \E d \in Deletes : s \in todo[d]
=============================================================================
