----------------------------- MODULE Conversation -----------------------------
(***************************************************************************)
(* One chat as the browser sees it and as the server keeps it: the event   *)
(* streams of chat_stream and research_stream (backend/app/api.py), which  *)
(* a turn feeds whether or not anybody reads them, and the web client that *)
(* sends, reads the stream, and reloads and polls the saved transcript     *)
(* (web/src/lib/api.ts, components/chat-provider.tsx, chat-view.tsx).      *)
(*                                                                         *)
(* An entry of the transcript is a turn and a role.  What a turn says is   *)
(* not modelled; a section's events are progress.                          *)
(***************************************************************************)
EXTENDS Naturals, Sequences, FiniteSets, SequencesExt

CONSTANTS
    Old,          \* a turn of an earlier visit
    Sends,        \* how many turns the user sends now: turns 1..Sends
    None,
    Polls,        \* attempts after which the client stops polling (75 in the code)
    MaxLoads,     \* bound: transcripts a poll may leave in flight
    MaxProgress,  \* bound: progress events of a turn
    Mishaps,      \* bound: which of MishapKinds may happen, each once
    MaxMishaps    \* bound: how many of them in one behaviour

\* The connection closes, or is reset; the request, or its response, is lost; the page is
\* reloaded; a transcript cannot be loaded or recorded; a research raises with sections
\* still running; the API process dies.
MishapKinds == {"close", "reset", "lost", "reload", "load", "record", "sink", "crash"}

Turns == 1..Sends

ASSUME ConversationAssumption ==
    /\ Sends \in Nat /\ Old \notin Turns /\ None \notin Turns
    /\ Polls \in Nat /\ MaxLoads \in Nat /\ MaxProgress \in Nat
    /\ Mishaps \subseteq MishapKinds /\ MaxMishaps \in Nat

VARIABLES
    transcript,  \* app_messages of the session
    serve,       \* what the server does with each turn
    progress,    \* progress events it has emitted
    queue,       \* events of its stream that the browser has not read
    link,        \* the connection that carries them
    shown,       \* thread.messages
    pending,     \* thread.pending
    status,      \* thread.status; "absent" when there is no thread
    asked,       \* transcript requests the server has not answered
    replies,     \* answered ones that have not arrived: lengths of the transcript
    attempts,    \* polls since the client began to wait
    spent,       \* mishaps so far
    raced        \* a turn was sent while a transcript was in flight, or a transcript was
                 \* taken before a turn had saved its question

server == <<transcript, serve, progress>>
wire == <<queue, link>>
loads == <<asked, replies>>
client == <<shown, pending, status, attempts>>
vars == <<server, wire, loads, client, spent, raced>>

Entry(t, role) == [turn |-> t, role |-> role]
Both(t) == <<Entry(t, "user"), Entry(t, "assistant")>>
Entries == [turn : Turns \cup {Old}, role : {"user", "assistant"}]

TypeOK ==
    /\ transcript \in Seq(Entries)
    /\ serve \in [Turns -> {"none", "queued", "working", "recorded", "over", "dead"}]
    /\ progress \in [Turns -> 0..MaxProgress]
    /\ queue \in [Turns -> Seq({"progress", "final", "end"})]
    /\ link \in [Turns -> {"none", "open", "gone"}]
    /\ shown \in Seq(Entries)
    /\ pending \in Turns \cup {None}
    /\ status \in {"absent", "loading", "ready", "error"}
    /\ asked \in 0..(MaxLoads + Sends + 1)
    /\ replies \subseteq 0..Len(transcript)
    /\ attempts \in 0..(Polls + 1)
    /\ spent \subseteq Mishaps
    /\ raced \in BOOLEAN

\* A new chat, or an old one opened by its address.
Init ==
    /\ \/ transcript = <<>> /\ status = "ready"
       \/ transcript = Both(Old) /\ status = "absent"
    /\ serve = [t \in Turns |-> "none"]
    /\ progress = [t \in Turns |-> 0]
    /\ queue = [t \in Turns |-> <<>>]
    /\ link = [t \in Turns |-> "none"]
    /\ shown = <<>> /\ pending = None
    /\ asked = 0 /\ replies = {} /\ attempts = 0
    /\ spent = {} /\ raced = FALSE

Happens(x) ==
    /\ x \in Mishaps \ spent
    /\ Cardinality(spent) < MaxMishaps
    /\ spent' = spent \cup {x}
Put(t, events) == queue' = [queue EXCEPT ![t] = @ \o events]

-----------------------------------------------------------------------------
(***************************************************************************)
(* The server.  run_turn is a task of its own: it never looks at the link. *)
(***************************************************************************)
\* The turn gets the session lock and saves the question.
StartTurn(t) ==
    /\ serve[t] = "queued"
    /\ \A u \in Turns : serve[u] \notin {"working", "recorded"}
    /\ transcript' = Append(transcript, Entry(t, "user"))
    /\ serve' = [serve EXCEPT ![t] = "working"]
    /\ UNCHANGED <<progress, wire, loads, client, spent, raced>>

\* Sections that a failed research left running report into a stream that has ended.
Progress(t) ==
    /\ serve[t] \in {"working", "over"} /\ (serve[t] = "over" => "sink" \in spent)
    /\ progress[t] < MaxProgress
    /\ progress' = [progress EXCEPT ![t] = @ + 1]
    /\ Put(t, <<"progress">>)
    /\ UNCHANGED <<transcript, serve, link, loads, client, spent, raced>>

\* The answer or the error is saved, or the failure to save it is swallowed.
RecordTurn(t) ==
    /\ serve[t] = "working"
    /\ \/ transcript' = Append(transcript, Entry(t, "assistant")) /\ UNCHANGED spent
       \/ Happens("record") /\ UNCHANGED transcript
    /\ serve' = [serve EXCEPT ![t] = "recorded"]
    /\ UNCHANGED <<progress, wire, loads, client, raced>>

\* The final event, a result or an error, and None in the finally clause.
Announce(t) ==
    /\ serve[t] = "recorded"
    /\ Put(t, <<"final", "end">>)
    /\ serve' = [serve EXCEPT ![t] = "over"]
    /\ UNCHANGED <<transcript, progress, link, loads, client, spent, raced>>

\* research raises without having recorded anything.
Sink(t) ==
    /\ serve[t] = "working"
    /\ Happens("sink")
    /\ Put(t, <<"final", "end">>)
    /\ serve' = [serve EXCEPT ![t] = "over"]
    /\ UNCHANGED <<transcript, progress, link, loads, client, raced>>

Crash ==
    /\ Happens("crash")
    /\ serve' = [t \in Turns |-> IF serve[t] \in {"queued", "working", "recorded"}
                                 THEN "dead" ELSE serve[t]]
    /\ UNCHANGED <<transcript, progress, wire, loads, client, raced>>

\* GET sessions/<id>/messages.
ServeLoad ==
    /\ asked > 0
    /\ asked' = asked - 1
    /\ replies' = replies \cup {Len(transcript)}
    /\ raced' = (raced \/ \E t \in Turns : serve[t] = "queued")
    /\ UNCHANGED <<server, wire, client, spent>>

-----------------------------------------------------------------------------
(***************************************************************************)
(* The browser                                                             *)
(***************************************************************************)
\* "A reload during a running turn leaves a trailing user message with no answer yet."
IsAwaiting(messages, current) ==
    current = None /\ messages # <<>> /\ Last(messages).role = "user"
Awaiting == IsAwaiting(shown, pending)

\* The thread becomes this, and the polling timer is cleared when nothing is awaited.
Show(messages, current) ==
    /\ shown' = messages
    /\ pending' = current
    /\ attempts' = IF IsAwaiting(messages, current) THEN attempts ELSE 0

\* A chat opened by its address has no thread yet: load it.
OpenThread ==
    /\ status = "absent"
    /\ status' = "loading"
    /\ asked' = asked + 1
    /\ UNCHANGED <<server, wire, replies, shown, pending, attempts, spent, raced>>

\* Mutant: a transcript that arrives replaces the messages whatever is pending.
LoadArrivesAnyway(n) ==
    /\ n \in replies
    /\ replies' = replies \ {n}
    /\ status' = "ready"
    /\ Show(SubSeq(transcript, 1, n), pending)
    /\ UNCHANGED <<server, wire, asked, spent, raced>>

\* While a turn is pending, its stream owns the tail of the conversation.
LoadArrives(n) ==
    /\ n \in replies
    /\ replies' = replies \ {n}
    /\ status' = "ready"
    /\ Show(IF pending = None THEN SubSeq(transcript, 1, n) ELSE shown, pending)
    /\ UNCHANGED <<server, wire, asked, spent, raced>>

LoadFails ==
    /\ asked > 0
    /\ Happens("load")
    /\ asked' = asked - 1
    /\ status' = "error"
    /\ UNCHANGED <<server, wire, replies, shown, pending, attempts, raced>>

\* The timer of the view, every four seconds.
Poll ==
    /\ Awaiting /\ attempts <= Polls
    /\ asked < MaxLoads
    /\ attempts' = attempts + 1
    /\ asked' = asked + 1
    /\ UNCHANGED <<server, wire, replies, shown, pending, status, spent, raced>>

\* The composer is enabled while nothing is pending or awaited, also while the chat loads.
NextTurn == CHOOSE t \in Turns : serve[t] = "none" /\ \A u \in Turns : serve[u] = "none" => t <= u
CanSend == (\E t \in Turns : serve[t] = "none") /\ status # "absent" /\ pending = None /\ ~Awaiting

Send(t) ==
    /\ CanSend /\ t = NextTurn
    /\ Show(shown, t)
    /\ serve' = [serve EXCEPT ![t] = "queued"]
    /\ link' = [link EXCEPT ![t] = "open"]
    /\ raced' = (raced \/ asked > 0 \/ replies # {})
    /\ UNCHANGED <<transcript, progress, queue, loads, status, spent>>

\* Mutant: the interrupted turn stays pending while the transcript is loaded.
InterruptedKeepsPending ==
    /\ asked' = asked + 1
    /\ UNCHANGED <<replies, status, shown, pending, attempts>>

\* STREAM_INTERRUPTED and NETWORK_ERROR: nothing is pending any more, and the transcript is
\* loaded once.
Interrupted ==
    /\ Show(shown, None)
    /\ asked' = asked + 1
    /\ UNCHANGED <<replies, status>>

\* A result, an error event, or any other exception: the turn is shown with what came.
Resolved(t) == Show(shown \o Both(t), None) /\ UNCHANGED <<loads, status>>

\* fetch rejects: the request never arrived, or its response did not.
SendLost(t) ==
    /\ CanSend /\ t = NextTurn
    /\ Happens("lost")
    /\ \E arrived \in BOOLEAN :
        serve' = [serve EXCEPT ![t] = IF arrived THEN "queued" ELSE "dead"]
    /\ link' = [link EXCEPT ![t] = "gone"]
    /\ raced' = (raced \/ asked > 0 \/ replies # {})
    /\ Interrupted
    /\ UNCHANGED <<transcript, progress, queue>>

\* The reader takes the next event; it returns at the first final one.
Read(t) ==
    /\ link[t] = "open" /\ queue[t] # <<>>
    /\ queue' = [queue EXCEPT ![t] = Tail(@)]
    /\ CASE Head(queue[t]) = "progress" -> UNCHANGED <<link, client, loads>>
         [] Head(queue[t]) = "final" ->
              link' = [link EXCEPT ![t] = "gone"] /\ Resolved(t)
         [] OTHER -> link' = [link EXCEPT ![t] = "gone"] /\ Interrupted
    /\ UNCHANGED <<server, spent, raced>>

\* Mutant: the turn is a task of the request, cancelled with it.
CloseCancelsTurn(t) ==
    /\ link[t] = "open"
    /\ Happens("close") \/ (serve[t] = "dead" /\ UNCHANGED spent)
    /\ link' = [link EXCEPT ![t] = "gone"]
    /\ Interrupted
    /\ serve' = [serve EXCEPT ![t] = IF @ = "over" THEN @ ELSE "dead"]
    /\ UNCHANGED <<transcript, progress, queue, raced>>

\* The body ends before a final event: read() reports that it is done.
Close(t) ==
    /\ link[t] = "open"
    /\ Happens("close") \/ (serve[t] = "dead" /\ UNCHANGED spent)
    /\ link' = [link EXCEPT ![t] = "gone"]
    /\ Interrupted
    /\ UNCHANGED <<server, queue, raced>>

\* The connection breaks in the middle of the body: read() rejects with an error that is
\* no ApiRequestError, and the turn is shown as failed.
Reset(t) ==
    /\ link[t] = "open"
    /\ Happens("reset") \/ (serve[t] = "dead" /\ UNCHANGED spent)
    /\ link' = [link EXCEPT ![t] = "gone"]
    /\ Resolved(t)
    /\ UNCHANGED <<server, queue, raced>>

\* The page is loaded again: its requests are abandoned, the turns go on.
Reload ==
    /\ status # "absent"
    /\ Happens("reload")
    /\ Show(<<>>, None)
    /\ status' = "absent"
    /\ asked' = 0 /\ replies' = {} /\ raced' = FALSE
    /\ link' = [t \in Turns |-> IF link[t] = "open" THEN "gone" ELSE link[t]]
    /\ UNCHANGED <<server, queue>>

-----------------------------------------------------------------------------
ServerStep(t) == StartTurn(t) \/ RecordTurn(t) \/ Announce(t)
BrokenLink(t) == serve[t] = "dead" /\ (Close(t) \/ Reset(t))
LoadStep == OpenThread \/ ServeLoad \/ (\E n \in replies : LoadArrives(n))

Next ==
    \/ \E t \in Turns :
        \/ ServerStep(t) \/ Progress(t) \/ Sink(t)
        \/ Send(t) \/ SendLost(t) \/ Read(t) \/ Close(t) \/ Reset(t)
    \/ LoadStep \/ LoadFails \/ Poll
    \/ Reload \/ Crash

Spec == Init /\ [][Next]_vars

\* Turns run to their end, bytes and replies arrive, a dead peer is noticed, the timer
\* fires.  Each of these steps is taken finitely often, so that one fairness condition per
\* turn, and one for the loads, is as strong as one per step.  Nothing makes a user send.
Fairness ==
    /\ \A t \in Turns : WF_vars(ServerStep(t) \/ Read(t) \/ BrokenLink(t))
    /\ WF_vars(LoadStep \/ Poll)

FairSpec == Spec /\ Fairness

-----------------------------------------------------------------------------
(***************************************************************************)
(* Properties                                                              *)
(***************************************************************************)
\* No entry twice, and every answer right below its question.
InPairs(messages) ==
    /\ \A i, j \in DOMAIN messages : i # j => messages[i] # messages[j]
    /\ \A i \in DOMAIN messages : messages[i].role = "assistant" =>
        i > 1 /\ messages[i - 1] = Entry(messages[i].turn, "user")

\* Whatever arrives in whatever order, from the stream or from a reload, the chat shows no
\* entry twice, and every answer right below its question.
ShownInPairs == InPairs(shown)

\* The page waits for nothing: no stream, no transcript, no answer to be polled for.
Quiet ==
    /\ asked = 0 /\ replies = {} /\ pending = None /\ status = "ready"
    /\ ~Awaiting

\* No question and no transcript crossed, and no turn failed in a way of which the
\* transcript or the page knows nothing.
Clean == ~raced /\ spent \cap {"reset", "record", "sink", "crash"} = {}

\* Closed connections, reloads and lost requests or responses do no harm: a page that waits
\* for nothing shows the saved transcript, whole, unless something spoiled it.
ViewIsTranscript == Quiet /\ Clean => shown = transcript

\* The chat is a transcript: in pairs at any time, the saved one when all is quiet.
ChatIsTranscript == ShownInPairs /\ ViewIsTranscript

\* A turn that reached the server is answered in the transcript, whatever happens to the
\* page and the connection that asked for it.
AnswerOutlivesStream ==
    \A t \in Turns :
        serve[t] = "queued" ~>
            \/ Entry(t, "assistant") \in Range(transcript)
            \/ spent \cap {"record", "sink", "crash"} # {}

\* The composer is never blocked for good by a stream: a pending turn ends.
PendingEnds == \A t \in Turns : pending = t ~> pending # t

\* A question without an answer is polled for until its answer is there, unless the turn
\* outlasts the polling or died without leaving an answer.
WaitingEnds ==
    Awaiting ~> \/ ~Awaiting
                \/ attempts > Polls
                \/ spent \cap {"record", "sink", "crash"} # {}

\* No stream and no unanswered question keeps the composer disabled for good.
StreamsEnd == PendingEnds /\ WaitingEnds

\* "The connection closed before the answer arrived. It will appear in this chat once it
\* finishes." (web/src/lib/api.ts:144)
AnswerAppears ==
    \A t \in Turns :
        link[t] = "gone" /\ Entry(t, "assistant") \in Range(transcript)
            ~> Entry(t, "assistant") \in Range(shown)
=============================================================================
