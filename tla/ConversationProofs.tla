------------------------- MODULE ConversationProofs -------------------------
(***************************************************************************)
(* The chat is its transcript for any number of turns, polls and mishaps.  *)
(* ChatIsTranscript is not inductive: IInv adds what the server has        *)
(* written for each turn, which streams are open and what they may still   *)
(* deliver, and what the transcripts in flight will show when they arrive. *)
(***************************************************************************)
EXTENDS Conversation, FiniteSetTheorems, TLAPS

Says(messages, t) == \E i \in DOMAIN messages : messages[i].turn = t
InHand(t) == serve[t] \in {"queued", "working"}
Left == {t \in Turns : link[t] = "gone"}

\* Turns are written one at a time, the question first.
TranscriptInv ==
    /\ InPairs(transcript)
    /\ \A t \in Turns : serve[t] \in {"none", "queued"} => ~Says(transcript, t)
    /\ \A t \in Turns : serve[t] = "working" =>
        transcript # <<>> /\ Last(transcript) = Entry(t, "user")
    /\ \A t, u \in Turns :
        serve[t] \in {"working", "recorded"} /\ serve[u] \in {"working", "recorded"} => t = u

\* The page reads the stream of the pending turn and no other.
StreamInv ==
    /\ \A t \in Turns : link[t] = "open" <=> pending = t
    /\ \A t \in Turns : serve[t] = "none" => link[t] = "none"
    /\ \A t \in Turns : \A i \in DOMAIN queue[t] : queue[t][i] = "final" => serve[t] = "over"
    /\ \A t \in Turns : serve[t] = "dead" /\ link[t] = "open" => "crash" \in spent

\* The answer of the pending turn is still to come.
ShownInv ==
    /\ InPairs(shown)
    /\ \A t \in Turns : serve[t] = "none" \/ pending = t => ~Says(shown, t)

\* Each stream that is left asks for one transcript; a page that loads has asked.
LoadInv ==
    /\ asked <= MaxLoads + 1 + Cardinality(Left)
    /\ status = "absent" => asked = 0 /\ replies = {} /\ pending = None /\ shown = <<>>
    /\ status = "loading" => asked > 0 \/ replies # {}

\* A transcript in flight ends in a question, or is the whole.
FreshReplies ==
    /\ replies # {} => \A t \in Turns : serve[t] # "queued"
    /\ \A n \in replies :
        \/ n > 0 /\ transcript[n].role = "user"
        \/ n = Len(transcript) /\ \A t \in Turns : ~InHand(t)

\* The transcript is what is shown and what the server has written for this turn.
Follows(t) ==
    /\ \A u \in Turns : u # t => ~InHand(u)
    /\ serve[t] = "queued" => transcript = shown
    /\ serve[t] = "working" => transcript = Append(shown, Entry(t, "user"))
    /\ serve[t] \in {"recorded", "over"} => transcript = shown \o Both(t)

\* Nothing is in flight while a turn is pending.
FreshPending ==
    \A t \in Turns : pending = t =>
        /\ asked = 0 /\ replies = {}
        /\ status = "ready" => Follows(t)

FreshView == Quiet => shown = transcript /\ \A t \in Turns : ~InHand(t)

FreshInv == Clean => FreshReplies /\ FreshPending /\ FreshView

IInv ==
    /\ TypeOK
    /\ TranscriptInv
    /\ StreamInv
    /\ ShownInv
    /\ LoadInv
    /\ FreshInv

-----------------------------------------------------------------------------
USE ConversationAssumption

LEMMA EntryParts ==
    /\ \A t \in Turns \cup {Old} : \A role \in {"user", "assistant"} :
        Entry(t, role) \in Entries /\ Entry(t, role).turn = t /\ Entry(t, role).role = role
    /\ \A e \in Entries : e = Entry(e.turn, e.role) /\ e.turn \in Turns \cup {Old}
                          /\ e.role \in {"user", "assistant"}
BY DEF Entry, Entries

\* The first n entries of a transcript.
LEMMA Prefix ==
    ASSUME NEW s \in Seq(Entries), NEW n \in 0..Len(s)
    PROVE  /\ SubSeq(s, 1, n) \in Seq(Entries)
           /\ Len(SubSeq(s, 1, n)) = n
           /\ \A i \in 1..n : SubSeq(s, 1, n)[i] = s[i]
           /\ n = Len(s) => SubSeq(s, 1, n) = s
           /\ InPairs(s) => InPairs(SubSeq(s, 1, n))
           /\ \A t \in Turns : ~Says(s, t) => ~Says(SubSeq(s, 1, n), t)
<1>1. /\ SubSeq(s, 1, n) \in Seq(Entries)
      /\ Len(SubSeq(s, 1, n)) = n
      /\ \A i \in 1..n : SubSeq(s, 1, n)[i] = s[i]
  OBVIOUS
<1>2. PICK p : p = SubSeq(s, 1, n)
  OBVIOUS
<1>3. p \in Seq(Entries) /\ Len(p) = n /\ \A i \in 1..n : p[i] = s[i]
  BY <1>1, <1>2
<1>4. n = Len(s) => p = s
  BY <1>3
<1>5. InPairs(s) => InPairs(p)
  BY <1>3 DEF InPairs
<1>6. \A t \in Turns : ~Says(s, t) => ~Says(p, t)
  BY <1>3 DEF Says
<1> QED
  BY <1>1, <1>2, <1>4, <1>5, <1>6

\* A question that was not asked before.
LEMMA Asking ==
    ASSUME NEW s \in Seq(Entries), InPairs(s), NEW t \in Turns, ~Says(s, t)
    PROVE  /\ Append(s, Entry(t, "user")) \in Seq(Entries)
           /\ InPairs(Append(s, Entry(t, "user")))
           /\ Append(s, Entry(t, "user")) # <<>>
           /\ Last(Append(s, Entry(t, "user"))) = Entry(t, "user")
           /\ \A u \in Turns \ {t} : ~Says(s, u) => ~Says(Append(s, Entry(t, "user")), u)
<1>1. PICK e : e = Entry(t, "user")
  OBVIOUS
<1>2. e \in Entries /\ e.turn = t /\ e.role = "user"
  BY <1>1, EntryParts
<1>3. PICK a : a = Append(s, e)
  OBVIOUS
<1>4. /\ a \in Seq(Entries) /\ Len(a) = Len(s) + 1 /\ a[Len(a)] = e
      /\ \A i \in 1..Len(s) : a[i] = s[i]
  BY <1>2, <1>3
<1>5. InPairs(a)
  <2>1. \A i \in 1..Len(s) : a[i] # e
    BY <1>2, <1>4 DEF Says
  <2>2. \A i, j \in DOMAIN a : i # j => a[i] # a[j]
    BY <1>4, <2>1 DEF InPairs
  <2>3. ASSUME NEW i \in DOMAIN a, a[i].role = "assistant"
        PROVE  i > 1 /\ a[i - 1] = Entry(a[i].turn, "user")
    <3>1. i \in 1..Len(s)
      BY <1>2, <1>4, <2>3
    <3> QED
      BY <1>4, <2>3, <3>1 DEF InPairs
  <2> QED
    BY <2>2, <2>3 DEF InPairs
<1>6. \A u \in Turns \ {t} : ~Says(s, u) => ~Says(a, u)
  BY <1>2, <1>4 DEF Says
<1>7. a # <<>> /\ Last(a) = e
  BY <1>4 DEF Last
<1> QED
  BY <1>1, <1>3, <1>4, <1>5, <1>6, <1>7

\* The answer to the question asked last.
LEMMA Answering ==
    ASSUME NEW s \in Seq(Entries), InPairs(s), NEW t \in Turns,
           s # <<>>, Last(s) = Entry(t, "user")
    PROVE  /\ Append(s, Entry(t, "assistant")) \in Seq(Entries)
           /\ InPairs(Append(s, Entry(t, "assistant")))
           /\ \A u \in Turns \ {t} : ~Says(s, u) => ~Says(Append(s, Entry(t, "assistant")), u)
<1>1. PICK e : e = Entry(t, "assistant")
  OBVIOUS
<1>2. e \in Entries /\ e.turn = t /\ e.role = "assistant"
  BY <1>1, EntryParts
<1>3. PICK a : a = Append(s, e)
  OBVIOUS
<1>4. /\ a \in Seq(Entries) /\ Len(a) = Len(s) + 1 /\ a[Len(a)] = e
      /\ \A i \in 1..Len(s) : a[i] = s[i]
      /\ Len(s) > 0 /\ s[Len(s)] = Entry(t, "user")
  BY <1>2, <1>3 DEF Last
<1>5. InPairs(a)
  <2>1. ASSUME NEW i \in 1..Len(s), a[i] = e PROVE FALSE
    <3>1. s[i].role = "assistant" /\ s[i].turn = t
      BY <1>2, <1>4, <2>1
    <3>2. i > 1 /\ s[i - 1] = Entry(t, "user")
      BY <3>1 DEF InPairs
    <3> QED
      BY <1>4, <3>2 DEF InPairs
  <2>2. \A i, j \in DOMAIN a : i # j => a[i] # a[j]
    BY <1>4, <2>1 DEF InPairs
  <2>3. ASSUME NEW i \in DOMAIN a, a[i].role = "assistant"
        PROVE  i > 1 /\ a[i - 1] = Entry(a[i].turn, "user")
    BY <1>2, <1>4, <2>3 DEF InPairs
  <2> QED
    BY <2>2, <2>3 DEF InPairs
<1>6. \A u \in Turns \ {t} : ~Says(s, u) => ~Says(a, u)
  BY <1>2, <1>4 DEF Says
<1> QED
  BY <1>1, <1>3, <1>4, <1>5, <1>6

\* A question and its answer.
LEMMA BothParts ==
    ASSUME NEW s \in Seq(Entries), NEW t \in Turns
    PROVE  s \o Both(t) = Append(Append(s, Entry(t, "user")), Entry(t, "assistant"))
<1>1. PICK e, f : e = Entry(t, "user") /\ f = Entry(t, "assistant")
  OBVIOUS
<1>2. e \in Entries /\ f \in Entries
  BY <1>1, EntryParts
<1>3. s \o <<e, f>> = Append(Append(s, e), f)
  BY <1>2
<1> QED
  BY <1>1, <1>3 DEF Both

LEMMA Telling ==
    ASSUME NEW s \in Seq(Entries), InPairs(s), NEW t \in Turns, ~Says(s, t)
    PROVE  /\ s \o Both(t) \in Seq(Entries)
           /\ InPairs(s \o Both(t))
           /\ \A u \in Turns \ {t} : ~Says(s, u) => ~Says(s \o Both(t), u)
<1>1. PICK a : a = Append(s, Entry(t, "user"))
  OBVIOUS
<1>2. a \in Seq(Entries) /\ InPairs(a) /\ a # <<>> /\ Last(a) = Entry(t, "user")
  BY <1>1, Asking
<1>3. \A u \in Turns \ {t} : ~Says(s, u) => ~Says(a, u)
  BY <1>1, Asking
<1>4. s \o Both(t) = Append(a, Entry(t, "assistant"))
  BY <1>1, BothParts
<1> QED
  BY <1>2, <1>3, <1>4, Answering

-----------------------------------------------------------------------------
(***************************************************************************)
(* Types                                                                   *)
(***************************************************************************)
Stages == {"none", "queued", "working", "recorded", "over", "dead"}

ServerTyped ==
    /\ transcript \in Seq(Entries)
    /\ serve \in [Turns -> Stages]
    /\ progress \in [Turns -> 0..MaxProgress]
    /\ queue \in [Turns -> Seq({"progress", "final", "end"})]
PageTyped ==
    /\ link \in [Turns -> {"none", "open", "gone"}]
    /\ shown \in Seq(Entries)
    /\ pending \in Turns \cup {None}
    /\ status \in {"absent", "loading", "ready", "error"}
    /\ asked \in Nat
    /\ replies \subseteq 0..Len(transcript)
    /\ attempts \in 0..(Polls + 1)
    /\ spent \subseteq Mishaps
    /\ raced \in BOOLEAN

LEMMA TurnsCount ==
    ASSUME NEW S \in SUBSET Turns
    PROVE  IsFiniteSet(S) /\ Cardinality(S) \in Nat /\ Cardinality(S) <= Sends
<1>1. IsFiniteSet(Turns) /\ Cardinality(Turns) = Sends
  <2>1. IsFiniteSet(1..Sends) /\ Cardinality(1..Sends) = IF 1 > Sends THEN 0 ELSE Sends - 1 + 1
    BY FS_Interval
  <2> QED
    BY <2>1 DEF Turns
<1>2. IsFiniteSet(S) /\ Cardinality(S) <= Cardinality(Turns)
  BY <1>1, FS_Subset
<1>3. Cardinality(S) \in Nat
  BY <1>2, FS_CardinalityType
<1> QED
  BY <1>1, <1>2, <1>3

LEMMA LeftCount ==
    /\ IsFiniteSet(Left)
    /\ Cardinality(Left) \in Nat /\ Cardinality(Left) <= Sends
<1>1. Left \in SUBSET Turns
  BY DEF Left
<1> QED
  BY <1>1, TurnsCount

LEMMA TypeParts ==
    /\ TypeOK => ServerTyped /\ PageTyped
    /\ ServerTyped /\ PageTyped /\ LoadInv => TypeOK
<1>1. asked \in Nat /\ LoadInv => asked \in 0..(MaxLoads + Sends + 1)
  BY LeftCount DEF LoadInv
<1> QED
  BY <1>1 DEF TypeOK, ServerTyped, PageTyped, Stages

\* The turn that is sent was not sent before.
LEMMA NextIsNew ==
    ASSUME \E t \in Turns : serve[t] = "none"
    PROVE  NextTurn \in Turns /\ serve[NextTurn] = "none"
<1>1. PICK S : S = {t \in Turns : serve[t] = "none"}
  OBVIOUS
<1>2. S \in SUBSET Nat /\ S # {}
  BY <1>1 DEF Turns
<1>3. \E t \in S : \A u \in S : <<u, t>> \notin OpToRel(<, Nat)
  BY <1>2, NatLessThanWellFounded, WFMin
<1>4. PICK t \in S : \A u \in S : <<u, t>> \notin OpToRel(<, Nat)
  BY <1>3
<1>5. \A u \in S : ~(u < t)
  BY <1>2, <1>4 DEF OpToRel
<1>6. \E v \in Turns : serve[v] = "none" /\ \A u \in Turns : serve[u] = "none" => v <= u
  BY <1>1, <1>2, <1>5
<1> QED
  BY <1>6 DEF NextTurn

LEMMA InitIInv == Init => IInv
<1> SUFFICES ASSUME Init PROVE IInv
  OBVIOUS
<1>1. ServerTyped /\ PageTyped
  <2>1. \A e, f \in Entries : <<e, f>> \in Seq(Entries)
    OBVIOUS
  <2>2. <<>> \in Seq(Entries) /\ Both(Old) \in Seq(Entries)
    BY <2>1, EntryParts DEF Both
  <2>3. transcript \in Seq(Entries) /\ shown \in Seq(Entries)
    BY <2>2 DEF Init
  <2> QED
    <3>1. <<>> \in Seq({"progress", "final", "end"})
      OBVIOUS
    <3>2. ServerTyped
      BY <2>3, <3>1 DEF Init, ServerTyped, Stages
    <3>3. PageTyped
      <4>1. 0 \in 0..(Polls + 1) /\ link \in [Turns -> {"none", "open", "gone"}]
        BY DEF Init
      <4>2. /\ pending = None /\ status \in {"absent", "ready"} /\ asked = 0 /\ replies = {}
            /\ attempts = 0 /\ spent = {} /\ raced \in BOOLEAN
        BY DEF Init
      <4> QED
        BY <2>3, <4>1, <4>2 DEF PageTyped
    <3> QED
      BY <3>2, <3>3
<1>2. TranscriptInv
  <2>1. InPairs(<<>>) /\ \A t \in Turns : ~Says(<<>>, t)
    BY DEF InPairs, Says
  <2>2. InPairs(Both(Old)) /\ \A t \in Turns : ~Says(Both(Old), t)
    <3>1. PICK e, f : e = Entry(Old, "user") /\ f = Entry(Old, "assistant")
      OBVIOUS
    <3>2. /\ e \in Entries /\ e.turn = Old /\ e.role = "user"
          /\ f \in Entries /\ f.turn = Old /\ f.role = "assistant"
      BY <3>1, EntryParts
    <3>3. PICK b : b = <<e, f>>
      OBVIOUS
    <3>4. b = Both(Old) /\ DOMAIN b = 1..2 /\ b[1] = e /\ b[2] = f
      BY <3>1, <3>3 DEF Both
    <3>5. InPairs(b)
      BY <3>1, <3>2, <3>4 DEF InPairs
    <3>6. \A t \in Turns : ~Says(b, t)
      BY <3>2, <3>4 DEF Says
    <3> QED
      BY <3>4, <3>5, <3>6
  <2> QED
    BY <2>1, <2>2 DEF Init, TranscriptInv
<1>3. StreamInv
  BY DEF Init, StreamInv
<1>4. ShownInv
  BY DEF Init, ShownInv, InPairs, Says
<1>5. LoadInv
  BY LeftCount DEF Init, LoadInv
<1>6. FreshInv
  BY DEF Init, FreshInv, FreshReplies, FreshPending, FreshView, Quiet, InHand
<1> QED
  BY <1>1, <1>2, <1>3, <1>4, <1>5, <1>6, TypeParts DEF IInv

LEMMA StepServerTyped == IInv /\ [Next]_vars => ServerTyped'
<1> SUFFICES ASSUME IInv, [Next]_vars PROVE ServerTyped'
  OBVIOUS
<1>1. ServerTyped
  BY TypeParts DEF IInv
<1>a. \A t \in Turns : /\ Append(transcript, Entry(t, "user")) \in Seq(Entries)
                       /\ Append(transcript, Entry(t, "assistant")) \in Seq(Entries)
  <2>1. \A e \in Entries : Append(transcript, e) \in Seq(Entries)
    BY <1>1 DEF ServerTyped
  <2> QED
    BY <2>1, EntryParts
<1>2. ASSUME NEW t \in Turns, StartTurn(t) PROVE ServerTyped'
  <2>1. transcript' \in Seq(Entries)
    BY <1>2, <1>a DEF StartTurn
  <2> QED
    BY <1>1, <1>2, <2>1 DEF StartTurn, wire, ServerTyped, Stages
<1>3. ASSUME NEW t \in Turns, RecordTurn(t) PROVE ServerTyped'
  <2>1. transcript' \in Seq(Entries)
    BY <1>1, <1>3, <1>a DEF RecordTurn, ServerTyped
  <2> QED
    BY <1>1, <1>3, <2>1 DEF RecordTurn, wire, ServerTyped, Stages
<1>4. ASSUME NEW t \in Turns, Announce(t) PROVE ServerTyped'
  BY <1>1, <1>4 DEF Announce, Put, ServerTyped, Stages
<1>5. ASSUME NEW t \in Turns, Progress(t) PROVE ServerTyped'
  BY <1>1, <1>5 DEF Progress, Put, ServerTyped, Stages
<1>6. ASSUME NEW t \in Turns, Sink(t) PROVE ServerTyped'
  BY <1>1, <1>6 DEF Sink, Put, ServerTyped, Stages
<1>7. ASSUME NEW t \in Turns, Send(t) PROVE ServerTyped'
  BY <1>1, <1>7 DEF Send, ServerTyped, Stages
<1>8. ASSUME NEW t \in Turns, SendLost(t) PROVE ServerTyped'
  BY <1>1, <1>8 DEF SendLost, ServerTyped, Stages
<1>9. ASSUME NEW t \in Turns, Read(t) PROVE ServerTyped'
  <2>1. UNCHANGED server /\ queue[t] # <<>> /\ queue' = [queue EXCEPT ![t] = Tail(@)]
    BY <1>9 DEF Read
  <2> QED
    BY <1>1, <2>1 DEF server, ServerTyped
<1>10. CASE Crash
  BY <1>1, <1>10 DEF Crash, wire, ServerTyped, Stages
<1>11. CASE UNCHANGED <<server, queue>>
  BY <1>1, <1>11 DEF server, ServerTyped
<1>12. \A t \in Turns : Close(t) \/ Reset(t) => UNCHANGED <<server, queue>>
  BY DEF Close, Reset
<1>13. LoadStep \/ LoadFails \/ Poll \/ Reload \/ UNCHANGED vars => UNCHANGED <<server, queue>>
  BY DEF LoadStep, OpenThread, ServeLoad, LoadArrives, LoadFails, Poll, Reload, wire, vars
<1> QED
  BY <1>2, <1>3, <1>4, <1>5, <1>6, <1>7, <1>8, <1>9, <1>10, <1>11, <1>12, <1>13
     DEF Next, ServerStep

\* A transcript only grows.
LEMMA TranscriptGrows ==
    ASSUME IInv, [Next]_vars
    PROVE  /\ Len(transcript) <= Len(transcript')
           /\ \A i \in DOMAIN transcript : transcript'[i] = transcript[i]
<1>1. transcript \in Seq(Entries)
  BY TypeParts DEF IInv, ServerTyped
<1> DEFINE Grown == \E e \in Entries : transcript' = Append(transcript, e)
<1>2. CASE Grown
  BY <1>1, <1>2
<1>3. ASSUME NEW t \in Turns, StartTurn(t) \/ RecordTurn(t)
      PROVE  Grown \/ transcript' = transcript
  <2>1. Entry(t, "user") \in Entries /\ Entry(t, "assistant") \in Entries
    BY EntryParts
  <2> QED
    BY <1>3, <2>1 DEF StartTurn, RecordTurn
<1>4. CASE transcript' = transcript
  BY <1>1, <1>4
<1>5. \A t \in Turns : Announce(t) \/ Progress(t) \/ Sink(t) => transcript' = transcript
  BY DEF Announce, Progress, Sink
<1>8. \A t \in Turns : Send(t) \/ SendLost(t) \/ Read(t) \/ Close(t) \/ Reset(t) =>
        transcript' = transcript
  BY DEF Send, SendLost, Read, Close, Reset, server
<1>6. LoadStep \/ LoadFails \/ Poll \/ Reload \/ Crash \/ UNCHANGED vars =>
        transcript' = transcript
  BY DEF LoadStep, OpenThread, ServeLoad, LoadArrives, LoadFails, Poll, Reload, Crash, vars,
         server
<1> HIDE DEF Grown
<1>7. Grown \/ transcript' = transcript
  BY <1>3, <1>5, <1>6, <1>8 DEF Next, ServerStep
<1> QED
  BY <1>2, <1>4, <1>7

LEMMA AttemptsBound ==
    ASSUME PageTyped, NEW messages, NEW current, Show(messages, current)
    PROVE  attempts' \in 0..(Polls + 1)
BY DEF Show, PageTyped

LEMMA StepPageTyped == IInv /\ [Next]_vars => PageTyped'
<1> SUFFICES ASSUME IInv, [Next]_vars PROVE PageTyped'
  OBVIOUS
<1>0. ServerTyped /\ PageTyped
  BY TypeParts DEF IInv
<1>a. Len(transcript) \in Nat /\ Len(transcript') \in Nat /\ Len(transcript) <= Len(transcript')
  BY <1>0, TranscriptGrows, StepServerTyped DEF ServerTyped
<1>b. replies \subseteq 0..Len(transcript')
  BY <1>0, <1>a DEF PageTyped
<1>c. \A x : Happens(x) => spent' \subseteq Mishaps
  BY <1>0 DEF Happens, PageTyped
<1>d. raced \in BOOLEAN
  BY <1>0 DEF PageTyped
<1>e. \A t \in Turns : shown \o Both(t) \in Seq(Entries)
  BY <1>0, EntryParts DEF PageTyped, Both
<1>1. ASSUME NEW t \in Turns, ServerStep(t) \/ Progress(t) \/ Sink(t) PROVE PageTyped'
  <2>1. UNCHANGED <<link, loads, client, raced>> /\ (spent' = spent \/ \E x : Happens(x))
    BY <1>1 DEF ServerStep, StartTurn, RecordTurn, Announce, Progress, Sink, wire
  <2> QED
    BY <1>0, <1>b, <1>c, <2>1 DEF loads, client, PageTyped
<1>2. ASSUME NEW t \in Turns, Send(t) PROVE PageTyped'
  <2>1. Show(shown, t) /\ link' = [link EXCEPT ![t] = "open"] /\ UNCHANGED <<loads, status, spent>>
        /\ raced' \in BOOLEAN
    BY <1>2, <1>d DEF Send
  <2> QED
    BY <1>0, <1>b, <2>1, AttemptsBound DEF loads, Show, PageTyped
<1>3. ASSUME NEW t \in Turns, SendLost(t) PROVE PageTyped'
  <2>1. /\ Show(shown, None) /\ link' = [link EXCEPT ![t] = "gone"]
        /\ UNCHANGED <<replies, status>> /\ asked' = asked + 1
        /\ Happens("lost") /\ raced' \in BOOLEAN
    BY <1>3, <1>d DEF SendLost, Interrupted
  <2> QED
    BY <1>0, <1>b, <1>c, <2>1, AttemptsBound DEF Show, PageTyped
<1>4. ASSUME NEW t \in Turns, Read(t) PROVE PageTyped'
  <2>1. UNCHANGED <<spent, raced>>
    BY <1>4 DEF Read
  <2>2. CASE UNCHANGED <<link, client, loads>>
    BY <1>0, <1>b, <2>1, <2>2 DEF loads, client, PageTyped
  <2>3. CASE link' = [link EXCEPT ![t] = "gone"] /\ Resolved(t)
    BY <1>0, <1>b, <1>e, <2>1, <2>3, AttemptsBound DEF Resolved, Show, loads, PageTyped
  <2>4. CASE link' = [link EXCEPT ![t] = "gone"] /\ Interrupted
    BY <1>0, <1>b, <2>1, <2>4, AttemptsBound DEF Interrupted, Show, PageTyped
  <2> QED
    BY <1>4, <2>2, <2>3, <2>4 DEF Read
<1>5. ASSUME NEW t \in Turns, Close(t) PROVE PageTyped'
  <2>1. /\ UNCHANGED raced /\ spent' \subseteq Mishaps
        /\ link' = [link EXCEPT ![t] = "gone"] /\ Interrupted
    BY <1>0, <1>5, <1>c DEF Close, PageTyped
  <2> QED
    BY <1>0, <1>b, <2>1, AttemptsBound DEF Interrupted, Show, PageTyped
<1>6. ASSUME NEW t \in Turns, Reset(t) PROVE PageTyped'
  <2>1. /\ UNCHANGED raced /\ spent' \subseteq Mishaps
        /\ link' = [link EXCEPT ![t] = "gone"] /\ Resolved(t)
    BY <1>0, <1>6, <1>c DEF Reset, PageTyped
  <2> QED
    BY <1>0, <1>b, <1>e, <2>1, AttemptsBound DEF Resolved, Show, loads, PageTyped
<1>7. CASE OpenThread
  BY <1>0, <1>7, <1>b DEF OpenThread, wire, PageTyped
<1>8. CASE ServeLoad
  <2>1. asked' \in Nat
    BY <1>0, <1>8 DEF ServeLoad, PageTyped
  <2>2. raced' \in BOOLEAN
    BY <1>8, <1>d DEF ServeLoad
  <2>3. replies' \subseteq 0..Len(transcript')
    <3>1. Len(transcript) \in 0..Len(transcript')
      BY <1>a
    <3>2. replies' = replies \cup {Len(transcript)}
      BY <1>8 DEF ServeLoad
    <3> QED
      BY <1>b, <3>1, <3>2
  <2>4. UNCHANGED <<link, client, spent>>
    BY <1>8 DEF ServeLoad, wire
  <2> QED
    BY <1>0, <2>1, <2>2, <2>3, <2>4 DEF client, PageTyped
<1>9. ASSUME NEW n \in replies, LoadArrives(n) PROVE PageTyped'
  <2>1. PICK s : s = IF pending = None THEN SubSeq(transcript, 1, n) ELSE shown
    OBVIOUS
  <2>2. s \in Seq(Entries)
    BY <1>0, <2>1, Prefix DEF ServerTyped, PageTyped
  <2>3. /\ Show(s, pending) /\ replies' = replies \ {n} /\ status' = "ready"
        /\ UNCHANGED <<link, asked, spent, raced>>
    BY <1>9, <2>1 DEF LoadArrives, wire
  <2> QED
    BY <1>0, <1>b, <2>2, <2>3, AttemptsBound DEF Show, PageTyped
<1>10. CASE LoadFails
  BY <1>0, <1>10, <1>b, <1>c DEF LoadFails, wire, PageTyped
<1>11. CASE Poll
  BY <1>0, <1>11, <1>b DEF Poll, wire, PageTyped
<1>12. CASE Reload
  <2>1. /\ Show(<<>>, None) /\ status' = "absent" /\ asked' = 0 /\ replies' = {} /\ raced' = FALSE
        /\ link' = [t \in Turns |-> IF link[t] = "open" THEN "gone" ELSE link[t]]
        /\ spent' \subseteq Mishaps
    BY <1>12, <1>c DEF Reload
  <2>2. <<>> \in Seq(Entries) /\ attempts' \in 0..(Polls + 1)
    BY <1>0, <2>1, AttemptsBound
  <2> QED
    BY <1>0, <2>1, <2>2 DEF Show, PageTyped
<1>13. CASE Crash
  BY <1>0, <1>13, <1>b, <1>c DEF Crash, wire, loads, client, PageTyped
<1>14. CASE UNCHANGED vars
  BY <1>0, <1>14, <1>b DEF vars, wire, loads, client, PageTyped
<1> QED
  BY <1>1, <1>2, <1>3, <1>4, <1>5, <1>6, <1>7, <1>8, <1>9, <1>10, <1>11, <1>12, <1>13, <1>14
     DEF Next, LoadStep

-----------------------------------------------------------------------------
(***************************************************************************)
(* What the server writes                                                  *)
(***************************************************************************)
\* A turn that is moved on, and has nothing more to write.
LEMMA Moved ==
    ASSUME ServerTyped, TranscriptInv, NEW t \in Turns, NEW s \in Stages,
           serve' = [serve EXCEPT ![t] = s], transcript' = transcript,
           \/ s \in {"over", "dead"}
           \/ s = "queued" /\ serve[t] = "none"
    PROVE  TranscriptInv'
<1>1. serve'[t] = s /\ \A u \in Turns \ {t} : serve'[u] = serve[u]
  BY DEF ServerTyped
<1>2. \A u \in Turns : serve'[u] \in {"none", "queued"} => serve[u] \in {"none", "queued"}
  BY <1>1
<1>3. \A u \in Turns : /\ serve'[u] = "working" => serve[u] = "working"
                       /\ serve'[u] \in {"working", "recorded"} =>
                            serve[u] \in {"working", "recorded"}
  BY <1>1
<1> QED
  BY <1>2, <1>3 DEF TranscriptInv

LEMMA StepTranscript == IInv /\ [Next]_vars => TranscriptInv'
<1> SUFFICES ASSUME IInv, [Next]_vars PROVE TranscriptInv'
  OBVIOUS
<1>0. ServerTyped /\ TranscriptInv /\ transcript \in Seq(Entries)
  BY TypeParts DEF IInv, ServerTyped
<1>1. CASE UNCHANGED <<transcript, serve>>
  BY <1>0, <1>1 DEF TranscriptInv
<1>2. ASSUME NEW t \in Turns, StartTurn(t) PROVE TranscriptInv'
  <2>1. /\ serve[t] = "queued" /\ \A u \in Turns : serve[u] \notin {"working", "recorded"}
        /\ transcript' = Append(transcript, Entry(t, "user"))
        /\ serve' = [serve EXCEPT ![t] = "working"]
    BY <1>2 DEF StartTurn
  <2>2. InPairs(transcript) /\ ~Says(transcript, t)
    BY <1>0, <2>1 DEF TranscriptInv
  <2>3. /\ InPairs(transcript') /\ transcript' # <<>>
        /\ Last(transcript') = Entry(t, "user")
        /\ \A u \in Turns \ {t} : ~Says(transcript, u) => ~Says(transcript', u)
    BY <1>0, <2>1, <2>2, Asking
  <2>4. serve'[t] = "working" /\ \A u \in Turns \ {t} : serve'[u] = serve[u]
    BY <1>0, <2>1 DEF ServerTyped
  <2>5. ASSUME NEW u \in Turns, serve'[u] \in {"none", "queued"} PROVE ~Says(transcript', u)
    BY <1>0, <2>3, <2>4, <2>5 DEF TranscriptInv
  <2>6. ASSUME NEW u \in Turns, serve'[u] = "working"
        PROVE  transcript' # <<>> /\ Last(transcript') = Entry(u, "user")
    BY <2>1, <2>3, <2>4, <2>6
  <2>7. ASSUME NEW u \in Turns, serve'[u] \in {"working", "recorded"} PROVE u = t
    BY <2>1, <2>4, <2>7
  <2>8. \A u \in Turns : (serve[u])' = serve'[u]
    OBVIOUS
  <2> QED
    BY <2>3, <2>5, <2>6, <2>7 DEF TranscriptInv
<1>3. ASSUME NEW t \in Turns, RecordTurn(t) PROVE TranscriptInv'
  <2>1. serve[t] = "working" /\ serve' = [serve EXCEPT ![t] = "recorded"]
    BY <1>3 DEF RecordTurn
  <2>2. serve'[t] = "recorded" /\ \A u \in Turns \ {t} : serve'[u] = serve[u]
    BY <1>0, <2>1 DEF ServerTyped
  <2>3. \A u \in Turns : serve'[u] \in {"working", "recorded"} =>
                serve[u] \in {"working", "recorded"}
    BY <2>1, <2>2
  <2>4. \A u, v \in Turns :
            serve'[u] \in {"working", "recorded"} /\ serve'[v] \in {"working", "recorded"} => u = v
    BY <1>0, <2>3 DEF TranscriptInv
  <2>5. \A u \in Turns : serve'[u] # "working"
    BY <1>0, <2>1, <2>2 DEF TranscriptInv
  <2>6. \A u \in Turns : serve'[u] \in {"none", "queued"} => u # t /\ ~Says(transcript, u)
    BY <1>0, <2>2 DEF TranscriptInv
  <2>7. /\ InPairs(transcript')
        /\ \A u \in Turns \ {t} : ~Says(transcript, u) => ~Says(transcript', u)
    <3>1. CASE transcript' = transcript
      BY <1>0, <3>1 DEF TranscriptInv
    <3>2. CASE transcript' = Append(transcript, Entry(t, "assistant"))
      <4>1. InPairs(transcript) /\ transcript # <<>> /\ Last(transcript) = Entry(t, "user")
        BY <1>0, <2>1 DEF TranscriptInv
      <4> QED
        BY <1>0, <3>2, <4>1, Answering
    <3> QED
      BY <1>3, <3>1, <3>2 DEF RecordTurn
  <2>8. \A u \in Turns : serve'[u] \in {"none", "queued"} => ~Says(transcript', u)
    BY <2>6, <2>7
  <2> QED
    BY <2>4, <2>5, <2>7, <2>8 DEF TranscriptInv
<1>4. ASSUME NEW t \in Turns, Announce(t) \/ Sink(t) PROVE TranscriptInv'
  BY <1>0, <1>4, Moved DEF Announce, Sink, Stages
<1>5. ASSUME NEW t \in Turns, Send(t) \/ SendLost(t) PROVE TranscriptInv'
  <2>1. /\ transcript' = transcript /\ serve[t] = "none"
        /\ \/ serve' = [serve EXCEPT ![t] = "queued"]
           \/ serve' = [serve EXCEPT ![t] = "dead"]
    BY <1>5, NextIsNew DEF Send, SendLost, CanSend
  <2> QED
    BY <1>0, <2>1, Moved DEF Stages
<1>6. CASE Crash
  <2>1. /\ transcript' = transcript
        /\ \A u \in Turns : serve'[u] = IF serve[u] \in {"queued", "working", "recorded"}
                                        THEN "dead" ELSE serve[u]
    BY <1>0, <1>6 DEF Crash
  <2>2. \A u \in Turns : /\ serve'[u] \in {"none", "queued"} => serve[u] = "none"
                         /\ serve'[u] \notin {"working", "recorded"}
    BY <2>1
  <2> QED
    BY <1>0, <2>1, <2>2 DEF TranscriptInv
<1>7. \A t \in Turns : Progress(t) \/ Read(t) \/ Close(t) \/ Reset(t) =>
        UNCHANGED <<transcript, serve>>
  BY DEF Progress, Read, Close, Reset, server
<1>8. LoadStep \/ LoadFails \/ Poll \/ Reload \/ UNCHANGED vars => UNCHANGED <<transcript, serve>>
  BY DEF LoadStep, OpenThread, ServeLoad, LoadArrives, LoadFails, Poll, Reload, server, vars
<1> QED
  BY <1>1, <1>2, <1>3, <1>4, <1>5, <1>6, <1>7, <1>8 DEF Next, ServerStep

-----------------------------------------------------------------------------
(***************************************************************************)
(* What the page reads and shows                                           *)
(***************************************************************************)
\* The page and its streams do not change, and a turn that dies dies of a crash.
LEMMA StreamKept ==
    ASSUME StreamInv, UNCHANGED <<link, pending>>, spent \subseteq spent',
           \A t \in Turns : /\ serve'[t] = "none" => serve[t] = "none"
                            /\ serve[t] = "over" => serve'[t] = "over"
                            /\ serve'[t] = "dead" => serve[t] = "dead" \/ "crash" \in spent'
                            /\ \A i \in DOMAIN queue'[t] : queue'[t][i] = "final" =>
                                \/ serve'[t] = "over"
                                \/ \E j \in DOMAIN queue[t] : queue[t][j] = "final"
    PROVE  StreamInv'
BY DEF StreamInv

\* The page leaves the stream of a turn, and nothing is pending.
LEMMA StreamLeft ==
    ASSUME PageTyped, StreamInv, serve \in [Turns -> Stages], NEW t \in Turns,
           \/ link[t] = "open" /\ serve' = serve
           \/ /\ pending = None /\ serve[t] = "none"
              /\ \E s \in {"queued", "dead"} : serve' = [serve EXCEPT ![t] = s],
           link' = [link EXCEPT ![t] = "gone"], pending' = None, spent \subseteq spent',
           \A u \in Turns : \A i \in DOMAIN queue'[u] : queue'[u][i] = "final" =>
                                    \E j \in DOMAIN queue[u] : queue[u][j] = "final"
    PROVE  StreamInv'
<1>1. link'[t] = "gone" /\ \A u \in Turns \ {t} : link'[u] = link[u]
  BY DEF PageTyped
<1>2. \A u \in Turns : link'[u] # "open"
  BY <1>1 DEF StreamInv
<1>3. \A u \in Turns \ {t} : serve'[u] = serve[u]
  OBVIOUS
<1>4. serve'[t] # "none"
  BY DEF StreamInv
<1>5. \A u \in Turns : serve'[u] = "none" => link'[u] = "none"
  BY <1>1, <1>3, <1>4 DEF StreamInv
<1>6. \A u \in Turns : serve[u] = "over" => serve'[u] = "over"
  OBVIOUS
<1>7. \A u \in Turns : \A i \in DOMAIN queue'[u] : queue'[u][i] = "final" => serve'[u] = "over"
  BY <1>6 DEF StreamInv
<1>8. \A u \in Turns : link'[u] = "open" <=> pending' = u
  BY <1>2
<1>9. \A u \in Turns : serve'[u] = "dead" /\ link'[u] = "open" => "crash" \in spent'
  BY <1>2
<1> QED
  BY <1>5, <1>7, <1>8, <1>9 DEF StreamInv

\* What is put into a stream, and what is left of it, when its head is read.
LEMMA QueueSteps ==
    ASSUME NEW q \in Seq({"progress", "final", "end"})
    PROVE  /\ \A i \in DOMAIN (q \o <<"progress">>) :
                (q \o <<"progress">>)[i] = "final" => \E j \in DOMAIN q : q[j] = "final"
           /\ q # <<>> => \A i \in DOMAIN Tail(q) :
                Tail(q)[i] = "final" => \E j \in DOMAIN q : q[j] = "final"
           /\ q # <<>> /\ Head(q) = "final" => \E j \in DOMAIN q : q[j] = "final"
<1>1. PICK p : p = q \o <<"progress">>
  OBVIOUS
<1>2. Len(p) = Len(q) + 1 /\ p[Len(p)] = "progress" /\ \A i \in 1..Len(q) : p[i] = q[i]
      /\ DOMAIN p = 1..Len(p)
  BY <1>1
<1>3. \A i \in DOMAIN p : p[i] = "final" => \E j \in DOMAIN q : q[j] = "final"
  BY <1>2
<1>4. q # <<>> => \A i \in DOMAIN Tail(q) : i + 1 \in DOMAIN q /\ Tail(q)[i] = q[i + 1]
  OBVIOUS
<1>5. q # <<>> => 1 \in DOMAIN q /\ Head(q) = q[1]
  OBVIOUS
<1> QED
  BY <1>1, <1>3, <1>4, <1>5

LEMMA HappensGrows ==
    ASSUME NEW x, Happens(x)
    PROVE  spent \subseteq spent' /\ x \in spent'
BY DEF Happens

LEMMA StepStream == IInv /\ [Next]_vars => StreamInv'
<1> SUFFICES ASSUME IInv, [Next]_vars PROVE StreamInv'
  OBVIOUS
<1>0. /\ ServerTyped /\ PageTyped /\ StreamInv
      /\ serve \in [Turns -> Stages]
      /\ queue \in [Turns -> Seq({"progress", "final", "end"})]
  BY TypeParts DEF IInv, ServerTyped
<1>1. CASE UNCHANGED <<link, pending, serve, queue>> /\ spent \subseteq spent'
  BY <1>0, <1>1, StreamKept
<1>2. ASSUME NEW t \in Turns, StartTurn(t) \/ RecordTurn(t) PROVE StreamInv'
  <2>1. /\ UNCHANGED <<link, pending, queue>> /\ spent \subseteq spent'
        /\ serve[t] \in {"queued", "working"}
        /\ \E s \in {"working", "recorded"} : serve' = [serve EXCEPT ![t] = s]
    BY <1>2, HappensGrows DEF StartTurn, RecordTurn, wire, client
  <2>2. \A u \in Turns : /\ serve'[u] = "none" => serve[u] = "none"
                         /\ serve[u] = "over" => serve'[u] = "over"
                         /\ serve'[u] = "dead" => serve[u] = "dead"
    BY <1>0, <2>1
  <2> QED
    BY <1>0, <2>1, <2>2, StreamKept
<1>3. ASSUME NEW t \in Turns, Progress(t) PROVE StreamInv'
  <2>1. /\ UNCHANGED <<link, pending, serve, spent>>
        /\ queue' = [queue EXCEPT ![t] = @ \o <<"progress">>]
    BY <1>3 DEF Progress, Put, client
  <2>2. \A u \in Turns : queue'[u] = IF u = t THEN queue[t] \o <<"progress">> ELSE queue[u]
    BY <1>0, <2>1
  <2>3. queue[t] \in Seq({"progress", "final", "end"})
    BY <1>0
  <2>4. \A u \in Turns : \A i \in DOMAIN queue'[u] : queue'[u][i] = "final" =>
            \E j \in DOMAIN queue[u] : queue[u][j] = "final"
    <3>1. PICK q \in Seq({"progress", "final", "end"}) : q = queue[t]
      BY <2>3
    <3>2. PICK p : p = q \o <<"progress">>
      OBVIOUS
    <3>3. \A i \in DOMAIN p : p[i] = "final" => \E j \in DOMAIN q : q[j] = "final"
      BY <3>2, QueueSteps
    <3>4. \A u \in Turns : queue'[u] = IF u = t THEN p ELSE queue[u]
      BY <2>2, <3>1, <3>2
    <3> QED
      BY <3>1, <3>3, <3>4
  <2> QED
    BY <1>0, <2>1, <2>4, StreamKept
<1>4. ASSUME NEW t \in Turns, Announce(t) \/ Sink(t) PROVE StreamInv'
  <2>1. /\ UNCHANGED <<link, pending>> /\ spent \subseteq spent'
        /\ serve[t] \in {"recorded", "working"} /\ serve' = [serve EXCEPT ![t] = "over"]
        /\ queue' = [queue EXCEPT ![t] = @ \o <<"final", "end">>]
    BY <1>4, HappensGrows DEF Announce, Sink, Put, client
  <2>2. /\ serve'[t] = "over"
        /\ \A u \in Turns \ {t} : serve'[u] = serve[u] /\ queue'[u] = queue[u]
    BY <1>0, <2>1
  <2> QED
    BY <1>0, <2>1, <2>2, StreamKept
<1>5. ASSUME NEW t \in Turns, Send(t) PROVE StreamInv'
  <2>1. /\ serve[t] = "none" /\ pending = None /\ pending' = t
        /\ serve' = [serve EXCEPT ![t] = "queued"] /\ link' = [link EXCEPT ![t] = "open"]
        /\ UNCHANGED <<queue, spent>>
    BY <1>5, NextIsNew DEF Send, CanSend, Show
  <2>2. /\ serve'[t] = "queued" /\ link'[t] = "open"
        /\ \A u \in Turns \ {t} : serve'[u] = serve[u] /\ link'[u] = link[u]
    BY <1>0, <2>1 DEF PageTyped
  <2> QED
    BY <1>0, <2>1, <2>2 DEF StreamInv
<1>6. ASSUME NEW t \in Turns, SendLost(t) PROVE StreamInv'
  <2>1. /\ serve[t] = "none" /\ pending = None /\ pending' = None
        /\ \E s \in {"queued", "dead"} : serve' = [serve EXCEPT ![t] = s]
        /\ link' = [link EXCEPT ![t] = "gone"] /\ UNCHANGED queue /\ spent \subseteq spent'
    BY <1>6, NextIsNew, HappensGrows DEF SendLost, CanSend, Interrupted, Show
  <2> QED
    BY <1>0, <2>1, StreamLeft
<1>7. ASSUME NEW t \in Turns, Read(t) PROVE StreamInv'
  <2>1. /\ link[t] = "open" /\ queue[t] # <<>> /\ UNCHANGED <<serve, spent>>
        /\ queue' = [queue EXCEPT ![t] = Tail(@)]
    BY <1>7 DEF Read, server
  <2>2. \A u \in Turns : queue'[u] = IF u = t THEN Tail(queue[t]) ELSE queue[u]
    BY <1>0, <2>1
  <2>3. queue[t] \in Seq({"progress", "final", "end"})
    BY <1>0
  <2>4. \A u \in Turns : \A i \in DOMAIN queue'[u] : queue'[u][i] = "final" =>
            \E j \in DOMAIN queue[u] : queue[u][j] = "final"
    BY <2>1, <2>2, <2>3, QueueSteps
  <2>5. CASE UNCHANGED <<link, client>>
    BY <1>0, <2>1, <2>4, <2>5, StreamKept DEF client
  <2>6. CASE link' = [link EXCEPT ![t] = "gone"] /\ pending' = None
    BY <1>0, <2>1, <2>4, <2>6, StreamLeft
  <2> QED
    BY <1>7, <2>5, <2>6 DEF Read, Resolved, Interrupted, Show
<1>8. ASSUME NEW t \in Turns, Close(t) \/ Reset(t) PROVE StreamInv'
  <2>1. /\ link[t] = "open" /\ pending' = None /\ link' = [link EXCEPT ![t] = "gone"]
        /\ UNCHANGED <<serve, queue>> /\ spent \subseteq spent'
    BY <1>8, HappensGrows DEF Close, Reset, Interrupted, Resolved, Show, server
  <2> QED
    BY <1>0, <2>1, StreamLeft
<1>9. CASE Reload
  <2>1. /\ pending' = None /\ UNCHANGED <<serve, queue>> /\ spent \subseteq spent'
        /\ link' = [t \in Turns |-> IF link[t] = "open" THEN "gone" ELSE link[t]]
    BY <1>9, HappensGrows DEF Reload, Show, server
  <2>2. \A t \in Turns : link'[t] # "open" /\ (link[t] = "none" => link'[t] = "none")
    BY <2>1
  <2> QED
    BY <1>0, <2>1, <2>2 DEF StreamInv
<1>10. CASE Crash
  <2>1. /\ UNCHANGED <<link, pending, queue>> /\ spent \subseteq spent' /\ "crash" \in spent'
        /\ \A t \in Turns : serve'[t] = IF serve[t] \in {"queued", "working", "recorded"}
                                        THEN "dead" ELSE serve[t]
    BY <1>0, <1>10, HappensGrows DEF Crash, wire, client
  <2>2. \A t \in Turns : /\ serve'[t] = "none" => serve[t] = "none"
                         /\ serve[t] = "over" => serve'[t] = "over"
    BY <2>1
  <2> QED
    BY <1>0, <2>1, <2>2, StreamKept
<1>11. LoadStep \/ LoadFails \/ Poll \/ UNCHANGED vars =>
            UNCHANGED <<link, pending, serve, queue>> /\ spent \subseteq spent'
  BY HappensGrows DEF LoadStep, OpenThread, ServeLoad, LoadArrives, LoadFails, Poll, Show,
                      server, wire, client, vars
<1> QED
  BY <1>1, <1>2, <1>3, <1>4, <1>5, <1>6, <1>7, <1>8, <1>9, <1>10, <1>11 DEF Next, ServerStep

\* What is shown stays, and no turn becomes new or pending.
LEMMA ShownKept ==
    ASSUME ShownInv, shown' = shown,
           \A t \in Turns : /\ serve'[t] = "none" => serve[t] = "none"
                            /\ pending' = t => pending = t \/ serve[t] = "none"
    PROVE  ShownInv'
BY DEF ShownInv

\* Every turn that has been sent stays sent.
LEMMA SentStaysSent ==
    ASSUME IInv, [Next]_vars, NEW t \in Turns, serve'[t] = "none"
    PROVE  serve[t] = "none"
<1>0. serve \in [Turns -> Stages]
  BY TypeParts DEF IInv, ServerTyped
<1>1. ASSUME NEW u \in Turns, ServerStep(u) \/ Progress(u) \/ Sink(u) PROVE serve[t] = "none"
  BY <1>0, <1>1 DEF ServerStep, StartTurn, RecordTurn, Announce, Progress, Sink
<1>2. ASSUME NEW u \in Turns, Send(u) \/ SendLost(u) PROVE serve[t] = "none"
  <2>1. \E s \in {"queued", "dead"} : serve' = [serve EXCEPT ![u] = s]
    BY <1>2 DEF Send, SendLost
  <2> QED
    BY <1>0, <2>1
<1>3. \A u \in Turns : Read(u) \/ Close(u) \/ Reset(u) => serve' = serve
  BY DEF Read, Close, Reset, server
<1>4. CASE Crash
  BY <1>0, <1>4 DEF Crash
<1>5. LoadStep \/ LoadFails \/ Poll \/ Reload \/ UNCHANGED vars => serve' = serve
  BY DEF LoadStep, OpenThread, ServeLoad, LoadArrives, LoadFails, Poll, Reload, server, vars
<1> QED
  BY <1>1, <1>2, <1>3, <1>4, <1>5 DEF Next

LEMMA StepShown == IInv /\ [Next]_vars => ShownInv'
<1> SUFFICES ASSUME IInv, [Next]_vars PROVE ShownInv'
  OBVIOUS
<1>0. ServerTyped /\ PageTyped /\ StreamInv /\ ShownInv /\ TranscriptInv
  BY TypeParts DEF IInv
<1>1. CASE shown' = shown /\ \A t \in Turns : pending' = t => pending = t \/ serve[t] = "none"
  BY <1>0, <1>1, ShownKept, SentStaysSent
<1>2. ASSUME NEW t \in Turns, link[t] = "open", Resolved(t), serve' = serve PROVE ShownInv'
  <2>1. pending = t /\ serve[t] # "none" /\ pending' = None /\ shown' = shown \o Both(t)
    BY <1>0, <1>2 DEF StreamInv, Resolved, Show
  <2>2. InPairs(shown) /\ ~Says(shown, t) /\ shown \in Seq(Entries)
    BY <1>0, <2>1 DEF ShownInv, PageTyped
  <2>3. /\ InPairs(shown')
        /\ \A u \in Turns \ {t} : ~Says(shown, u) => ~Says(shown', u)
    BY <2>1, <2>2, Telling
  <2>4. ASSUME NEW u \in Turns, serve'[u] = "none" \/ pending' = u PROVE ~Says(shown', u)
    <3>1. u # t /\ serve[u] = "none"
      BY <1>2, <2>1, <2>4
    <3> QED
      BY <1>0, <2>3, <3>1 DEF ShownInv
  <2> QED
    BY <2>3, <2>4 DEF ShownInv
<1>3. ASSUME NEW n \in replies, LoadArrives(n) PROVE ShownInv'
  <2>1. serve' = serve /\ pending' = pending
    BY <1>3 DEF LoadArrives, Show, server
  <2>2. CASE pending = None
    <3>1. shown' = SubSeq(transcript, 1, n)
      BY <1>3, <2>2 DEF LoadArrives, Show
    <3>2. transcript \in Seq(Entries) /\ n \in 0..Len(transcript)
      BY <1>0 DEF ServerTyped, PageTyped
    <3>3. InPairs(shown') /\ \A u \in Turns : ~Says(transcript, u) => ~Says(shown', u)
      BY <1>0, <3>1, <3>2, Prefix DEF TranscriptInv
    <3> QED
      BY <1>0, <2>1, <2>2, <3>3 DEF ShownInv, TranscriptInv
  <2>3. CASE pending # None
    BY <1>1, <1>3, <2>1, <2>3 DEF LoadArrives, Show
  <2> QED
    BY <2>2, <2>3
<1>4. CASE Reload
  BY <1>4 DEF Reload, Show, ShownInv, InPairs, Says
<1>5. ASSUME NEW t \in Turns, Read(t) PROVE ShownInv'
  <2>1. link[t] = "open" /\ serve' = serve
    BY <1>5 DEF Read, server
  <2>2. CASE UNCHANGED client \/ Interrupted
    BY <1>1, <2>2 DEF client, Interrupted, Show
  <2>3. CASE Resolved(t)
    BY <1>2, <2>1, <2>3
  <2> QED
    BY <1>5, <2>2, <2>3 DEF Read
<1>6. ASSUME NEW t \in Turns, Reset(t) PROVE ShownInv'
  BY <1>2, <1>6 DEF Reset, server
<1>7. ASSUME NEW t \in Turns, Send(t) PROVE ShownInv'
  <2>1. shown' = shown /\ pending' = t /\ serve[t] = "none"
    BY <1>7, NextIsNew DEF Send, CanSend, Show
  <2> QED
    BY <1>1, <2>1
<1>8. \A t \in Turns : ServerStep(t) \/ Progress(t) \/ Sink(t) => UNCHANGED <<shown, pending>>
  BY DEF ServerStep, StartTurn, RecordTurn, Announce, Progress, Sink, client
<1>9. \A t \in Turns : SendLost(t) \/ Close(t) => shown' = shown /\ pending' = None
  BY DEF SendLost, Close, Interrupted, Show
<1>10. OpenThread \/ ServeLoad \/ LoadFails \/ Poll \/ Crash \/ UNCHANGED vars =>
            UNCHANGED <<shown, pending>>
  BY DEF OpenThread, ServeLoad, LoadFails, Poll, Crash, client, vars
<1>11. CASE UNCHANGED <<shown, pending>>
  BY <1>1, <1>11
<1>12. CASE shown' = shown /\ pending' = None
  BY <1>1, <1>12
<1> QED
  BY <1>3, <1>4, <1>5, <1>6, <1>7, <1>8, <1>9, <1>10, <1>11, <1>12 DEF Next, LoadStep

-----------------------------------------------------------------------------
(***************************************************************************)
(* Transcripts that are asked for                                          *)
(***************************************************************************)
LEMMA LeaveOne ==
    ASSUME PageTyped, NEW t \in Turns, link[t] # "gone", link' = [link EXCEPT ![t] = "gone"]
    PROVE  Cardinality(Left') = Cardinality(Left) + 1
<1>1. Left' = Left \cup {t} /\ t \notin Left
  BY DEF PageTyped, Left
<1>2. Cardinality(Left \cup {t}) = Cardinality(Left) + 1
  BY <1>1, LeftCount, FS_AddElement
<1> QED
  BY <1>1, <1>2

LEMMA StepLoad == IInv /\ [Next]_vars => LoadInv'
<1> SUFFICES ASSUME IInv, [Next]_vars PROVE LoadInv'
  OBVIOUS
<1>0. /\ ServerTyped /\ PageTyped /\ StreamInv /\ LoadInv
      /\ asked \in Nat /\ Cardinality(Left) \in Nat
  BY TypeParts, LeftCount DEF IInv, PageTyped
<1>1. CASE link' = link /\ UNCHANGED <<loads, client>>
  <2>1. Left' = Left
    BY <1>1 DEF Left
  <2> QED
    BY <1>0, <1>1, <2>1 DEF LoadInv, loads, client
<1>2. ASSUME NEW t \in Turns, link[t] # "gone", link' = [link EXCEPT ![t] = "gone"],
             asked' \in {asked, asked + 1}, pending' = None, UNCHANGED <<replies, status>>,
             status # "absent"
      PROVE  LoadInv'
  <2>1. Cardinality(Left') = Cardinality(Left) + 1
    BY <1>0, <1>2, LeaveOne
  <2> QED
    BY <1>0, <1>2, <2>1 DEF LoadInv
<1>3. ASSUME NEW t \in Turns, link[t] = "open" PROVE pending = t /\ status # "absent"
  BY <1>0, <1>3 DEF StreamInv, LoadInv
<1>4. ASSUME NEW t \in Turns, Send(t) PROVE LoadInv'
  <2>1. /\ link[t] = "none" /\ link' = [link EXCEPT ![t] = "open"]
        /\ UNCHANGED <<loads, status>> /\ status # "absent"
    BY <1>0, <1>4, NextIsNew DEF Send, CanSend, StreamInv
  <2>2. Left' = Left
    BY <1>0, <2>1 DEF Left, PageTyped
  <2> QED
    BY <1>0, <2>1, <2>2 DEF LoadInv, loads
<1>5. ASSUME NEW t \in Turns, SendLost(t) PROVE LoadInv'
  <2>1. /\ link[t] = "none" /\ link' = [link EXCEPT ![t] = "gone"] /\ status # "absent"
        /\ asked' = asked + 1 /\ pending' = None /\ UNCHANGED <<replies, status>>
    BY <1>0, <1>5, NextIsNew DEF SendLost, CanSend, StreamInv, Interrupted, Show
  <2> QED
    BY <1>2, <2>1
<1>6. ASSUME NEW t \in Turns, Read(t) PROVE LoadInv'
  <2>1. link[t] = "open"
    BY <1>6 DEF Read
  <2>2. CASE UNCHANGED <<link, client, loads>>
    BY <1>1, <2>2
  <2>3. CASE link' = [link EXCEPT ![t] = "gone"] /\ (Resolved(t) \/ Interrupted)
    BY <1>2, <1>3, <2>1, <2>3 DEF Resolved, Interrupted, Show, loads
  <2> QED
    BY <1>6, <2>2, <2>3 DEF Read
<1>7. ASSUME NEW t \in Turns, Close(t) \/ Reset(t) PROVE LoadInv'
  <2>1. link[t] = "open" /\ link' = [link EXCEPT ![t] = "gone"] /\ (Resolved(t) \/ Interrupted)
    BY <1>7 DEF Close, Reset
  <2> QED
    BY <1>2, <1>3, <2>1 DEF Resolved, Interrupted, Show, loads
<1>8. CASE Reload
  <2>1. /\ asked' = 0 /\ replies' = {} /\ pending' = None /\ status' = "absent"
        /\ shown' = <<>>
    BY <1>8 DEF Reload, Show
  <2>2. Cardinality(Left') \in Nat
    <3>1. Left' \in SUBSET Turns
      BY DEF Left
    <3> QED
      BY <3>1, TurnsCount
  <2> QED
    BY <2>1, <2>2 DEF LoadInv
<1>9. CASE UNCHANGED <<link, pending, shown>> /\ (OpenThread \/ ServeLoad \/ LoadFails \/ Poll)
  <2>1. Left' = Left
    BY <1>9 DEF Left
  <2>2. asked' \in Nat /\ asked' <= MaxLoads + 1 + Cardinality(Left)
    BY <1>0, <1>9 DEF OpenThread, ServeLoad, LoadFails, Poll, LoadInv
  <2>3. status' = "absent" => status = "absent" /\ asked' = asked /\ replies' = replies
    BY <1>0, <1>9 DEF OpenThread, ServeLoad, LoadFails, Poll, LoadInv, client, Awaiting, IsAwaiting
  <2>4. status' = "loading" => asked' > 0 \/ replies' # {}
    <3>1. CASE OpenThread \/ LoadFails \/ Poll
      BY <1>0, <3>1 DEF OpenThread, LoadFails, Poll, LoadInv
    <3>2. CASE ServeLoad
      BY <3>2 DEF ServeLoad
    <3> QED
      BY <1>9, <3>1, <3>2
  <2> QED
    BY <1>0, <1>9, <2>1, <2>2, <2>3, <2>4 DEF LoadInv
<1>10. ASSUME NEW n \in replies, LoadArrives(n) PROVE LoadInv'
  <2>1. link' = link /\ asked' = asked /\ status' = "ready"
    BY <1>10 DEF LoadArrives, wire
  <2>2. Left' = Left
    BY <2>1 DEF Left
  <2> QED
    BY <1>0, <2>1, <2>2 DEF LoadInv
<1>11. \A t \in Turns : ServerStep(t) \/ Progress(t) \/ Sink(t) =>
            link' = link /\ UNCHANGED <<loads, client>>
  BY DEF ServerStep, StartTurn, RecordTurn, Announce, Progress, Sink, wire
<1>12. Crash \/ UNCHANGED vars => link' = link /\ UNCHANGED <<loads, client>>
  BY DEF Crash, wire, vars
<1>13. OpenThread \/ ServeLoad \/ LoadFails \/ Poll => UNCHANGED <<link, pending, shown>>
  BY DEF OpenThread, ServeLoad, LoadFails, Poll, wire, client
<1> QED
  BY <1>1, <1>4, <1>5, <1>6, <1>7, <1>8, <1>9, <1>10, <1>11, <1>12, <1>13 DEF Next, LoadStep

-----------------------------------------------------------------------------
(***************************************************************************)
(* What is shown when the page waits for nothing                           *)
(***************************************************************************)
\* What has spoiled a page spoils it until it is loaded again.
LEMMA CleanBefore ==
    ASSUME spent \subseteq spent', raced => raced'
    PROVE  Clean' => Clean
BY DEF Clean

\* The page waits for a transcript, or is about to, and nothing is pending.
LEMMA FreshWaiting ==
    ASSUME FreshReplies, UNCHANGED <<transcript, serve>>, replies' \subseteq replies,
           asked' > 0 \/ status' # "ready", pending' = None
    PROVE  FreshReplies' /\ FreshPending' /\ FreshView'
<1>1. FreshReplies'
  BY DEF FreshReplies, InHand
<1>2. FreshPending' /\ ~Quiet'
  BY DEF FreshPending, Quiet
<1> QED
  BY <1>1, <1>2 DEF FreshView

LEMMA StartFresh ==
    ASSUME ServerTyped, PageTyped, Clean, FreshInv, NEW t \in Turns, StartTurn(t)
    PROVE  FreshReplies' /\ FreshPending' /\ FreshView'
<1>1. /\ serve[t] = "queued" /\ transcript' = Append(transcript, Entry(t, "user"))
      /\ serve' = [serve EXCEPT ![t] = "working"]
      /\ UNCHANGED <<loads, client>>
  BY DEF StartTurn
<1>2. FreshReplies /\ FreshPending /\ FreshView
  BY DEF FreshInv
<1>3. InHand(t) /\ replies = {} /\ ~Quiet
  BY <1>1, <1>2 DEF InHand, FreshReplies, FreshView
<1>4. FreshReplies'
  BY <1>1, <1>3 DEF FreshReplies, loads
<1>5. FreshView'
  BY <1>1, <1>3 DEF FreshView, Quiet, Awaiting, loads, client
<1>6. ASSUME NEW u \in Turns, pending' = u
      PROVE  asked' = 0 /\ replies' = {} /\ (status' = "ready" => Follows(u)')
  <2>1. pending = u /\ asked' = 0 /\ replies' = {}
    BY <1>1, <1>2, <1>6 DEF FreshPending, loads, client
  <2>2. ASSUME status' = "ready" PROVE Follows(u)'
    <3>1. Follows(u) /\ u = t
      BY <1>1, <1>2, <1>3, <2>1, <2>2 DEF FreshPending, Follows, client
    <3>2. transcript = shown /\ \A v \in Turns : v # t => serve[v] \notin {"queued", "working"}
      BY <1>1, <3>1 DEF Follows, InHand
    <3>3. serve'[t] = "working" /\ \A v \in Turns : v # t => serve'[v] = serve[v]
      BY <1>1 DEF ServerTyped
    <3>4. transcript' = Append(shown', Entry(t, "user"))
      BY <1>1, <3>2 DEF client
    <3>5. \A v \in Turns : v # t => serve'[v] \notin {"queued", "working"}
      BY <3>2, <3>3
    <3> QED
      BY <3>1, <3>3, <3>4, <3>5 DEF Follows, InHand
  <2> QED
    BY <2>1, <2>2
<1>7. FreshPending'
  BY <1>6 DEF FreshPending
<1> QED
  BY <1>4, <1>5, <1>7

LEMMA RecordFresh ==
    ASSUME ServerTyped, PageTyped, Clean, Clean', FreshInv, NEW t \in Turns, RecordTurn(t)
    PROVE  FreshReplies' /\ FreshPending' /\ FreshView'
<1>1. /\ serve[t] = "working" /\ serve' = [serve EXCEPT ![t] = "recorded"]
      /\ UNCHANGED <<loads, client>>
  BY DEF RecordTurn
<1>2. transcript' = Append(transcript, Entry(t, "assistant"))
  BY HappensGrows DEF RecordTurn, Clean
<1>3. FreshReplies /\ FreshPending /\ FreshView
  BY DEF FreshInv
<1>4. InHand(t) /\ ~Quiet
  BY <1>1, <1>3 DEF InHand, FreshView
<1>5. serve'[t] = "recorded" /\ \A v \in Turns : v # t => serve'[v] = serve[v]
  BY <1>1 DEF ServerTyped
<1>6. FreshReplies'
  <2>1. ASSUME NEW n \in replies PROVE n > 0 /\ transcript'[n].role = "user"
    <3>1. n > 0 /\ transcript[n].role = "user"
      BY <1>3, <1>4 DEF FreshReplies
    <3>2. transcript \in Seq(Entries) /\ n \in 0..Len(transcript)
      BY DEF ServerTyped, PageTyped
    <3>3. transcript'[n] = transcript[n]
      BY <1>2, <3>1, <3>2
    <3> QED
      BY <3>1, <3>3
  <2>2. replies # {} => \A v \in Turns : serve'[v] # "queued"
    BY <1>3, <1>5 DEF FreshReplies
  <2>3. replies' = replies
    BY <1>1 DEF loads
  <2> QED
    BY <2>1, <2>2, <2>3 DEF FreshReplies
<1>7. FreshView'
  BY <1>1, <1>4 DEF FreshView, Quiet, Awaiting, loads, client
<1>8. ASSUME NEW u \in Turns, pending' = u
      PROVE  asked' = 0 /\ replies' = {} /\ (status' = "ready" => Follows(u)')
  <2>1. pending = u /\ asked' = 0 /\ replies' = {}
    BY <1>1, <1>3, <1>8 DEF FreshPending, loads, client
  <2>2. ASSUME status' = "ready" PROVE Follows(u)'
    <3>1. Follows(u) /\ u = t
      BY <1>1, <1>3, <1>4, <2>1, <2>2 DEF FreshPending, Follows, client
    <3>2. /\ transcript = Append(shown, Entry(t, "user"))
          /\ \A v \in Turns : v # t => serve[v] \notin {"queued", "working"}
      BY <1>1, <3>1 DEF Follows, InHand
    <3>3. transcript' = shown' \o Both(t)
      BY <1>1, <1>2, <3>2, BothParts DEF PageTyped, client
    <3>4. \A v \in Turns : v # t => serve'[v] \notin {"queued", "working"}
      BY <1>5, <3>2
    <3> QED
      BY <1>5, <3>1, <3>3, <3>4 DEF Follows, InHand
  <2> QED
    BY <2>1, <2>2
<1>9. FreshPending'
  BY <1>8 DEF FreshPending
<1> QED
  BY <1>6, <1>7, <1>9

\* A turn that is sent crosses no transcript.
LEMMA NothingCrosses ==
    ASSUME PageTyped, Clean', raced' = (raced \/ asked > 0 \/ replies # {})
    PROVE  ~raced /\ asked = 0 /\ replies = {}
<1>1. ~(raced \/ asked > 0 \/ replies # {})
  BY DEF Clean
<1>2. ~raced /\ ~(asked > 0) /\ replies = {}
  BY <1>1
<1>3. asked \in Nat
  BY DEF PageTyped
<1> QED
  BY <1>2, <1>3

LEMMA SendFresh ==
    ASSUME ServerTyped, PageTyped, Clean', FreshInv, NEW t \in Turns, Send(t)
    PROVE  FreshReplies' /\ FreshPending' /\ FreshView'
<1>1. /\ CanSend /\ pending' = t /\ shown' = shown
      /\ serve' = [serve EXCEPT ![t] = "queued"]
      /\ raced' = (raced \/ asked > 0 \/ replies # {})
      /\ UNCHANGED <<transcript, loads, status, spent>>
  BY DEF Send, Show
<1>2. Clean /\ asked = 0 /\ replies = {}
  <2>1. ~raced /\ asked = 0 /\ replies = {}
    BY <1>1, NothingCrosses
  <2> QED
    BY <1>1, <2>1 DEF Clean
<1>3. pending = None /\ ~Awaiting
  BY <1>1 DEF CanSend
<1>4. FreshReplies' /\ FreshView'
  BY <1>1, <1>2 DEF FreshReplies, FreshView, Quiet, loads
<1>5. ASSUME status' = "ready" PROVE Follows(t)'
  <2>1. transcript = shown /\ \A u \in Turns : serve[u] \notin {"queued", "working"}
    BY <1>1, <1>2, <1>3, <1>5 DEF FreshInv, FreshView, Quiet, InHand
  <2>2. serve'[t] = "queued" /\ \A u \in Turns : u # t => serve'[u] = serve[u]
    BY <1>1 DEF ServerTyped
  <2>3. \A u \in Turns : u # t => serve'[u] \notin {"queued", "working"}
    BY <2>1, <2>2
  <2> QED
    BY <1>1, <2>1, <2>2, <2>3 DEF Follows, InHand
<1>6. FreshPending'
  BY <1>1, <1>2, <1>5 DEF FreshPending, loads
<1> QED
  BY <1>4, <1>6

\* The pending turn is announced: the server has written it, and nothing else is in hand.
LEMMA ReadFresh ==
    ASSUME ServerTyped, PageTyped, StreamInv, Clean, FreshInv, NEW t \in Turns, Read(t),
           Head(queue[t]) = "final"
    PROVE  FreshReplies' /\ FreshPending' /\ FreshView'
<1>1. /\ link[t] = "open" /\ queue[t] # <<>> /\ UNCHANGED <<transcript, serve, loads, status>>
      /\ shown' = shown \o Both(t) /\ pending' = None
  BY DEF Read, Resolved, Show, server
<1>2. pending = t /\ asked = 0 /\ replies = {}
  BY <1>1 DEF StreamInv, FreshInv, FreshPending
<1>3. serve[t] = "over"
  <2>1. queue[t] \in Seq({"progress", "final", "end"})
    BY DEF ServerTyped
  <2>2. \E i \in DOMAIN queue[t] : queue[t][i] = "final"
    BY <1>1, <2>1, QueueSteps
  <2> QED
    BY <2>2 DEF StreamInv
<1>4. ASSUME status = "ready"
      PROVE  shown' = transcript' /\ \A u \in Turns : serve'[u] \notin {"queued", "working"}
  <2>1. Follows(t)
    BY <1>2, <1>4 DEF FreshInv, FreshPending
  <2> QED
    BY <1>1, <1>3, <2>1 DEF Follows, InHand
<1>5. FreshView'
  BY <1>1, <1>4 DEF FreshView, Quiet, InHand
<1>6. FreshReplies' /\ FreshPending'
  BY <1>1, <1>2 DEF FreshReplies, FreshPending, loads
<1> QED
  BY <1>5, <1>6

LEMMA ServeFresh ==
    ASSUME ServerTyped, PageTyped, TranscriptInv, Clean', FreshInv, ServeLoad
    PROVE  FreshReplies' /\ FreshPending' /\ FreshView'
<1>1. /\ asked > 0 /\ replies' = replies \cup {Len(transcript)}
      /\ raced' = (raced \/ \E t \in Turns : serve[t] = "queued")
      /\ UNCHANGED <<transcript, serve, client, spent>>
  BY DEF ServeLoad, server
<1>2. Clean /\ \A t \in Turns : serve[t] # "queued"
  BY <1>1 DEF Clean
<1>3. FreshReplies /\ FreshPending
  BY <1>2 DEF FreshInv
<1>4. FreshView'
  BY <1>1 DEF FreshView, Quiet
<1>5. FreshPending'
  BY <1>1, <1>3 DEF FreshPending, client
<1>6. \/ Len(transcript) > 0 /\ transcript[Len(transcript)].role = "user"
      \/ \A t \in Turns : serve[t] # "working"
  <2>1. ASSUME NEW t \in Turns, serve[t] = "working"
        PROVE  Len(transcript) > 0 /\ transcript[Len(transcript)].role = "user"
    <3>1. transcript # <<>> /\ transcript[Len(transcript)] = Entry(t, "user")
      BY <2>1 DEF TranscriptInv, Last
    <3>2. transcript \in Seq(Entries)
      BY DEF ServerTyped
    <3> QED
      BY <3>1, <3>2, EntryParts
  <2> QED
    BY <2>1
<1>7. FreshReplies'
  BY <1>1, <1>2, <1>3, <1>6 DEF FreshReplies, InHand
<1> QED
  BY <1>4, <1>5, <1>7

\* What arrives while nothing is pending is the whole transcript, or ends in a question.
LEMMA ArriveFresh ==
    ASSUME ServerTyped, PageTyped, Clean, FreshInv, NEW n \in replies, LoadArrives(n)
    PROVE  FreshReplies' /\ FreshPending' /\ FreshView'
<1>1. FreshReplies /\ FreshPending
  BY DEF FreshInv
<1>2. pending = None
  BY <1>1 DEF FreshPending, PageTyped
<1>3. /\ replies' = replies \ {n} /\ pending' = None /\ shown' = SubSeq(transcript, 1, n)
      /\ UNCHANGED <<transcript, serve, asked>>
  BY <1>2 DEF LoadArrives, Show, server
<1>4. FreshReplies' /\ FreshPending'
  BY <1>1, <1>3 DEF FreshReplies, FreshPending, InHand
<1>5. /\ n \in 0..Len(transcript) /\ transcript \in Seq(Entries)
      /\ Len(shown') = n /\ (n > 0 => shown'[n] = transcript[n])
      /\ (n = Len(transcript) => shown' = transcript)
  <2>1. n \in 0..Len(transcript) /\ transcript \in Seq(Entries)
    BY DEF ServerTyped, PageTyped
  <2> QED
    BY <1>3, <2>1, Prefix
<1>6. CASE n > 0 /\ transcript[n].role = "user"
  <2>1. shown' # <<>> /\ Last(shown').role = "user"
    BY <1>5, <1>6 DEF Last
  <2> QED
    BY <1>3, <1>4, <2>1 DEF FreshView, Quiet, Awaiting, IsAwaiting
<1>7. CASE n = Len(transcript) /\ \A t \in Turns : ~InHand(t)
  BY <1>3, <1>4, <1>5, <1>7 DEF FreshView, InHand
<1> QED
  BY <1>1, <1>6, <1>7 DEF FreshReplies

LEMMA StepFresh == IInv /\ [Next]_vars => FreshInv'
<1> SUFFICES ASSUME IInv, [Next]_vars, Clean'
             PROVE  FreshReplies' /\ FreshPending' /\ FreshView'
  BY DEF FreshInv
<1> DEFINE Fresh == FreshReplies /\ FreshPending /\ FreshView
<1>0. /\ ServerTyped /\ PageTyped /\ StreamInv /\ LoadInv /\ TranscriptInv /\ FreshInv
      /\ asked \in Nat
  BY TypeParts DEF IInv, PageTyped
<1>1. CASE /\ UNCHANGED <<transcript, loads, client, raced>> /\ spent \subseteq spent'
           /\ serve' = serve \/ \E t \in Turns : serve[t] = "recorded"
                                                 /\ serve' = [serve EXCEPT ![t] = "over"]
  <2>1. Fresh
    BY <1>0, <1>1, CleanBefore DEF FreshInv
  <2>2. \A t \in Turns : /\ serve'[t] = "queued" <=> serve[t] = "queued"
                         /\ serve'[t] = "working" <=> serve[t] = "working"
                         /\ serve'[t] \in {"recorded", "over"} <=> serve[t] \in {"recorded", "over"}
    BY <1>0, <1>1 DEF ServerTyped
  <2>3. FreshReplies' /\ FreshView'
    BY <1>1, <2>1, <2>2 DEF FreshReplies, FreshView, InHand, Quiet, Awaiting, loads, client
  <2>4. FreshPending'
    BY <1>1, <2>1, <2>2 DEF FreshPending, Follows, InHand, loads, client
  <2> QED
    BY <2>3, <2>4
<1>2. ASSUME NEW t \in Turns, StartTurn(t) PROVE Fresh'
  <2>1. Clean
    BY <1>2, CleanBefore DEF StartTurn
  <2> QED
    BY <1>0, <1>2, <2>1, StartFresh
<1>3. ASSUME NEW t \in Turns, RecordTurn(t) PROVE Fresh'
  <2>1. Clean
    BY <1>3, CleanBefore, HappensGrows DEF RecordTurn
  <2> QED
    BY <1>0, <1>3, <2>1, RecordFresh
<1>4. ASSUME NEW t \in Turns, Announce(t) \/ Progress(t) PROVE Fresh'
  BY <1>1, <1>4 DEF Announce, Progress
<1>5. ASSUME NEW t \in Turns, Sink(t) PROVE FALSE
  BY <1>5, HappensGrows DEF Sink, Clean
<1>6. ASSUME Crash PROVE FALSE
  BY <1>6, HappensGrows DEF Crash, Clean
<1>7. ASSUME NEW t \in Turns, Send(t) PROVE Fresh'
  BY <1>0, <1>7, SendFresh
<1>8. ASSUME NEW t \in Turns, SendLost(t) PROVE Fresh'
  <2>1. /\ asked = 0 /\ replies = {}
        /\ asked' = asked + 1 /\ replies' = replies /\ pending' = None
    BY <1>0, <1>8, NothingCrosses DEF SendLost, Interrupted, Show
  <2> QED
    BY <1>0, <2>1 DEF FreshReplies, FreshPending, FreshView, Quiet
<1>9. ASSUME NEW t \in Turns, link[t] = "open", Interrupted, raced' = raced,
             UNCHANGED <<transcript, serve>>, spent \subseteq spent'
      PROVE  Fresh'
  <2>1. asked' > 0 /\ replies' = replies /\ pending' = None
    BY <1>0, <1>9 DEF Interrupted, Show
  <2> QED
    BY <1>0, <1>9, <2>1, CleanBefore, FreshWaiting DEF FreshInv
<1>10. ASSUME NEW t \in Turns, Read(t) PROVE Fresh'
  <2>1. link[t] = "open" /\ UNCHANGED <<transcript, serve, spent, raced>>
    BY <1>10 DEF Read, server
  <2>2. CASE Head(queue[t]) = "progress"
    BY <1>1, <1>10, <2>1, <2>2 DEF Read
  <2>3. CASE Head(queue[t]) = "final"
    BY <1>0, <1>10, <2>1, <2>3, CleanBefore, ReadFresh
  <2>4. CASE Interrupted
    BY <1>9, <2>1, <2>4
  <2> QED
    BY <1>10, <2>2, <2>3, <2>4 DEF Read
<1>11. ASSUME NEW t \in Turns, Close(t) PROVE Fresh'
  BY <1>9, <1>11, HappensGrows DEF Close, server
<1>12. ASSUME NEW t \in Turns, Reset(t) PROVE FALSE
  BY <1>0, <1>12, HappensGrows DEF Reset, Clean, StreamInv
<1>13. CASE OpenThread
  <2>1. /\ Clean /\ asked' > 0 /\ replies' = replies /\ pending' = None
        /\ UNCHANGED <<transcript, serve>>
    BY <1>0, <1>13, CleanBefore DEF OpenThread, LoadInv, server
  <2> QED
    BY <1>0, <2>1, FreshWaiting DEF FreshInv
<1>14. CASE ServeLoad
  BY <1>0, <1>14, ServeFresh
<1>15. ASSUME NEW n \in replies, LoadArrives(n) PROVE Fresh'
  <2>1. Clean
    BY <1>15, CleanBefore DEF LoadArrives
  <2> QED
    BY <1>0, <1>15, <2>1, ArriveFresh
<1>16. CASE LoadFails
  <2>1. /\ Clean /\ asked > 0 /\ status' = "error" /\ pending' = pending
        /\ UNCHANGED <<transcript, serve, replies>>
    BY <1>16, CleanBefore, HappensGrows DEF LoadFails, server
  <2>2. pending = None
    BY <1>0, <2>1 DEF FreshInv, FreshPending, PageTyped
  <2> QED
    BY <1>0, <2>1, <2>2, FreshWaiting DEF FreshInv
<1>17. CASE Poll
  <2>1. /\ Clean /\ asked' > 0 /\ pending' = None
        /\ UNCHANGED <<transcript, serve, replies>>
    BY <1>0, <1>17, CleanBefore DEF Poll, Awaiting, IsAwaiting, server
  <2> QED
    BY <1>0, <2>1, FreshWaiting DEF FreshInv
<1>18. CASE Reload
  BY <1>18 DEF Reload, Show, FreshReplies, FreshPending, FreshView, Quiet
<1>19. CASE UNCHANGED vars
  BY <1>1, <1>19 DEF vars, server
<1> QED
  BY <1>2, <1>3, <1>4, <1>5, <1>6, <1>7, <1>8, <1>10, <1>11, <1>12, <1>13, <1>14, <1>15, <1>16,
     <1>17, <1>18, <1>19 DEF Next, ServerStep, LoadStep

-----------------------------------------------------------------------------
\* Every step preserves the invariant, so it always holds.
LEMMA StepIInv == IInv /\ [Next]_vars => IInv'
<1> SUFFICES ASSUME IInv, [Next]_vars PROVE IInv'
  OBVIOUS
<1>1. /\ ServerTyped' /\ PageTyped' /\ TranscriptInv' /\ StreamInv' /\ ShownInv' /\ LoadInv'
      /\ FreshInv'
  BY StepServerTyped, StepPageTyped, StepTranscript, StepStream, StepShown, StepLoad, StepFresh
<1>2. TypeOK'
  <2>1. Cardinality(Left') \in Nat /\ Cardinality(Left') <= Sends
    <3>1. Left' \in SUBSET Turns
      BY DEF Left
    <3> QED
      BY <3>1, TurnsCount
  <2>2. asked' \in 0..(MaxLoads + Sends + 1)
    BY <1>1, <2>1 DEF LoadInv, PageTyped
  <2> QED
    BY <1>1, <2>2 DEF TypeOK, ServerTyped, PageTyped, Stages
<1> QED
  BY <1>1, <1>2 DEF IInv

LEMMA AlwaysIInv == Spec => []IInv
BY InitIInv, StepIInv, PTL DEF Spec

-----------------------------------------------------------------------------
\* Every variable keeps its type; in particular no page asks for more transcripts at a time
\* than its polls and the streams it left account for.
THEOREM TypeCorrect == Spec => []TypeOK
<1>1. IInv => TypeOK
  BY DEF IInv
<1> QED
  BY <1>1, AlwaysIInv, PTL

\* However many turns are sent and whatever happens to the connections, the loads and the
\* server: the chat shows no entry twice and every answer right below its question, and a
\* page that waits for nothing shows the saved transcript unless something spoiled it.
THEOREM ChatsAreTranscripts == Spec => []ChatIsTranscript
<1>1. IInv => ShownInPairs
  BY DEF IInv, ShownInv, ShownInPairs
<1>2. IInv => ViewIsTranscript
  BY DEF IInv, FreshInv, FreshView, ViewIsTranscript
<1>3. IInv => ChatIsTranscript
  BY <1>1, <1>2 DEF ChatIsTranscript
<1> QED
  BY <1>3, AlwaysIInv, PTL

=============================================================================
