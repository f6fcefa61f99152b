---------------------------- MODULE LibraryProofs ----------------------------
(***************************************************************************)
(* The safety of a document's ingestion, withdrawal and reads for any      *)
(* versions, chunks, page size and number of ingestions, stops and         *)
(* changes.  The properties of Library are not inductive by themselves:    *)
(* IInv adds what each step of an ingestion may rely on, where the points  *)
(* in the collection can come from, what is left after a withdrawal, and   *)
(* what a read in progress has already seen.                               *)
(***************************************************************************)
EXTENDS Library, FiniteSetTheorems, TLAPS

\* The ingestion has a version, and knows what was recorded, once it has mapped the pages.
WriterInv ==
    /\ writer.pc \notin {"idle", "map"} => writer.version \in Versions
    /\ writer.pc \in {"upsert", "stale", "manifest", "manifest written", "state"} =>
        recorded = writer.read
    /\ writer.pc = "state written" => recorded = Torn
    /\ writer.pc = "tables" => recorded = writer.version
    /\ writer.pc \in {"state", "state written"} => manifest = writer.version
    /\ writer.pc # "idle" => finished = None /\ source # None /\ ~withdrawn

\* The points are all there, with what wrote them, and nothing else is.
Holds(v) == \A i \in Ids : index[i] = IF i \in Chunks[v] THEN v ELSE None

\* Versions that may have left points.
Writing ==
    CASE writer.pc = "stale" -> debris \cup {writer.version, recorded}
      [] writer.pc \in {"manifest", "manifest written", "state", "state written"} ->
            debris \cup {writer.version}
      [] OTHER -> debris \cup {recorded}

\* Whatever is in the collection was written by the recorded version or by one that stopped.
IndexInv ==
    ~Gone =>
        /\ \A i \in Present : i \in Chunks[index[i]] /\ index[i] \in Writing
        /\ writer.pc \in {"stale", "manifest", "manifest written", "state", "state written"} =>
            \A i \in Chunks[writer.version] : index[i] = writer.version
        /\ writer.pc = "tables" /\ debris = {} => Holds(writer.version)

\* Unless an ingestion stopped, state file and manifest agree before one rewrites them.
RecordInv ==
    /\ ~Gone /\ debris = {}
    /\ writer.pc \in {"idle", "map", "upsert", "stale", "manifest", "tables"}
    => recorded # Torn /\ (recorded # None => manifest = recorded)

FinishedInv ==
    finished # None => /\ ~Gone
                       /\ recorded = finished /\ tables \in {finished, None}
                       /\ debris = {} => Holds(finished)

\* A withdrawal runs alone, and nothing is left after it.
GoneInv ==
    /\ withdrawn => uploaded /\ source # None
    /\ source = None => /\ uploaded /\ Present = {}
                        /\ manifest = None /\ recorded = None /\ tables = None

\* What a read that began after the withdrawal can still see.
LateInv ==
    /\ call.late => Gone
    /\ call.kind = "search" /\ call.late => call.excluded \/ source = None
    /\ call.kind = "column" /\ call.late => source = None
    /\ call.kind = "years" /\ call.late /\ call.pc = "store" => source = None
    /\ call.kind \in {"column", "years"} /\ call.pc = "points" => ~call.late

\* What a scroll has read, and what it owes.
ScrollInv ==
    call.kind = "scroll" =>
        /\ call.there \subseteq Present
        /\ \A p \in call.got : p.id < call.offset
        /\ \A p, q \in call.got : p.id = q.id => p = q
        /\ \A i \in call.there : i < call.offset => \E p \in call.got : p.id = i

\* Only the reads of a table look for a marker and a store, and they have one before they
\* look for the points.
StoreInv ==
    /\ call.pc \in {"withdrawn", "store"} => call.kind \in {"column", "years"}
    /\ call.kind \in {"column", "years"} /\ call.pc = "points" => call.store \in Versions

IInv ==
    /\ TypeOK
    /\ WriterInv
    /\ IndexInv
    /\ RecordInv
    /\ FinishedInv
    /\ GoneInv
    /\ LateInv
    /\ ScrollInv
    /\ StoreInv
    /\ WithdrawnIsExcluded
    /\ ScrollIsComplete

-----------------------------------------------------------------------------
USE LibraryAssumption

WriterType == [pc : Steps, version : Versions \cup {None}, read : Versions \cup {None}]
CountType == [runs : 0..MaxRuns, stops : 0..MaxStops, changes : 0..MaxChanges]
CallType == [kind : Kinds \cup {None}, pc : {"none", "withdrawn", "store", "points"},
             late : BOOLEAN, excluded : BOOLEAN, store : Versions \cup {None},
             offset : Nat, got : SUBSET Points, there : SUBSET Ids]
AnswerType == [kind : Kinds \cup {None}, late : BOOLEAN, store : Versions \cup {None},
               points : SUBSET Points, there : SUBSET Ids]

LibraryTyped ==
    /\ uploaded \in BOOLEAN
    /\ source \in Versions \cup {None}
    /\ index \in [Ids -> Versions \cup {None}]
    /\ manifest \in Versions \cup {None, Torn} /\ recorded \in Versions \cup {None, Torn}
    /\ tables \in Versions \cup {None}
    /\ withdrawn \in BOOLEAN
    /\ writer \in WriterType
    /\ finished \in Versions \cup {None} /\ debris \subseteq Versions
    /\ count \in CountType

LEMMA TypeParts == TypeOK <=> LibraryTyped /\ call \in CallType /\ answer \in AnswerType
BY DEF TypeOK, LibraryTyped, WriterType, CountType, CallType, AnswerType

\* What a step of the ingestion does to its own record.
LEMMA GotoKeeps ==
    ASSUME writer \in WriterType, NEW next \in Steps, Goto(next)
    PROVE  /\ writer' \in WriterType
           /\ writer'.pc = next
           /\ writer'.version = writer.version /\ writer'.read = writer.read
BY DEF WriterType, Goto

LEMMA InitIInv == Init => IInv
<1> SUFFICES ASSUME Init PROVE IInv
  OBVIOUS
<1>1. call = NoCall /\ answer = NoAnswer /\ writer = Idle
  BY DEF Init
<1>2. NoCall \in CallType /\ NoAnswer \in AnswerType /\ Idle \in WriterType
  BY DEF NoCall, NoAnswer, Idle, CallType, AnswerType, WriterType, Steps, Kinds, Points
<1>3. count \in CountType
  BY DEF Init, CountType
<1>4. TypeOK
  BY <1>1, <1>2, <1>3, TypeParts DEF Init, LibraryTyped
<1>5. /\ writer.pc = "idle"
      /\ call.kind = None /\ call.late = FALSE /\ call.pc = "none"
      /\ answer.kind = None /\ answer.late = FALSE
  BY <1>1 DEF NoCall, NoAnswer, Idle
<1>6. None \notin Kinds /\ Present = {} /\ source # None
  BY DEF Init, Present
<1> QED
  BY <1>4, <1>5, <1>6 DEF Kinds, Init, IInv, WriterInv, IndexInv, RecordInv, FinishedInv,
     GoneInv, LateInv, ScrollInv, StoreInv, WithdrawnIsExcluded, ScrollIsComplete, Gone, Present

\* A read writes nothing.
LEMMA ReadsOnlyRead ==
    [Next]_vars => Ingest \/ WithdrawDocument \/ UNCHANGED library
BY DEF Next, Read, vars, BeginSearch, Query, BeginScroll, ScrollPage, Rehydrate, BeginColumn,
       BeginYears, CheckWithdrawn, LoadTables, RetrieveRows, Calls

\* The bounds are kept.
LEMMA CountsAreBounded ==
    ASSUME count \in CountType
    PROVE  /\ count.runs < MaxRuns => [count EXCEPT !.runs = @ + 1] \in CountType
           /\ count.stops < MaxStops => [count EXCEPT !.stops = @ + 1] \in CountType
           /\ count.changes < MaxChanges => [count EXCEPT !.changes = @ + 1] \in CountType
<1>1. /\ count.runs \in 0..MaxRuns /\ count.stops \in 0..MaxStops
      /\ count.changes \in 0..MaxChanges
  BY DEF CountType
<1>2. /\ count.runs < MaxRuns => count.runs + 1 \in 0..MaxRuns
      /\ count.stops < MaxStops => count.stops + 1 \in 0..MaxStops
      /\ count.changes < MaxChanges => count.changes + 1 \in 0..MaxChanges
  BY <1>1
<1> QED
  BY <1>2 DEF CountType

\* The library keeps its types.
LEMMA StepTyped == IInv /\ [Next]_vars => LibraryTyped'
<1> SUFFICES ASSUME IInv, [Next]_vars PROVE LibraryTyped'
  OBVIOUS
<1>0. LibraryTyped /\ WriterInv
  BY TypeParts DEF IInv
<1> USE DEF LibraryTyped, WriterInv, Steps, Idle, Goto, files, ghosts
<1>1. ASSUME NEW rebuild \in BOOLEAN, Begin(rebuild) PROVE LibraryTyped'
  BY <1>1, <1>0, GotoKeeps, CountsAreBounded DEF Begin
<1>2. CASE MapPages
  BY <1>2, <1>0 DEF MapPages, WriterType, WriterInv
<1>3. CASE MapFails
  BY <1>3, <1>0, GotoKeeps DEF MapFails, WriterType
<1>4. CASE Upsert
  BY <1>4, <1>0, GotoKeeps DEF Upsert
<1>5. CASE DeleteStale
  BY <1>5, <1>0, GotoKeeps DEF DeleteStale
<1>6. CASE WriteManifest
  BY <1>6, <1>0, GotoKeeps DEF WriteManifest
<1>7. CASE WriteState
  BY <1>7, <1>0, GotoKeeps DEF WriteState
<1>8. CASE WriteTables
  BY <1>8, <1>0, GotoKeeps DEF WriteTables, WriterType
<1>9. CASE Stop
  BY <1>9, <1>0, CountsAreBounded DEF Stop, WriterType
<1>10. ASSUME NEW v \in Versions, ChangeSource(v) PROVE LibraryTyped'
  BY <1>10, <1>0, CountsAreBounded DEF ChangeSource
<1>11. CASE Withdraw
  BY <1>11, <1>0, GotoKeeps DEF Withdraw
<1>12. CASE RemoveDerived
  BY <1>12, <1>0, GotoKeeps DEF RemoveDerived
<1>13. CASE FinishWithdrawal
  BY <1>13, <1>0, GotoKeeps DEF FinishWithdrawal
<1>14. CASE UNCHANGED library
  BY <1>14, <1>0 DEF library
<1> QED
  BY <1>1, <1>2, <1>3, <1>4, <1>5, <1>6, <1>7, <1>8, <1>9, <1>10, <1>11, <1>12, <1>13,
     <1>14, ReadsOnlyRead DEF Next, Ingest, WithdrawDocument

\* What a step of an ingestion may rely on.
LEMMA StepWriter == IInv /\ [Next]_vars => WriterInv'
<1> SUFFICES ASSUME IInv, [Next]_vars PROVE WriterInv'
  OBVIOUS
<1>0. LibraryTyped /\ WriterInv /\ GoneInv
  BY TypeParts DEF IInv
<1> USE DEF WriterInv, GoneInv, Steps, Idle, files, ghosts
<1>1. ASSUME NEW rebuild \in BOOLEAN, Begin(rebuild) PROVE WriterInv'
  BY <1>1, <1>0, GotoKeeps DEF Begin, LibraryTyped
<1>2. CASE MapPages
  BY <1>2, <1>0 DEF MapPages, LibraryTyped, IsUnchanged
<1>3. CASE MapFails
  BY <1>3, <1>0, GotoKeeps DEF MapFails
<1>4. CASE Upsert
  BY <1>4, <1>0, GotoKeeps DEF Upsert, LibraryTyped
<1>5. CASE DeleteStale
  BY <1>5, <1>0, GotoKeeps DEF DeleteStale, LibraryTyped
<1>6. CASE WriteManifest
  BY <1>6, <1>0, GotoKeeps DEF WriteManifest, LibraryTyped
<1>7. CASE WriteState
  BY <1>7, <1>0, GotoKeeps DEF WriteState, LibraryTyped
<1>8. CASE WriteTables
  BY <1>8, <1>0, GotoKeeps DEF WriteTables
<1>9. CASE Stop
  BY <1>9, <1>0, GotoKeeps DEF Stop
<1>10. ASSUME NEW v \in Versions, ChangeSource(v) PROVE WriterInv'
  BY <1>10, <1>0, GotoKeeps DEF ChangeSource
<1>11. CASE Withdraw
  BY <1>11, <1>0, GotoKeeps DEF Withdraw
<1>12. CASE RemoveDerived
  BY <1>12, <1>0, GotoKeeps DEF RemoveDerived
<1>13. CASE FinishWithdrawal
  BY <1>13, <1>0, GotoKeeps DEF FinishWithdrawal
<1>14. CASE UNCHANGED library
  BY <1>14, <1>0 DEF library
<1> QED
  BY <1>1, <1>2, <1>3, <1>4, <1>5, <1>6, <1>7, <1>8, <1>9, <1>10, <1>11, <1>12, <1>13,
     <1>14, ReadsOnlyRead DEF Next, Ingest, WithdrawDocument

\* A withdrawal runs alone, and nothing comes back after it.
LEMMA StepGone == IInv /\ [Next]_vars => GoneInv'
<1> SUFFICES ASSUME IInv, [Next]_vars PROVE GoneInv'
  OBVIOUS
<1>0. LibraryTyped /\ WriterInv /\ GoneInv
  BY TypeParts DEF IInv
<1> USE DEF WriterInv, GoneInv, Present, files, ghosts
<1>1. ASSUME NEW rebuild \in BOOLEAN, Begin(rebuild) PROVE GoneInv'
  BY <1>1, <1>0, GotoKeeps DEF Begin
<1>2. CASE MapPages
  BY <1>2, <1>0, GotoKeeps DEF MapPages
<1>3. CASE MapFails
  BY <1>3, <1>0, GotoKeeps DEF MapFails
<1>4. CASE Upsert
  BY <1>4, <1>0, GotoKeeps DEF Upsert
<1>5. CASE DeleteStale
  BY <1>5, <1>0, GotoKeeps DEF DeleteStale
<1>6. CASE WriteManifest
  BY <1>6, <1>0, GotoKeeps DEF WriteManifest
<1>7. CASE WriteState
  BY <1>7, <1>0, GotoKeeps DEF WriteState
<1>8. CASE WriteTables
  BY <1>8, <1>0, GotoKeeps DEF WriteTables
<1>9. CASE Stop
  BY <1>9, <1>0, GotoKeeps DEF Stop
<1>10. ASSUME NEW v \in Versions, ChangeSource(v) PROVE GoneInv'
  BY <1>10, <1>0, GotoKeeps DEF ChangeSource
<1>11. CASE Withdraw
  BY <1>11, <1>0, GotoKeeps DEF Withdraw
<1>12. CASE RemoveDerived
  BY <1>12, <1>0, GotoKeeps DEF RemoveDerived
<1>13. CASE FinishWithdrawal
  BY <1>13, <1>0, GotoKeeps DEF FinishWithdrawal
<1>14. CASE UNCHANGED library
  BY <1>14, <1>0 DEF library
<1> QED
  BY <1>1, <1>2, <1>3, <1>4, <1>5, <1>6, <1>7, <1>8, <1>9, <1>10, <1>11, <1>12, <1>13,
     <1>14, ReadsOnlyRead DEF Next, Ingest, WithdrawDocument

\* As many points as the version has chunks, all of its own, are all of its chunks.
LEMMA CountingIsEnough ==
    ASSUME LibraryTyped, NEW v \in Versions, IsUnchanged(v),
           \A i \in Present : i \in Chunks[index[i]] /\ index[i] = v
    PROVE  Holds(v)
<1>1. IsFiniteSet(Chunks[v])
  BY FS_Interval, FS_Subset DEF Ids
<1>2. Present \subseteq Chunks[v]
  OBVIOUS
<1>3. Present = Chunks[v]
  BY <1>1, <1>2, FS_Subset DEF IsUnchanged
<1> QED
  BY <1>3 DEF Holds, Present

\* An ingestion that finds nothing to do finds exactly its points, or points of another that
\* stopped.
LEMMA MapPagesIndex == IInv /\ MapPages => IndexInv'
<1> SUFFICES ASSUME IInv, MapPages PROVE IndexInv'
  OBVIOUS
<1>0. LibraryTyped /\ WriterInv /\ GoneInv /\ IndexInv
  BY TypeParts DEF IInv
<1>1. /\ source \in Versions /\ writer'.version = source
      /\ writer'.pc = IF IsUnchanged(source) THEN "tables" ELSE "upsert"
      /\ UNCHANGED <<index, debris, recorded, source, withdrawn>>
  BY <1>0 DEF MapPages, LibraryTyped, WriterInv, files, ghosts
<1>2. ASSUME IsUnchanged(source), debris = {}, ~Gone PROVE Holds(source)
  <2>1. \A i \in Present : i \in Chunks[index[i]] /\ index[i] = source
    BY <1>0, <1>2 DEF MapPages, IndexInv, Writing, IsUnchanged
  <2> QED
    BY <1>0, <1>1, <1>2, <2>1, CountingIsEnough
<1>3. Holds(source)' <=> Holds(source)
  BY <1>1 DEF Holds
<1>4. Writing' = Writing
  BY <1>1 DEF MapPages, Writing
<1>5. Present' = Present /\ (Gone' <=> Gone)
  BY <1>1 DEF Present, Gone
<1>6. Holds(writer.version)' <=> Holds(source)
  BY <1>1 DEF Holds
<1>7. ~Gone => \A i \in Present : i \in Chunks[index[i]] /\ index[i] \in Writing
  BY <1>0 DEF IndexInv
<1> QED
  BY <1>1, <1>2, <1>4, <1>5, <1>6, <1>7 DEF IndexInv

\* Every step of an ingestion leaves points of the version it writes, of the recorded one and
\* of those that stopped, and nothing else.
LEMMA StepIndex == IInv /\ [Next]_vars => IndexInv'
<1> SUFFICES ASSUME IInv, [Next]_vars PROVE IndexInv'
  OBVIOUS
<1>0. LibraryTyped /\ WriterInv /\ GoneInv /\ IndexInv
  BY TypeParts DEF IInv
<1> USE DEF LibraryTyped, WriterInv, GoneInv, Gone, IndexInv, Writing, Present, Steps,
       files, ghosts, Holds
<1>1. ASSUME NEW rebuild \in BOOLEAN, Begin(rebuild) PROVE IndexInv'
  BY <1>1, <1>0, GotoKeeps DEF Begin
<1>2. CASE MapPages
  BY <1>2, MapPagesIndex
<1>3. CASE MapFails
  BY <1>3, <1>0 DEF MapFails, Idle, WriterType
<1>4. CASE Upsert
  BY <1>4, <1>0, GotoKeeps DEF Upsert
<1>5. CASE DeleteStale
  BY <1>5, <1>0, GotoKeeps DEF DeleteStale
<1>6. CASE WriteManifest
  BY <1>6, <1>0, GotoKeeps DEF WriteManifest
<1>7. CASE WriteState
  BY <1>7, <1>0, GotoKeeps DEF WriteState
<1>8. CASE WriteTables
  BY <1>8, <1>0 DEF WriteTables, Idle, WriterType
<1>9. CASE Stop
  BY <1>9, <1>0 DEF Stop, Idle, WriterType
<1>10. ASSUME NEW v \in Versions, ChangeSource(v) PROVE IndexInv'
  BY <1>10, <1>0, GotoKeeps DEF ChangeSource
<1>11. CASE Withdraw
  BY <1>11, <1>0, GotoKeeps DEF Withdraw
<1>12. CASE RemoveDerived
  BY <1>12, <1>0, GotoKeeps DEF RemoveDerived
<1>13. CASE FinishWithdrawal
  BY <1>13, <1>0, GotoKeeps DEF FinishWithdrawal
<1>14. CASE UNCHANGED library
  BY <1>14, <1>0 DEF library
<1> QED
  BY <1>1, <1>2, <1>3, <1>4, <1>5, <1>6, <1>7, <1>8, <1>9, <1>10, <1>11, <1>12, <1>13,
     <1>14, ReadsOnlyRead DEF Next, Ingest, WithdrawDocument

\* State file and manifest agree, unless an ingestion stopped between them.
LEMMA StepRecord == IInv /\ [Next]_vars => RecordInv'
<1> SUFFICES ASSUME IInv, [Next]_vars PROVE RecordInv'
  OBVIOUS
<1>0. LibraryTyped /\ WriterInv /\ GoneInv /\ RecordInv
  BY TypeParts DEF IInv
<1> USE DEF LibraryTyped, WriterInv, GoneInv, RecordInv, Gone, Present, Steps, files, ghosts
<1>1. ASSUME NEW rebuild \in BOOLEAN, Begin(rebuild) PROVE RecordInv'
  BY <1>1, <1>0, GotoKeeps DEF Begin
<1>2. CASE MapPages
  BY <1>2, <1>0 DEF MapPages, Idle, WriterType
<1>3. CASE MapFails
  BY <1>3, <1>0 DEF MapFails, Idle, WriterType
<1>4. CASE Upsert
  BY <1>4, <1>0, GotoKeeps DEF Upsert
<1>5. CASE DeleteStale
  BY <1>5, <1>0, GotoKeeps DEF DeleteStale
<1>6. CASE WriteManifest
  BY <1>6, <1>0, GotoKeeps DEF WriteManifest
<1>7. CASE WriteState
  BY <1>7, <1>0, GotoKeeps DEF WriteState
<1>8. CASE WriteTables
  BY <1>8, <1>0 DEF WriteTables, Idle, WriterType
<1>9. CASE Stop
  BY <1>9, <1>0 DEF Stop, Idle, WriterType
<1>10. ASSUME NEW v \in Versions, ChangeSource(v) PROVE RecordInv'
  BY <1>10, <1>0, GotoKeeps DEF ChangeSource
<1>11. CASE Withdraw
  BY <1>11, <1>0, GotoKeeps DEF Withdraw
<1>12. CASE RemoveDerived
  BY <1>12, <1>0, GotoKeeps DEF RemoveDerived
<1>13. CASE FinishWithdrawal
  BY <1>13, <1>0, GotoKeeps DEF FinishWithdrawal
<1>14. CASE UNCHANGED library
  BY <1>14, <1>0 DEF library
<1> QED
  BY <1>1, <1>2, <1>3, <1>4, <1>5, <1>6, <1>7, <1>8, <1>9, <1>10, <1>11, <1>12, <1>13,
     <1>14, ReadsOnlyRead DEF Next, Ingest, WithdrawDocument

\* What an ingestion has finished stays until the next one begins.
LEMMA StepFinished == IInv /\ [Next]_vars => FinishedInv'
<1> SUFFICES ASSUME IInv, [Next]_vars PROVE FinishedInv'
  OBVIOUS
<1>0. LibraryTyped /\ WriterInv /\ GoneInv /\ FinishedInv /\ IndexInv
  BY TypeParts DEF IInv
<1> USE DEF LibraryTyped, WriterInv, GoneInv, FinishedInv, Gone, Holds, files, ghosts
<1>1. ASSUME NEW rebuild \in BOOLEAN, Begin(rebuild) PROVE FinishedInv'
  BY <1>1, <1>0, GotoKeeps DEF Begin
<1>2. CASE MapPages
  BY <1>2, <1>0, GotoKeeps DEF MapPages
<1>3. CASE MapFails
  BY <1>3, <1>0, GotoKeeps DEF MapFails
<1>4. CASE Upsert
  BY <1>4, <1>0, GotoKeeps DEF Upsert
<1>5. CASE DeleteStale
  BY <1>5, <1>0, GotoKeeps DEF DeleteStale
<1>6. CASE WriteManifest
  BY <1>6, <1>0, GotoKeeps DEF WriteManifest
<1>7. CASE WriteState
  BY <1>7, <1>0, GotoKeeps DEF WriteState
<1>8. CASE WriteTables
  BY <1>8, <1>0 DEF WriteTables, IndexInv, Idle, WriterType
<1>9. CASE Stop
  BY <1>9, <1>0 DEF Stop, Idle, WriterType
<1>10. ASSUME NEW v \in Versions, ChangeSource(v) PROVE FinishedInv'
  BY <1>10, <1>0, GotoKeeps DEF ChangeSource
<1>11. CASE Withdraw
  BY <1>11, <1>0, GotoKeeps DEF Withdraw
<1>12. CASE RemoveDerived
  BY <1>12, <1>0, GotoKeeps DEF RemoveDerived
<1>13. CASE FinishWithdrawal
  BY <1>13, <1>0, GotoKeeps DEF FinishWithdrawal
<1>14. CASE UNCHANGED library
  BY <1>14, <1>0 DEF library
<1> QED
  BY <1>1, <1>2, <1>3, <1>4, <1>5, <1>6, <1>7, <1>8, <1>9, <1>10, <1>11, <1>12, <1>13,
     <1>14, ReadsOnlyRead DEF Next, Ingest, WithdrawDocument

\* Every step leaves the record of the call, and of the last answer, well typed.
LEMMA TrackTyped ==
    ASSUME call \in CallType, LibraryTyped', Track PROVE call' \in CallType
BY DEF Track, CallType

LEMMA PointsTyped ==
    ASSUME LibraryTyped, NEW ids \in SUBSET Present PROVE PointsOf(ids) \in SUBSET Points
BY DEF LibraryTyped, PointsOf, Points, Present

LEMMA ReturnTyped ==
    ASSUME call \in CallType, NEW points \in SUBSET Points, Return(points)
    PROVE  call' \in CallType /\ answer' \in AnswerType
BY DEF CallType, AnswerType, Return, NoCall, Kinds

LEMMA CallsTyped ==
    ASSUME LibraryTyped, answer \in AnswerType, NEW kind \in Kinds,
           NEW pc \in {"none", "withdrawn", "store", "points"}, NEW st \in Versions \cup {None},
           Calls(kind, pc, st)
    PROVE  call' \in CallType /\ answer' \in AnswerType
<1>1. Gone \in BOOLEAN /\ withdrawn \in BOOLEAN /\ Present \in SUBSET Ids
  BY DEF LibraryTyped, Gone, Present
<1>2. call' = [kind |-> kind, pc |-> pc, late |-> Gone, excluded |-> withdrawn, store |-> st,
               offset |-> 1, got |-> {}, there |-> Present]
  BY DEF Calls, NoCall
<1>3. call' \in CallType
  BY <1>1, <1>2 DEF CallType
<1> QED
  BY <1>3 DEF Calls

-----------------------------------------------------------------------------
\* What is gone stays gone, and a step of the ingestion or of the withdrawal only takes from a
\* read in progress what it owes no longer.
CallKept ==
    /\ answer' = answer
    /\ \E ids \in SUBSET call.there :
        /\ call' = [call EXCEPT !.there = ids]
        /\ call.there \subseteq Present => ids \subseteq Present'
    /\ source = None => source' = None
    /\ Gone => Gone'

LEMMA LibrarySteps == IInv /\ [Next]_vars => CallKept \/ (Read /\ UNCHANGED library)
<1> SUFFICES ASSUME IInv, [Next]_vars PROVE CallKept \/ (Read /\ UNCHANGED library)
  OBVIOUS
<1>0. LibraryTyped /\ WriterInv /\ GoneInv /\ call \in CallType
  BY TypeParts DEF IInv
<1>a. ASSUME Track, answer' = answer, source = None => source' = None, Gone => Gone'
      PROVE  CallKept
  <2> DEFINE ids == {i \in call.there : index'[i] # None}
  <2>1. call' = [call EXCEPT !.there = ids]
    BY <1>a DEF Track
  <2>2. ids \in SUBSET call.there /\ (call.there \subseteq Present => ids \subseteq Present')
    BY DEF Present
  <2> HIDE DEF ids
  <2> QED
    BY <1>a, <2>1, <2>2 DEF CallKept
<1>b. ASSUME UNCHANGED reader, Present \subseteq Present',
             source = None => source' = None, Gone => Gone'
      PROVE  CallKept
  <2>1. call' = [call EXCEPT !.there = call.there] /\ answer' = answer
    BY <1>b, <1>0 DEF reader, CallType
  <2> QED
    BY <1>b, <2>1 DEF CallKept
<1>1. ASSUME NEW rebuild \in BOOLEAN, Begin(rebuild) PROVE CallKept
  BY <1>1, <1>0, <1>a DEF Begin, Gone
<1>2. ASSUME MapPages PROVE CallKept
  BY <1>2, <1>0, <1>b DEF MapPages, Gone, WriterInv, GoneInv, Present, LibraryTyped
<1>3. ASSUME MapFails PROVE CallKept
  BY <1>3, <1>0, <1>b DEF MapFails, Gone, WriterInv, GoneInv, Present, LibraryTyped
<1>4. ASSUME Upsert PROVE CallKept
  BY <1>4, <1>0, <1>b DEF Upsert, Gone, WriterInv, GoneInv, Present, LibraryTyped
<1>5. ASSUME DeleteStale PROVE CallKept
  BY <1>5, <1>0, <1>a DEF DeleteStale, Gone
<1>6. ASSUME WriteManifest PROVE CallKept
  BY <1>6, <1>0, <1>b DEF WriteManifest, Gone, WriterInv, GoneInv, Present, LibraryTyped
<1>7. ASSUME WriteState PROVE CallKept
  BY <1>7, <1>0, <1>b DEF WriteState, Gone, WriterInv, GoneInv, Present, LibraryTyped
<1>8. ASSUME WriteTables PROVE CallKept
  BY <1>8, <1>0, <1>b DEF WriteTables, Gone, WriterInv, GoneInv, Present, LibraryTyped
<1>9. ASSUME Stop PROVE CallKept
  BY <1>9, <1>0, <1>b DEF Stop, Gone, WriterInv, GoneInv, Present, LibraryTyped
<1>10. ASSUME NEW v \in Versions, ChangeSource(v) PROVE CallKept
  BY <1>10, <1>0, <1>b DEF ChangeSource, Gone, WriterInv, GoneInv, Present, LibraryTyped
<1>11. ASSUME Withdraw PROVE CallKept
  BY <1>11, <1>0, <1>b DEF Withdraw, Gone, WriterInv, GoneInv, Present, LibraryTyped
<1>12. ASSUME RemoveDerived PROVE CallKept
  BY <1>12, <1>0, <1>b DEF RemoveDerived, Gone, WriterInv, GoneInv, Present, LibraryTyped
<1>13. ASSUME FinishWithdrawal PROVE CallKept
  BY <1>13, <1>0, <1>a DEF FinishWithdrawal, Gone
<1>14. ASSUME Read PROVE UNCHANGED library
  BY <1>14 DEF Read, BeginSearch, Query, BeginScroll, ScrollPage, Rehydrate, BeginColumn,
               BeginYears, CheckWithdrawn, LoadTables, RetrieveRows, Calls
<1>15. ASSUME UNCHANGED vars PROVE CallKept
  BY <1>15, <1>b DEF vars, library, Gone, Present
<1> QED
  BY <1>1, <1>2, <1>3, <1>4, <1>5, <1>6, <1>7, <1>8, <1>9, <1>10, <1>11, <1>12, <1>13,
     <1>14, <1>15 DEF Next, Ingest, WithdrawDocument

-----------------------------------------------------------------------------
\* A set of point IDs that is not empty has a least one.
LEMMA LeastId ==
    ASSUME NEW S \in SUBSET Nat, S # {}
    PROVE  \E i \in S : \A j \in S : i <= j
<1>1. \E i \in S : \A j \in S : <<j, i>> \notin OpToRel(<, Nat)
  BY NatLessThanWellFounded, WFMin
<1>2. PICK i \in S : \A j \in S : <<j, i>> \notin OpToRel(<, Nat)
  BY <1>1
<1>3. \A j \in S : ~(j < i)
  BY <1>2 DEF OpToRel
<1> QED
  BY <1>3

\* A scroll returns the points in order: those of a page come before the rest.
LEMMA PageBeforeRest ==
    ASSUME LibraryTyped, call \in CallType
    PROVE  /\ Page \subseteq Present /\ Rest \subseteq Present /\ Present \subseteq Nat
           /\ \A i \in Page : i >= call.offset
           /\ \A i \in Page, j \in Rest : i < j
           /\ Rest # {} => \E m \in Rest : \A j \in Rest : m <= j
<1>1. Present \subseteq Ids /\ Ids \subseteq Nat /\ call.offset \in Nat
  BY DEF Present, Ids, CallType
<1>2. Page \subseteq Present /\ Rest \subseteq Present /\ \A i \in Page : i >= call.offset
  BY DEF Page, Rest
<1>3. ASSUME NEW i \in Page, NEW j \in Rest, j <= i PROVE FALSE
  <2> DEFINE Below(x) == {l \in Present : call.offset <= l /\ l < x}
  <2>1. i \in Nat /\ j \in Nat /\ j # i
    BY <1>1, <1>2 DEF Rest
  <2>2. IsFiniteSet(Below(i))
    <3>1. IsFiniteSet(Ids)
      BY FS_Interval DEF Ids
    <3> QED
      BY <1>1, <3>1, FS_Subset
  <2>3. Below(j) \subseteq Below(i)
    <3>1. ASSUME NEW l \in Present, l < j PROVE l < i
      BY <1>1, <1>3, <2>1, <3>1
    <3> QED
      BY <3>1
  <2>4. IsFiniteSet(Below(j)) /\ Cardinality(Below(j)) <= Cardinality(Below(i))
    BY <2>2, <2>3, FS_Subset
  <2>5. Cardinality(Below(i)) < PageSize
    BY DEF Page
  <2>6. ~(Cardinality(Below(j)) < PageSize)
    BY DEF Page, Rest
  <2>7. Cardinality(Below(i)) \in Nat /\ Cardinality(Below(j)) \in Nat
    BY <2>2, <2>4, FS_CardinalityType
  <2> QED
    BY <2>4, <2>5, <2>6, <2>7
<1>4. \A i \in Page, j \in Rest : i < j
  BY <1>1, <1>2, <1>3
<1>5. Rest # {} => \E m \in Rest : \A j \in Rest : m <= j
  BY <1>1, <1>2, LeastId
<1> QED
  BY <1>1, <1>2, <1>4, <1>5

ReaderInv == LateInv /\ ScrollInv /\ StoreInv /\ WithdrawnIsExcluded /\ ScrollIsComplete
ReaderTyped == call \in CallType /\ answer \in AnswerType

\* What an answer needs in order to keep its promises.
AnswerInv == WithdrawnIsExcluded /\ ScrollIsComplete
CallInv == LateInv /\ ScrollInv /\ StoreInv

\* Between two steps of a read, the library may lose points but gains no promise.
LEMMA OthersKeepReads ==
    ASSUME ReaderTyped, LibraryTyped', CallInv, AnswerInv, CallKept
    PROVE  ReaderTyped' /\ CallInv' /\ AnswerInv'
<1>0. PICK ids \in SUBSET call.there :
        /\ call' = [call EXCEPT !.there = ids]
        /\ call.there \subseteq Present => ids \subseteq Present'
  BY DEF CallKept
<1>1. /\ call'.kind = call.kind /\ call'.pc = call.pc /\ call'.late = call.late
      /\ call'.excluded = call.excluded /\ call'.store = call.store
      /\ call'.offset = call.offset /\ call'.got = call.got
      /\ call'.there = ids /\ call' \in CallType
  BY <1>0 DEF ReaderTyped, CallType
<1>2. call.there \subseteq Present => call'.there \subseteq call.there \cap Present'
  BY <1>0, <1>1
<1>3. answer' = answer /\ (Gone => Gone') /\ (source = None => source' = None)
  BY DEF CallKept
<1>4. LateInv' /\ StoreInv'
  BY <1>1, <1>3 DEF CallInv, LateInv, StoreInv
<1>5. ScrollInv'
  BY <1>1, <1>2 DEF CallInv, ScrollInv
<1>6. AnswerInv'
  BY <1>3 DEF AnswerInv, WithdrawnIsExcluded, ScrollIsComplete
<1> QED
  BY <1>1, <1>3, <1>4, <1>5, <1>6 DEF CallInv, ReaderTyped

\* A new call promises nothing yet.
LEMMA NewCall ==
    ASSUME LibraryTyped, ReaderTyped, AnswerInv, NEW kind \in Kinds,
           NEW pc \in {"none", "withdrawn", "store", "points"}, NEW st \in Versions \cup {None},
           Calls(kind, pc, st),
           kind \notin {"column", "years"} => pc = "points",
           kind = "column" => ~withdrawn /\ pc = "store",
           kind = "years" => pc = "withdrawn"
    PROVE  ReaderTyped' /\ CallInv' /\ AnswerInv'
<1>1. ReaderTyped'
  BY CallsTyped DEF ReaderTyped
<1>2. /\ call'.kind = kind /\ call'.pc = pc /\ call'.late = Gone /\ call'.excluded = withdrawn
      /\ call'.there = Present /\ call'.got = {} /\ call'.offset = 1 /\ call'.store = st
  BY DEF Calls, NoCall
<1>3. Present \subseteq Ids /\ (Gone' <=> Gone) /\ Present' = Present /\ source' = source
  BY DEF Calls, library, Gone, Present
<1>4. LateInv' /\ StoreInv'
  BY <1>2, <1>3 DEF LateInv, StoreInv, Gone
<1>5. ScrollInv'
  BY <1>2, <1>3 DEF ScrollInv, Ids
<1>6. AnswerInv'
  BY <1>3 DEF Calls, AnswerInv, WithdrawnIsExcluded, ScrollIsComplete
<1> QED
  BY <1>1, <1>4, <1>5, <1>6 DEF CallInv

\* A read returns what its kind promises.
Keeps(points) ==
    /\ call.late /\ call.kind \in {"search", "column", "years"} => points = {}
    /\ call.kind = "scroll" /\ ~Gone =>
        /\ call.there \subseteq {p.id : p \in points}
        /\ \A p, q \in points : p.id = q.id => p = q

LEMMA Returned ==
    ASSUME ReaderTyped, NEW points \in SUBSET Points, Return(points), UNCHANGED library,
           Keeps(points)
    PROVE  ReaderTyped' /\ CallInv' /\ AnswerInv'
<1>1. ReaderTyped'
  BY ReturnTyped DEF ReaderTyped
<1>2. /\ answer'.kind = call.kind /\ answer'.late = call.late /\ answer'.store = call.store
      /\ answer'.points = points /\ answer'.there = call.there
      /\ call'.kind = None /\ call'.late = FALSE /\ call'.pc = "none"
  BY DEF Return, NoCall
<1>3. None \notin Kinds
  OBVIOUS
<1>4. CallInv'
  BY <1>2, <1>3 DEF CallInv, LateInv, ScrollInv, StoreInv, Kinds
<1>5. Gone' <=> Gone
  BY DEF Gone, library
<1>6. AnswerInv'
  BY <1>2, <1>5 DEF AnswerInv, WithdrawnIsExcluded, ScrollIsComplete, Keeps
<1> QED
  BY <1>1, <1>4, <1>6

\* The next page: all that the scroll owes below its new offset has been read, once; and at the
\* end, all that it owes.
LEMMA NextPage ==
    ASSUME LibraryTyped, ReaderTyped, ScrollInv, call.kind = "scroll"
    PROVE  LET got == call.got \cup PointsOf(Page)
           IN  /\ got \in SUBSET Points
               /\ \A p, q \in got : p.id = q.id => p = q
               /\ \A i \in call.there : i \notin Rest => \E p \in got : p.id = i
               /\ \A p \in got, j \in Rest : p.id < j
<1> DEFINE got == call.got \cup PointsOf(Page)
<1>0. /\ Page \subseteq Present /\ Rest \subseteq Present /\ Present \subseteq Nat
      /\ \A i \in Page : i >= call.offset
      /\ \A i \in Page, j \in Rest : i < j
  BY PageBeforeRest DEF ReaderTyped
<1>1. call.offset \in Nat /\ call.got \in SUBSET Points /\ call.there \subseteq Ids
  BY DEF ReaderTyped, CallType
<1>2. got \in SUBSET Points
  BY <1>0, <1>1, PointsTyped
<1>3. /\ \A p \in PointsOf(Page) : p.id \in Page /\ p = [id |-> p.id, version |-> index[p.id]]
      /\ \A i \in Page : \E p \in PointsOf(Page) : p.id = i
  <2>1. \A p \in PointsOf(Page) : \E i \in Page : p = [id |-> i, version |-> index[i]]
    BY DEF PointsOf
  <2>2. \A i \in Page : [id |-> i, version |-> index[i]] \in PointsOf(Page)
    BY DEF PointsOf
  <2>3. ASSUME NEW p \in PointsOf(Page)
        PROVE  p.id \in Page /\ p = [id |-> p.id, version |-> index[p.id]]
    BY <2>1
  <2>4. ASSUME NEW i \in Page PROVE \E p \in PointsOf(Page) : p.id = i
    BY <2>2
  <2> QED
    BY <2>3, <2>4
<1>4. /\ call.there \subseteq Present
      /\ \A p \in call.got : p.id < call.offset
      /\ \A p, q \in call.got : p.id = q.id => p = q
      /\ \A i \in call.there : i < call.offset => \E p \in call.got : p.id = i
  BY DEF ScrollInv
<1>5. \A p \in call.got : p.id \in Nat
  BY <1>1 DEF Points, Ids
<1>6. \A p \in call.got, q \in PointsOf(Page) : p.id # q.id
  BY <1>0, <1>1, <1>3, <1>4, <1>5
<1>7. \A p, q \in got : p.id = q.id => p = q
  BY <1>3, <1>4, <1>6
<1>8. ASSUME NEW i \in call.there, i \notin Rest PROVE \E p \in got : p.id = i
  <2>1. i \in Present /\ i \in Nat
    BY <1>0, <1>4
  <2>2. CASE i < call.offset
    BY <1>4, <2>2
  <2>3. CASE i >= call.offset
    <3>1. i \in Page
      BY <1>8, <2>1, <2>3 DEF Rest
    <3> QED
      BY <1>3, <3>1
  <2> QED
    BY <1>1, <2>1, <2>2, <2>3
<1>9. ASSUME NEW p \in got, NEW j \in Rest PROVE p.id < j
  <2>1. j \in Nat /\ j >= call.offset
    BY <1>0 DEF Rest
  <2>2. CASE p \in call.got
    BY <1>1, <1>4, <1>5, <2>1, <2>2
  <2>3. CASE p \in PointsOf(Page)
    BY <1>0, <1>3, <2>3
  <2> QED
    BY <2>2, <2>3
<1> HIDE DEF got
<1>10. /\ got \in SUBSET Points
       /\ \A p, q \in got : p.id = q.id => p = q
       /\ \A i \in call.there : i \notin Rest => \E p \in got : p.id = i
       /\ \A p \in got, j \in Rest : p.id < j
  BY <1>2, <1>7, <1>8, <1>9
<1> QED
  BY <1>10 DEF got

LEMMA StepScroll ==
    ASSUME LibraryTyped, ReaderTyped, CallInv, AnswerInv, ScrollPage
    PROVE  ReaderTyped' /\ CallInv' /\ AnswerInv'
<1>0. call.kind = "scroll" /\ UNCHANGED library
  BY DEF ScrollPage
<1>1. PICK got : got = call.got \cup PointsOf(Page)
  OBVIOUS
<1>2. /\ got \in SUBSET Points
      /\ \A p, q \in got : p.id = q.id => p = q
      /\ \A i \in call.there : i \notin Rest => \E p \in got : p.id = i
      /\ \A p \in got, j \in Rest : p.id < j
  BY <1>0, <1>1, NextPage DEF CallInv
<1>3. CASE Rest # {}
  <2>1. PICK m \in Rest : /\ \A j \in Rest : m <= j
                          /\ m = CHOOSE i \in Rest : \A j \in Rest : i <= j
    BY <1>3, PageBeforeRest DEF ReaderTyped
  <2>2. call' = [call EXCEPT !.got = got, !.offset = m] /\ answer' = answer
    BY <1>1, <1>3, <2>1 DEF ScrollPage
  <2>3. m \in Nat /\ Rest \subseteq Nat
    BY <2>1, PageBeforeRest DEF ReaderTyped
  <2>4. /\ call' \in CallType
        /\ call'.kind = call.kind /\ call'.late = call.late /\ call'.there = call.there
        /\ call'.pc = call.pc /\ call'.got = got /\ call'.offset = m
    BY <1>2, <2>2, <2>3 DEF ReaderTyped, CallType
  <2>5. ASSUME NEW i \in call.there, i < m, i \in Rest PROVE FALSE
    <3>1. m <= i /\ i \in Nat
      BY <2>1, <2>3, <2>5
    <3> QED
      BY <2>3, <2>5, <3>1
  <2>6. Present' = Present /\ (Gone' <=> Gone)
    BY <1>0 DEF library, Present, Gone
  <2>7. ScrollInv'
    BY <1>0, <1>2, <2>1, <2>4, <2>5, <2>6 DEF CallInv, ScrollInv
  <2>8. LateInv' /\ StoreInv'
    BY <1>0, <2>4, <2>6 DEF CallInv, LateInv, StoreInv
  <2>9. AnswerInv'
    BY <2>2, <2>6 DEF AnswerInv, WithdrawnIsExcluded, ScrollIsComplete
  <2> QED
    BY <2>2, <2>4, <2>7, <2>8, <2>9 DEF CallInv, ReaderTyped
<1>4. CASE Rest = {}
  <2>1. PICK points : /\ points = IF withdrawn THEN {} ELSE got
                      /\ Return(points)
    BY <1>1, <1>4 DEF ScrollPage
  <2>2. points \in SUBSET Points
    BY <1>2, <2>1
  <2>3. \A i \in call.there : \E p \in got : p.id = i
    BY <1>2, <1>4
  <2>4. Keeps(points)
    BY <1>0, <1>2, <2>1, <2>3 DEF Keeps, Gone
  <2> QED
    BY <1>0, <2>1, <2>2, <2>4, Returned
<1> QED
  BY <1>3, <1>4

\* Every step of a read keeps what reads promise.
LEMMA StepRead ==
    ASSUME LibraryTyped, GoneInv, ReaderTyped, CallInv, AnswerInv, Read
    PROVE  ReaderTyped' /\ CallInv' /\ AnswerInv'
<1>1. CASE BeginSearch
  BY <1>1, NewCall DEF BeginSearch, Kinds
<1>2. CASE BeginScroll
  BY <1>2, NewCall DEF BeginScroll, Kinds
<1>3. CASE BeginColumn
  BY <1>3, NewCall DEF BeginColumn, Kinds
<1>4. CASE BeginYears
  <2>1. manifest \in Versions \cup {None} /\ Calls("years", "withdrawn", manifest)
    BY <1>4 DEF BeginYears, LibraryTyped
  <2> QED
    BY <2>1, NewCall DEF Kinds
<1>5. CASE Query
  <2>1. PICK ids \in SUBSET Present : Return(IF call.excluded THEN {} ELSE PointsOf(ids))
    BY <1>5 DEF Query
  <2>2. PICK points : points = IF call.excluded THEN {} ELSE PointsOf(ids)
    OBVIOUS
  <2>3. points \in SUBSET Points /\ call.kind = "search" /\ UNCHANGED library
    BY <1>5, <2>2, PointsTyped DEF Query
  <2>4. call.late /\ ~call.excluded => Present = {}
    BY <2>3 DEF CallInv, LateInv, GoneInv
  <2>5. Present = {} => PointsOf(ids) = {}
    BY DEF PointsOf
  <2>6. Keeps(points)
    BY <2>2, <2>3, <2>4, <2>5 DEF Keeps
  <2> QED
    BY <2>1, <2>2, <2>3, <2>6, Returned
<1>6. CASE ScrollPage
  BY <1>6, StepScroll
<1>7. CASE Rehydrate
  <2>1. PICK ids \in SUBSET Present :
            answer' = [NoAnswer EXCEPT !.kind = "remembered", !.late = Gone,
                                       !.points = PointsOf(ids)]
    <3>1. {p.id : p \in answer.points} \in SUBSET Present
      BY <1>7 DEF Rehydrate, Present, ReaderTyped, AnswerType, Points
    <3> QED
      BY <1>7, <3>1 DEF Rehydrate
  <2>2. Gone \in BOOLEAN /\ PointsOf(ids) \in SUBSET Points
    BY PointsTyped DEF Gone, LibraryTyped
  <2>3. answer' \in AnswerType /\ answer'.kind = "remembered"
    BY <2>1, <2>2 DEF NoAnswer, AnswerType, Kinds
  <2>4. call' = call /\ UNCHANGED library
    BY <1>7 DEF Rehydrate
  <2>5. CallInv'
    BY <2>4 DEF CallInv, LateInv, ScrollInv, StoreInv, library, Present, Gone
  <2> QED
    BY <2>3, <2>4, <2>5 DEF ReaderTyped, AnswerInv, WithdrawnIsExcluded, ScrollIsComplete
<1>8. CASE CheckWithdrawn \/ LoadTables
  <2>1. CASE Return({})
    <3>1. Keeps({}) /\ UNCHANGED library
      BY <1>8 DEF Keeps, CheckWithdrawn, LoadTables, CallInv, StoreInv
    <3> QED
      BY <2>1, <3>1, Returned
  <2>2. CASE call' = [call EXCEPT !.pc = "store"] /\ call.pc = "withdrawn" /\ ~withdrawn
             /\ UNCHANGED <<library, answer>>
    <3>1. /\ call' \in CallType /\ answer' = answer /\ UNCHANGED library
          /\ call'.kind = call.kind /\ call'.late = call.late /\ call'.pc = "store"
          /\ call'.there = call.there /\ call'.got = call.got /\ call'.offset = call.offset
          /\ call'.excluded = call.excluded
      BY <2>2 DEF ReaderTyped, CallType, LibraryTyped
    <3>2. Present' = Present /\ (Gone' <=> Gone) /\ source' = source
      BY <3>1 DEF library, Present, Gone
    <3>3. ScrollInv'
      BY <3>1, <3>2 DEF CallInv, ScrollInv
    <3>4. LateInv' /\ StoreInv'
      BY <2>2, <3>1, <3>2 DEF CallInv, LateInv, StoreInv, Gone, GoneInv, LibraryTyped
    <3>5. AnswerInv'
      BY <3>1, <3>2 DEF AnswerInv, WithdrawnIsExcluded, ScrollIsComplete
    <3> QED
      BY <3>1, <3>3, <3>4, <3>5 DEF CallInv, ReaderTyped
  <2>3. CASE call' = [call EXCEPT !.pc = "points", !.store = tables] /\ call.pc = "store"
             /\ tables # None /\ UNCHANGED <<library, answer>>
    <3>1. /\ call' \in CallType /\ answer' = answer /\ UNCHANGED library
          /\ call'.kind = call.kind /\ call'.late = call.late /\ call'.pc = "points"
          /\ call'.there = call.there /\ call'.got = call.got /\ call'.offset = call.offset
          /\ call'.excluded = call.excluded /\ call'.store = tables
      BY <2>3 DEF ReaderTyped, CallType, LibraryTyped
    <3>2. Present' = Present /\ (Gone' <=> Gone) /\ source' = source
      BY <3>1 DEF library, Present, Gone
    <3>3. ScrollInv'
      BY <3>1, <3>2 DEF CallInv, ScrollInv
    <3>4. LateInv' /\ StoreInv'
      BY <2>3, <3>1, <3>2 DEF CallInv, LateInv, StoreInv, Gone, GoneInv, LibraryTyped
    <3>5. AnswerInv'
      BY <3>1, <3>2 DEF AnswerInv, WithdrawnIsExcluded, ScrollIsComplete
    <3> QED
      BY <3>1, <3>3, <3>4, <3>5 DEF CallInv, ReaderTyped
  <2> QED
    BY <1>8, <2>1, <2>2, <2>3 DEF CheckWithdrawn, LoadTables
<1>9. CASE RetrieveRows
  <2>1. PICK ids \in SUBSET Chunks[call.store] :
            Return(IF Verified(ids) THEN PointsOf(ids) ELSE {})
    BY <1>9 DEF RetrieveRows
  <2>2. /\ call.kind \in {"column", "years"} /\ call.pc = "points" /\ ~call.late
        /\ UNCHANGED library
    BY <1>9 DEF RetrieveRows, CallInv, LateInv
  <2>3. CASE Verified(ids)
    <3>1. ids \in SUBSET Present
      BY <2>2, <2>3 DEF Verified, Present, CallInv, StoreInv
    <3>2. PointsOf(ids) \in SUBSET Points
      BY <3>1, PointsTyped
    <3>3. Keeps(PointsOf(ids))
      BY <2>2, <2>3 DEF Keeps, Verified, PointsOf
    <3> QED
      BY <2>1, <2>2, <2>3, <3>2, <3>3, Returned
  <2>4. CASE ~Verified(ids)
    BY <2>1, <2>2, <2>4, Returned DEF Keeps
  <2> QED
    BY <2>3, <2>4
<1> QED
  BY <1>1, <1>2, <1>3, <1>4, <1>5, <1>6, <1>7, <1>8, <1>9 DEF Read

-----------------------------------------------------------------------------
\* Every step preserves the invariant, so it always holds.
LEMMA StepIInv == IInv /\ [Next]_vars => IInv'
<1> SUFFICES ASSUME IInv, [Next]_vars PROVE IInv'
  OBVIOUS
<1>1. /\ LibraryTyped /\ ReaderTyped /\ GoneInv /\ CallInv /\ AnswerInv
      /\ LibraryTyped'
  BY TypeParts, StepTyped DEF IInv, CallInv, AnswerInv, ReaderTyped
<1>2. ReaderTyped' /\ CallInv' /\ AnswerInv'
  BY <1>1, LibrarySteps, OthersKeepReads, StepRead
<1>3. TypeOK'
  BY <1>1, <1>2, TypeParts DEF ReaderTyped, TypeOK, LibraryTyped, CallType, AnswerType,
                               WriterType, CountType
<1> QED
  BY <1>2, <1>3, StepWriter, StepGone, StepIndex, StepRecord, StepFinished
     DEF IInv, CallInv, AnswerInv

LEMMA AlwaysIInv == Spec => []IInv
BY InitIInv, StepIInv, PTL DEF Spec

-----------------------------------------------------------------------------
\* Every variable keeps its type.
THEOREM TypeCorrect == Spec => []TypeOK
<1>1. IInv => TypeOK
  BY DEF IInv
<1> QED
  BY <1>1, AlwaysIInv, PTL

\* Whatever versions there are and however many ingestions, changes and stops: one that ends
\* leaves the points, the manifest and the state file of its version and nothing else, unless
\* an ingestion that stopped has left some.
THEOREM IngestionsAreExact == Spec => []IngestedExactly
<1>1. IInv => IngestedExactly
  BY DEF IInv, FinishedInv, RecordInv, WriterInv, TypeOK, Steps, IngestedExactly, Holds
<1> QED
  BY <1>1, AlwaysIInv, PTL

\* No search or table lookup that begins after a withdrawal returns the document.
THEOREM WithdrawalsAreFinal == Spec => []WithdrawnIsExcluded
<1>1. IInv => WithdrawnIsExcluded
  BY DEF IInv
<1> QED
  BY <1>1, AlwaysIInv, PTL

\* A scroll misses no point that is there all along and returns none twice, for any page size and
\* whatever is written between its pages.
THEOREM ScrollsAreComplete == Spec => []ScrollIsComplete
<1>1. IInv => ScrollIsComplete
  BY DEF IInv
<1> QED
  BY <1>1, AlwaysIInv, PTL

=============================================================================
