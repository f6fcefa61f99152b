------------------------------- MODULE Library -------------------------------
(***************************************************************************)
(* One document of the library: the ingestion that writes its points,      *)
(* manifest, state file and table store, step by step and over sources     *)
(* that change (backend/app/ingestion/service.py), its withdrawal          *)
(* (uploads.py), and the reads of a turn that run at the same time         *)
(* (backend/app/retrieval/service.py, backend/app/agent/tools.py).         *)
(*                                                                         *)
(* A point's ID is a hash of its page, position and text, so points of two *)
(* versions that share an ID share their text and differ at most in the    *)
(* rest of the payload: a point is an ID and the version that wrote it     *)
(* last.  Scores, and the table titles added to section paths, are left    *)
(* out.                                                                    *)
(***************************************************************************)
EXTENDS Naturals, FiniteSets

CONSTANTS
    Versions,    \* versions of the source
    None,
    Torn,        \* a file truncated and not written
    MaxId,       \* point IDs are 1..MaxId, in the order of a scroll
    Chunks,      \* the points of a version
    Checksum,    \* of its PDF; the Markdown may change without it
    PageSize,    \* points per page of a scroll
    MaxRuns,     \* bound: ingestions
    MaxStops,    \* bound: ingestions that raise or die
    MaxChanges   \* bound: replacements of the source

Ids == 1..MaxId
Kinds == {"search", "scroll", "remembered", "column", "years"}

ASSUME LibraryAssumption ==
    /\ None \notin Versions \cup Kinds /\ Torn \notin Versions /\ None # Torn
    /\ MaxId \in Nat /\ PageSize \in Nat \ {0}
    /\ Chunks \in [Versions -> (SUBSET Ids) \ {{}}]
    /\ DOMAIN Checksum = Versions
    /\ MaxRuns \in Nat /\ MaxStops \in Nat /\ MaxChanges \in Nat

VARIABLES
    uploaded,    \* uploads can be withdrawn, curated documents can be replaced
    source,      \* the version on disk; None when discarded
    index,       \* what wrote each point; None where there is none
    manifest,    \* manifests/generated/<document>.json
    recorded,    \* processed/<document>.json, the state file
    tables,      \* processed/tables/<document>.json
    withdrawn,   \* the withdrawal marker
    writer,      \* the ingestion: pc, version, and the state it has read
    finished,    \* the version the last ingestion ended with
    debris,      \* versions upserted by ingestions that stopped before they recorded them
    count,       \* runs, stops and changes so far
    call,        \* the tool call in progress
    answer       \* what the last one returned, and how it ended

files == <<manifest, recorded, tables>>
ghosts == <<finished, debris>>
library == <<uploaded, source, index, files, withdrawn, writer, ghosts, count>>
reader == <<call, answer>>
vars == <<library, reader>>

Steps == {"idle", "map", "upsert", "stale", "manifest", "manifest written",
          "state", "state written", "tables"}
Points == [id : Ids, version : Versions]

NoCall == [kind |-> None, pc |-> "none", late |-> FALSE, excluded |-> FALSE,
           store |-> None, offset |-> 1, got |-> {}, there |-> {}]
NoAnswer == [kind |-> None, late |-> FALSE, store |-> None, points |-> {}, there |-> {}]

TypeOK ==
    /\ uploaded \in BOOLEAN
    /\ source \in Versions \cup {None}
    /\ index \in [Ids -> Versions \cup {None}]
    /\ manifest \in Versions \cup {None, Torn} /\ recorded \in Versions \cup {None, Torn}
    /\ tables \in Versions \cup {None}
    /\ withdrawn \in BOOLEAN
    /\ writer \in [pc : Steps, version : Versions \cup {None}, read : Versions \cup {None}]
    /\ finished \in Versions \cup {None} /\ debris \subseteq Versions
    /\ count \in [runs : 0..MaxRuns, stops : 0..MaxStops, changes : 0..MaxChanges]
    /\ call \in [kind : Kinds \cup {None}, pc : {"none", "withdrawn", "store", "points"},
                 late : BOOLEAN, excluded : BOOLEAN, store : Versions \cup {None},
                 offset : Nat, got : SUBSET Points, there : SUBSET Ids]
    /\ answer \in [kind : Kinds \cup {None}, late : BOOLEAN, store : Versions \cup {None},
                   points : SUBSET Points, there : SUBSET Ids]

Idle == [pc |-> "idle", version |-> None, read |-> None]

Init ==
    /\ uploaded \in BOOLEAN
    /\ source \in Versions
    /\ index = [i \in Ids |-> None]
    /\ manifest = None /\ recorded = None /\ tables = None
    /\ withdrawn = FALSE
    /\ writer = Idle
    /\ finished = None /\ debris = {}
    /\ count = [runs |-> 0, stops |-> 0, changes |-> 0]
    /\ call = NoCall /\ answer = NoAnswer

Present == {i \in Ids : index[i] # None}
PointsOf(ids) == {[id |-> i, version |-> index[i]] : i \in ids}
Goto(step) == writer' = [writer EXCEPT !.pc = step]

\* Points that vanish in the middle of a scroll are not owed to it.
Track == call' = [call EXCEPT !.there = {i \in @ : index'[i] # None}]

-----------------------------------------------------------------------------
(***************************************************************************)
(* Ingestion                                                               *)
(***************************************************************************)
\* The collection is created, or kept, or deleted and created again.
Begin(rebuild) ==
    /\ writer.pc = "idle" /\ source # None /\ ~withdrawn
    /\ count.runs < MaxRuns
    /\ count' = [count EXCEPT !.runs = @ + 1]
    /\ index' = IF rebuild THEN [i \in Ids |-> None] ELSE index
    /\ Goto("map")
    /\ finished' = None
    /\ Track
    /\ UNCHANGED <<uploaded, source, files, withdrawn, debris, answer>>

\* Mutant: the state file is enough.
IsUnchangedState(v) == recorded = v

\* The state file names this version and the collection holds as many points.
IsUnchanged(v) == recorded = v /\ Cardinality(Present) = Cardinality(Chunks[v])

\* The pages are mapped and chunked; a state file that is no JSON makes the ingestion fail.
MapPages ==
    /\ writer.pc = "map" /\ recorded # Torn
    /\ writer' = [pc |-> IF IsUnchanged(source) THEN "tables" ELSE "upsert",
                  version |-> source, read |-> recorded]
    /\ UNCHANGED <<uploaded, source, index, files, withdrawn, ghosts, count, reader>>

Upsert ==
    /\ writer.pc = "upsert"
    /\ index' = [i \in Ids |-> IF i \in Chunks[writer.version] THEN writer.version ELSE index[i]]
    /\ Goto("stale")
    /\ UNCHANGED <<uploaded, source, files, withdrawn, ghosts, count, reader>>

\* Points the state file names and the new version does not have.
DeleteStale ==
    LET stale == IF writer.read = None THEN {} ELSE Chunks[writer.read] \ Chunks[writer.version]
    IN  /\ writer.pc = "stale"
        /\ index' = [i \in Ids |-> IF i \in stale THEN None ELSE index[i]]
        /\ Goto("manifest")
        /\ Track
        /\ UNCHANGED <<uploaded, source, files, withdrawn, ghosts, count, answer>>

\* write_text truncates the file before it writes.
WriteManifest ==
    /\ \/ writer.pc = "manifest" /\ manifest' = Torn /\ Goto("manifest written")
       \/ writer.pc = "manifest written" /\ manifest' = writer.version /\ Goto("state")
    /\ UNCHANGED <<uploaded, source, index, recorded, tables, withdrawn, ghosts, count, reader>>

WriteState ==
    /\ \/ /\ writer.pc = "state" /\ recorded' = Torn /\ Goto("state written")
          /\ UNCHANGED debris
       \/ /\ writer.pc = "state written" /\ recorded' = writer.version /\ Goto("tables")
          /\ debris' = debris \ {writer.version}
    /\ UNCHANGED <<uploaded, source, index, manifest, tables, withdrawn, finished, count, reader>>

\* The store is replaced at once, or removed when the extraction fails.
WriteTables ==
    /\ writer.pc = "tables"
    /\ tables' \in {writer.version, None}
    /\ writer' = Idle
    /\ finished' = writer.version
    /\ UNCHANGED <<uploaded, source, index, manifest, recorded, withdrawn, debris, count, reader>>

\* An exception, which ingest reports and forgets, or the death of the process.
Stop ==
    /\ writer.pc # "idle"
    /\ count.stops < MaxStops
    /\ count' = [count EXCEPT !.stops = @ + 1]
    /\ debris' = IF writer.pc \in {"stale", "manifest", "manifest written", "state", "state written"}
                 THEN debris \cup {writer.version} ELSE debris
    /\ writer' = Idle
    /\ UNCHANGED <<uploaded, source, index, files, withdrawn, finished, reader>>

\* The state file was left torn by an ingestion that stopped: json.loads raises.
MapFails ==
    /\ writer.pc = "map" /\ recorded = Torn
    /\ writer' = Idle
    /\ UNCHANGED <<uploaded, source, index, files, withdrawn, ghosts, count, reader>>

\* The operator replaces the PDF or the Markdown.
ChangeSource(v) ==
    /\ ~uploaded /\ source # v
    /\ count.changes < MaxChanges
    /\ count' = [count EXCEPT !.changes = @ + 1]
    /\ source' = v
    /\ finished' = None
    /\ UNCHANGED <<uploaded, index, files, withdrawn, writer, debris, reader>>

-----------------------------------------------------------------------------
(***************************************************************************)
(* Withdrawal, while nothing ingests the document                          *)
(***************************************************************************)
\* The marker is written before anything is touched.
Withdraw ==
    /\ uploaded /\ writer.pc = "idle" /\ source # None /\ ~withdrawn
    /\ withdrawn' = TRUE
    /\ finished' = None
    /\ UNCHANGED <<uploaded, source, index, files, writer, debris, count, reader>>

\* Derived files first, so that a withdrawal that stops here leaves points and marker.
RemoveDerived ==
    /\ withdrawn
    /\ manifest' = None /\ recorded' = None /\ tables' = None
    /\ UNCHANGED <<uploaded, source, index, withdrawn, writer, ghosts, count, reader>>

\* Mutant: points that cannot be removed are left, and the withdrawal ends.
FinishWithdrawalAnyway ==
    /\ withdrawn /\ manifest = None /\ recorded = None /\ tables = None
    /\ \/ index' = [i \in Ids |-> None]
       \/ UNCHANGED index
    /\ source' = None /\ withdrawn' = FALSE
    /\ Track
    /\ UNCHANGED <<uploaded, files, writer, ghosts, count, answer>>

\* The points, then the source and the marker.
FinishWithdrawal ==
    /\ withdrawn /\ manifest = None /\ recorded = None /\ tables = None
    /\ \/ Present # {} /\ index' = [i \in Ids |-> None] /\ UNCHANGED <<source, withdrawn>>
       \/ Present = {} /\ source' = None /\ withdrawn' = FALSE /\ UNCHANGED index
    /\ Track
    /\ UNCHANGED <<uploaded, files, writer, ghosts, count, answer>>

-----------------------------------------------------------------------------
(***************************************************************************)
(* Reads                                                                   *)
(***************************************************************************)
Gone == withdrawn \/ source = None
Return(points) ==
    /\ answer' = [kind |-> call.kind, late |-> call.late, store |-> call.store,
                  points |-> points, there |-> call.there]
    /\ call' = NoCall
Calls(kind, pc, store) ==
    /\ call.kind = None
    /\ call' = [NoCall EXCEPT !.kind = kind, !.pc = pc, !.late = Gone,
                              !.excluded = withdrawn, !.store = store, !.there = Present]
    /\ UNCHANGED <<library, answer>>

\* The withdrawn documents are read, then the query is embedded over the network.
BeginSearch == Calls("search", "points", None)

\* The best of the points, whichever they are.
Query ==
    /\ call.kind = "search"
    /\ \E ids \in SUBSET Present : Return(IF call.excluded THEN {} ELSE PointsOf(ids))
    /\ UNCHANGED library

\* _scroll_all: page by page, from the first ID after the last page.
BeginScroll == Calls("scroll", "points", None)

Page ==
    {i \in Present : /\ i >= call.offset
                     /\ Cardinality({j \in Present : call.offset <= j /\ j < i}) < PageSize}
Rest == {i \in Present : i >= call.offset} \ Page

\* Mutant: the next page begins after as many points as were read.
Skipped == {i \in Present : Cardinality({j \in Present : j < i}) < Cardinality(call.got)}
PageByCount ==
    {i \in Present \ Skipped : Cardinality({j \in Present \ Skipped : j < i}) < PageSize}
ScrollByCount ==
    /\ call.kind = "scroll"
    /\ IF (Present \ Skipped) \ PageByCount # {}
       THEN call' = [call EXCEPT !.got = @ \cup PointsOf(PageByCount)] /\ UNCHANGED answer
       ELSE Return(IF withdrawn THEN {} ELSE call.got \cup PointsOf(PageByCount))
    /\ UNCHANGED library

ScrollPage ==
    /\ call.kind = "scroll"
    /\ IF Rest # {}
       THEN /\ call' = [call EXCEPT !.got = @ \cup PointsOf(Page),
                                    !.offset = CHOOSE i \in Rest : \A j \in Rest : i <= j]
            /\ UNCHANGED answer
       ELSE Return(IF withdrawn THEN {} ELSE call.got \cup PointsOf(Page))
    /\ UNCHANGED library

\* get_evidence_by_ids: the chunks that an earlier call returned, all of them there and of
\* the same PDF, or an error.
Rehydrate ==
    /\ call.kind = None
    /\ answer.points # {}
    /\ \A p \in answer.points : index[p.id] # None /\ Checksum[index[p.id]] = Checksum[p.version]
    /\ answer' = [NoAnswer EXCEPT !.kind = "remembered", !.late = Gone,
                                  !.points = PointsOf({p.id : p \in answer.points})]
    /\ UNCHANGED <<library, call>>

\* select_table_column and select_year_cells refuse a withdrawn document.  The second takes
\* the document from the manifests and a store of the same checksum only.
BeginColumn == ~withdrawn /\ Calls("column", "store", None)
BeginYears == manifest \notin {None, Torn} /\ Calls("years", "withdrawn", manifest)

CheckWithdrawn ==
    /\ call.pc = "withdrawn"
    /\ IF withdrawn THEN Return({})
       ELSE call' = [call EXCEPT !.pc = "store"] /\ UNCHANGED answer
    /\ UNCHANGED library

\* The store is read again when its file has changed.
LoadTables ==
    /\ call.pc = "store"
    /\ IF tables = None \/ (call.kind = "years" /\ Checksum[tables] # Checksum[call.store])
       THEN Return({})
       ELSE call' = [call EXCEPT !.pc = "points", !.store = tables] /\ UNCHANGED answer
    /\ UNCHANGED library

\* Every selected row must still sit in its chunk, under the same checksum.
Verified(ids) ==
    \A i \in ids : index[i] # None /\ Checksum[index[i]] = Checksum[call.store]

RetrieveRows ==
    /\ call.kind \in {"column", "years"} /\ call.pc = "points"
    /\ \E ids \in SUBSET Chunks[call.store] : Return(IF Verified(ids) THEN PointsOf(ids) ELSE {})
    /\ UNCHANGED library

-----------------------------------------------------------------------------
Ingest ==
    \/ \E rebuild \in BOOLEAN : Begin(rebuild)
    \/ MapPages \/ MapFails \/ Upsert \/ DeleteStale
    \/ WriteManifest \/ WriteState \/ WriteTables \/ Stop
    \/ \E v \in Versions : ChangeSource(v)
WithdrawDocument == Withdraw \/ RemoveDerived \/ FinishWithdrawal
Read ==
    \/ BeginSearch \/ Query
    \/ BeginScroll \/ ScrollPage
    \/ Rehydrate
    \/ BeginColumn \/ BeginYears \/ CheckWithdrawn \/ LoadTables \/ RetrieveRows

Next == Ingest \/ WithdrawDocument \/ Read
Spec == Init /\ [][Next]_vars

-----------------------------------------------------------------------------
(***************************************************************************)
(* Properties                                                              *)
(***************************************************************************)
\* An ingestion that ends leaves exactly the points of its version, however many attempts it
\* took, whatever was there before, and also when it found nothing to do; manifest and state
\* file agree, and the table store is of the same version or missing.  The exception: an
\* ingestion that stopped between writing its points and recording them, as long as none has
\* recorded the same version since.  What it left no later one knows of: points, or a torn
\* manifest beside a state file that says there is nothing to do.
IngestedExactly ==
    finished # None /\ debris = {} =>
        /\ \A i \in Ids : index[i] = IF i \in Chunks[finished] THEN finished ELSE None
        /\ recorded = finished /\ manifest = finished /\ tables \in {finished, None}

\* "Read on every search: withdrawn uploads must stop being retrievable immediately"
\* (retrieval/service.py:40): no search or table lookup that begins after the withdrawal
\* returns the document, while it is being removed and afterwards, although what they read
\* may be older than the withdrawal.
WithdrawnIsExcluded ==
    answer.late /\ answer.kind \in {"search", "column", "years"} => answer.points = {}

\* tools.py:237: a scroll of several pages, while an ingestion adds, rewrites and removes points,
\* returns every point that is there from its first page to its last, and none in two versions.
\* It may return points of several versions: a page read before an upsert, the next after it.
ScrollIsComplete ==
    answer.kind = "scroll" /\ ~Gone =>
        /\ answer.there \subseteq {p.id : p \in answer.points}
        /\ \A p, q \in answer.points : p.id = q.id => p = q

\* The same of every call: of follow-ups on remembered evidence, and of scrolls.
WithdrawnAtOnce == answer.late => answer.points = {}
=============================================================================
