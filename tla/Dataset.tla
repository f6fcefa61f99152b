------------------------------ MODULE Dataset ------------------------------
(***************************************************************************)
(* The dataset of an artifact: what the request asks for, the evidence     *)
(* collected for it, rows the model proposes, or the rows of a selected    *)
(* table column, bound cell by cell to that evidence, validated, and, when *)
(* a ranking is asked for, checked for completeness, sorted, and given a   *)
(* winner.                                                                 *)
(*                                                                         *)
(* A chunk is one fragment of a table, or the title of one: header lines,  *)
(* whose cells are sets of words, and data lines. What each column really  *)
(* means, and of whom, is carried along in "means" and "of" and read by    *)
(* the table store and the properties only. A population scope is the set  *)
(* of its words, empty where none is given.                                *)
(***************************************************************************)
EXTENDS Integers, Sequences, FiniteSets, Functions

CONSTANTS
  Requests,  \* what users ask, classifiers make of it, and documents hold: see MCDataset
  Proposed,  \* the rows a model may propose
  MaxRows    \* bound: rows of a proposal

None == "none"
Garbled == "garbled"        \* an evidence ID that names no chunk
Residences == <<"total", "rural", "urban">>
Populations == {"persons", "male", "female"}
Years == {"2001", "2011"}
Subgroups == {"tribes", "children"}    \* words that mark a table of part of the population

VARIABLES
  phase,     \* plan, collect, start, table, rows, ready, done, refused
  request,
  asked,     \* the canonical requirement
  evidence,  \* the chunks of the turn by their places in the document, each with its table's title
  selection, \* the rows of the selected table column, if there is one
  rows,      \* the dataset, before the state's row is dropped
  ranked,    \* the dataset that is returned
  winner

collected == <<request, asked, evidence, selection>>
vars == <<phase, collected, rows, ranked, winner>>

Chunk(id) == evidence[CHOOSE i \in DOMAIN evidence : evidence[i].id = id]
Ids == {evidence[i].id : i \in DOMAIN evidence}

-----------------------------------------------------------------------------
(* A chunk's table. *)

HeaderLines(chunk) == {i \in DOMAIN chunk.lines : chunk.lines[i].is = "header"}
DataLines(chunk) == {i \in DOMAIN chunk.lines : chunk.lines[i].is = "data"}

\* A blank header cell takes the words of the nearest one to its left.
ForwardFill(cells) ==
  [c \in DOMAIN cells |->
     LET left == {d \in 1..c : cells[d] # {}}
     IN  IF left = {} THEN {} ELSE cells[CHOOSE d \in left : \A e \in left : e <= d]]

HeaderWords(chunk, c) ==
  UNION {ForwardFill(chunk.lines[i].cells)[c] : i \in HeaderLines(chunk)}

Context(chunk) ==
  chunk.says \cup UNION {UNION Range(chunk.lines[i].cells) : i \in HeaderLines(chunk)}

\* The columns that stand under the same top header as a column, side by side.
GroupOf(top, c) ==
  {d \in DOMAIN top : \A e \in DOMAIN top :
     (c <= e /\ e <= d) \/ (d <= e /\ e <= c) => top[e] = top[c]}

\* A later fragment may lack the line that names residences: then the position in a group of
\* three under the top header line tells.
ResidenceByPosition(chunk, c, residence) ==
  \E i \in HeaderLines(chunk) :
    /\ \A j \in HeaderLines(chunk) : i <= j
    /\ LET top == ForwardFill(chunk.lines[i].cells)
           group == GroupOf(top, c)
       IN  /\ top[c] # {}
           /\ Cardinality(group) = 3
           /\ Residences[Cardinality({d \in group : d <= c})] = residence

-----------------------------------------------------------------------------
(* What is asked for. *)

\* The one of the choices that words name, if they name one.
Only(words, choices) ==
  IF Cardinality(words \cap choices) = 1 THEN CHOOSE w \in words \cap choices : TRUE ELSE None
Said(value, default) == IF value = None THEN default ELSE value

\* Without a requirement of the classifier's the words of the question make one.
FromWords(words) ==
  [metric |-> request.metric, year |-> request.year, population |-> words \cap {"persons"},
   residence |-> Said(IF "total" \in words THEN "total" ELSE None,
                      IF "rural" \in words THEN "rural" ELSE Only(words, {"urban"})),
   regions |-> request.regions, rank |-> FALSE, direction |-> "max"]

\* Words of the question outweigh the classifier's; several residences make a breakdown. A
\* population scope that names no category is kept as it is, but for those that mean everyone.
Canonical(given, words) ==
  LET named == words \cap Range(Residences)
      residence == Said(Only(words, Range(Residences)), given.residence)
      category == Said(Only(words, Populations), Only(given.population, Populations))
  IN  [metric |-> given.metric, year |-> given.year,
       rank |-> given.rank, direction |-> given.direction,
       population |-> IF category # None THEN {category} ELSE
                      IF given.population = {"total"} THEN {} ELSE given.population,
       residence |-> IF Cardinality(named) > 1 THEN None
                     ELSE Said(residence, IF {"total", "persons"} \subseteq given.population
                                          THEN "total" ELSE None),
       residences |-> IF Cardinality(named) > 1 THEN named ELSE {},
       regions |-> IF given.rank THEN {}
                   ELSE IF given.regions # {} THEN given.regions ELSE request.regions]

Require ==
  /\ phase = "plan"
  /\ asked' = Canonical(IF request.given = <<>> THEN FromWords(request.words) ELSE request.given[1],
                        request.words)
  /\ phase' = "collect"
  /\ UNCHANGED <<request, evidence, selection, rows, ranked, winner>>

-----------------------------------------------------------------------------
(* The evidence. *)

\* The title of a section, told by the one chunk that carries it.
TitleOf(document, section) ==
  LET titles == {document[i].title : i \in {j \in DOMAIN document :
                   document[j].section = section /\ document[j].lines = <<>>}}
  IN  IF Cardinality(titles) = 1 THEN CHOOSE t \in titles : TRUE ELSE {}

\* Mutation of WithTitle: the section path alone.
Untitled(document, chunk) == chunk
WithTitle(document, chunk) ==
  IF chunk.lines = <<>> THEN chunk
  ELSE [chunk EXCEPT !.says = @ \cup TitleOf(document, chunk.section)]

\* Chunks of the document, each with its title.
Titled(places) == [i \in places |-> WithTitle(request.document, request.document[i])]

\* A scan of the whole document for the tables of a metric, without those of a part of the
\* population.
Scanned ==
  LET chunks == Titled(DOMAIN request.document)
      Words(i) == Context(chunks[i]) \cup chunks[i].title
  IN  Restrict(chunks, {i \in DOMAIN chunks :
        asked.metric \subseteq Words(i) /\ (Subgroups \ asked.metric) \cap Words(i) = {}})

\* What the table store is asked for: a category of the population in the scope or the metric.
WantedGroup ==
  LET words == asked.population \cup asked.metric
  IN  IF "female" \in words THEN "female" ELSE IF "male" \in words THEN "male" ELSE "persons"

\* The columns that fit: one that is not split by residence, or by sex, is of all there are.
Fitting(chunk) ==
  {c \in 2..chunk.width :
     LET column == chunk.means[c]
     IN  /\ chunk.of = Subgroups \cap (asked.metric \cup asked.population)
         /\ column.year = Said(asked.year, "2011")
         /\ Said(column.residence, "total") = Said(asked.residence, "total")
         /\ Said(column.group, "persons") = WantedGroup}

\* The column the table store has for the request, each row verified in its chunk; several that
\* fit must have the same values.
Column ==
  LET Of(i) == request.document[request.records[i].chunk]
      Line(i) == Of(i).lines[request.records[i].line]
      places == DOMAIN request.records
      fitting == {c \in UNION {Fitting(Of(i)) : i \in places} :
                    \A i \in places : c \in Fitting(Of(i))}
      Values(c) == [i \in places |-> Line(i).cells[c]]
  IN  IF Len(request.records) < 2 \/ Cardinality({Values(c) : c \in fitting}) # 1 THEN <<>>
      ELSE LET c == CHOOSE d \in fitting : TRUE
           IN  [i \in places |-> [id |-> Of(i).id, line |-> Line(i), value |-> Values(c)[i],
                                  unit |-> Of(i).means[c].unit]]

ChunksWith(ids) == {i \in DOMAIN request.document : request.document[i].id \in ids}

\* A ranking reads a selected column, or all there is of its metric if the store has none or is
\* stale.
CollectTable ==
  /\ phase = "collect" /\ asked.rank
  /\ \/ /\ selection' = Column /\ Column # <<>>
        /\ evidence' = Titled(ChunksWith({Column[i].id : i \in DOMAIN Column}))
     \/ /\ selection' = <<>>
        /\ evidence' = Scanned
  /\ phase' = IF DOMAIN evidence' = {} THEN "refused" ELSE "start"
  /\ UNCHANGED <<request, asked, rows, ranked, winner>>

\* Other requests take what a search finds and the model selects: some of every region asked for.
CollectSearch ==
  /\ phase = "collect" /\ ~asked.rank
  /\ \E ids \in SUBSET {request.document[i].id : i \in DOMAIN request.document} :
       /\ evidence' = Titled(ChunksWith(ids))
       /\ phase' = IF /\ ids # {}
                      /\ Cardinality(asked.regions) > 1 =>
                           asked.regions \subseteq {evidence'[i].region : i \in DOMAIN evidence'}
                   THEN "start" ELSE "refused"
  /\ UNCHANGED <<request, asked, selection, rows, ranked, winner>>

-----------------------------------------------------------------------------
(* What the dataset takes from the parts of the system that come before it. *)

Fields == {"id", "region", "table", "section", "title", "of", "trusted", "contents", "says",
           "lines", "means", "width"}
IsList(seq) == Len(seq) \in Nat /\ DOMAIN seq = 1..Len(seq)
RowFields == {"label", "value", "id", "residence", "series", "unit", "year", "population"}

\* What the header lines of a column name, the column is of, and so is a chunk of the part of the
\* population that it or the title of its section names; what stands in which order is left open.
Telling(document, chunk) ==
  /\ \A c \in 2..chunk.width :
       LET words == HeaderWords(chunk, c)
           column == chunk.means[c]
       IN  /\ \A year \in Years : year \in words => column.year = year
           /\ \A residence \in Range(Residences) :
                residence \in words => column.residence = residence
           /\ \A group \in Populations : group \in words => column.group = group
           /\ chunk.contents => Years \cap words = {}
  /\ chunk.of \subseteq (chunk.says \cup TitleOf(document, chunk.section)) \cap Subgroups

\* A ranking is of one document: its fragments of one table begin with one line, and the
\* records of the selected column are the lines of all entities of its table, each once.
OneDocument(document) ==
  \A i, j \in DOMAIN document :
    /\ document[i].region = document[j].region
    /\ /\ document[i].table = document[j].table
       /\ document[i].lines # <<>> /\ document[j].lines # <<>>
       => /\ document[i].lines[1] = document[j].lines[1]
          /\ document[i].contents = document[j].contents

WholeColumn(document, records) ==
  LET Line(i) == document[records[i].chunk].lines[records[i].line]
  IN  /\ \A i \in DOMAIN records : /\ records[i].chunk \in DOMAIN document
                                   /\ records[i].line \in DataLines(document[records[i].chunk])
      /\ \A i, j \in DOMAIN records : Line(i).label = Line(j).label => i = j
      /\ \A i \in DOMAIN records, j \in DOMAIN document :
           document[j].table = document[records[i].chunk].table =>
             \A n \in DataLines(document[j]) :
               \/ document[j].lines[n].label = document[j].region
               \/ \E m \in DOMAIN records : Line(m).label = document[j].lines[n].label

ASSUME DocumentAssumption ==
  \A r \in Requests :
    /\ IsList(r.document) /\ IsList(r.records)
    /\ \A i, j \in DOMAIN r.document : r.document[i].id = r.document[j].id => i = j
    /\ \A i \in DOMAIN r.document :
         LET chunk == r.document[i]
         IN  /\ DOMAIN chunk = Fields /\ chunk.width \in Nat /\ chunk.id # Garbled
             /\ IsList(chunk.lines)
             /\ \A n \in DOMAIN chunk.lines : DOMAIN chunk.lines[n].cells = 1..chunk.width
             /\ \A n \in DataLines(chunk), c \in 2..chunk.width : chunk.lines[n].cells[c] \in Int
             /\ Telling(r.document, chunk)

ASSUME RequirementAssumption ==
  \A r \in Requests :
    /\ IsList(r.given) /\ Len(r.given) <= 1 /\ r.year \in Years \cup {None}
    /\ \A i \in DOMAIN r.given :
         /\ r.given[i].year \in Years \cup {None}
         /\ r.given[i].residence \in Range(Residences) \cup {None}
         /\ r.given[i].rank => OneDocument(r.document) /\ WholeColumn(r.document, r.records)

ASSUME ProposalAssumption ==
  /\ \A row \in Proposed : DOMAIN row = RowFields /\ row.value \in Int
  /\ MaxRows \in Nat

-----------------------------------------------------------------------------
(* One proposed row against one chunk. *)

\* What a request leaves unsaid is total persons of 2011; the sexes are not split by a ratio of
\* them.
SkipsPopulation == asked.population = {} /\ (asked.rank \/ "ratio" \in asked.metric)
Year == Said(asked.year, "2011")
Population == IF asked.population = {} THEN {"persons"} ELSE asked.population
Categories == Population \cap Populations
ResidenceOf(row) ==
  IF asked.residences # {} THEN Said(row.residence, row.series) ELSE Said(asked.residence, "total")

\* A population scope that names no category contradicts none.
ScopesAgree(row) ==
  /\ row.year \in {None, Year}
  /\ SkipsPopulation \/ Categories = {} \/ row.population \cap Populations \in {{}, Categories}
  /\ row.residence \in {None, ResidenceOf(row)}

ColumnAgrees(row, chunk, c, checksUnit) ==
  LET header == HeaderWords(chunk, c)
      residence == ResidenceOf(row)
      byPosition == ResidenceByPosition(chunk, c, residence)
  IN  /\ asked.metric \subseteq header \cup Context(chunk)
      /\ Year \in header
      /\ residence \in header \/ byPosition
      /\ SkipsPopulation \/
           /\ header \cap Populations = {} \/ Categories \subseteq header
           /\ (IF Categories # {} THEN Categories ELSE Population) \subseteq Context(chunk)
      /\ row.series = None \/ row.series \in header \/ (row.series = residence /\ byPosition)
      /\ checksUnit => row.unit \in Context(chunk)

Cells(row, chunk, checksUnit) ==
  {ic \in DataLines(chunk) \X (2..chunk.width) :
     /\ chunk.lines[ic[1]].label = row.label /\ chunk.lines[ic[1]].cells[ic[2]] = row.value
     /\ ColumnAgrees(row, chunk, ic[2], checksUnit)}

MatchesRow(row, chunk, checksRegion, checksUnit) ==
  /\ checksRegion => row.label = chunk.region
  /\ asked.regions = {} \/ row.label \in asked.regions
  /\ (chunk.says \cap Subgroups) \subseteq (asked.metric \cup Population)
  /\ ScopesAgree(row)
  /\ Cardinality(Cells(row, chunk, checksUnit)) = 1

\* A ranking's row whose ID names no chunk is bound to the only one that matches.
Rebound(row) ==
  LET matching == {id \in Ids : MatchesRow(row, Chunk(id), FALSE, FALSE)}
  IN  IF row.id \in Ids THEN row.id
      ELSE IF asked.rank /\ asked.residences = {} /\ Cardinality(matching) = 1
           THEN CHOOSE id \in matching : TRUE
      ELSE Garbled

-----------------------------------------------------------------------------
(* The dataset. *)

\* Evidence without sound provenance is refused before the model is called.
Prepare ==
  /\ phase = "start"
  /\ phase' = IF \E i \in DOMAIN evidence : ~evidence[i].trusted THEN "refused"
              ELSE IF asked.rank /\ selection # <<>> THEN "table" ELSE "rows"
  /\ UNCHANGED <<collected, rows, ranked, winner>>

\* What no two rows share; two rows that agree on all the rest agree on this, too.
Dimension(row) == <<row.label, row.residence>>

\* Where several residences are asked for, the row's own is its series.
Hydrated(row) ==
  LET residence == ResidenceOf(row)
  IN  [row EXCEPT !.id = Rebound(row),
                  !.series = IF asked.residences # {} THEN residence ELSE @,
                  !.residence = IF asked.residences # {} THEN residence ELSE Said(@, residence)]

\* The model's next row: accepted and added, or the whole proposal is refused.
ProposeRow ==
  /\ phase = "rows" /\ Len(rows) < MaxRows
  /\ \E row \in Proposed :
       LET new == Hydrated(row)
       IN  IF /\ new.id # Garbled
              /\ asked.residences # {} => new.residence \in asked.residences
              /\ \A i \in DOMAIN rows : Dimension(rows[i]) # Dimension(new)
              /\ MatchesRow(new, Chunk(new.id), ~asked.rank, ~asked.rank)
           THEN rows' = Append(rows, new) /\ UNCHANGED phase
           ELSE phase' = "refused" /\ UNCHANGED rows
  /\ UNCHANGED <<collected, ranked, winner>>

Labels(dataset) == {dataset[i].label : i \in DOMAIN dataset}
\* Mutation of Complete: only the regions are looked at.
CompleteRegions == rows # <<>> /\ asked.regions \subseteq Labels(rows)
Complete ==
  /\ rows # <<>>
  /\ asked.regions \subseteq Labels(rows)
  /\ asked.residences # {} =>
       \A region \in IF asked.regions # {} THEN asked.regions ELSE Labels(rows),
          residence \in asked.residences :
         \E i \in DOMAIN rows : Dimension(rows[i]) = <<region, residence>>

\* validate_dataset, for what the hydration leaves open: the units a model writes.
ValidDataset ==
  /\ \A i \in DOMAIN rows : rows[i].unit # None
  /\ asked.regions # {} /\ Cardinality(asked.regions) > 1 =>
       Cardinality({rows[i].unit : i \in DOMAIN rows}) = 1

EndProposal ==
  /\ phase = "rows"
  /\ phase' = IF Complete /\ ValidDataset THEN "ready" ELSE "refused"
  /\ UNCHANGED <<collected, rows, ranked, winner>>

\* The rows of a selected column, each on a line of a chunk of the turn's evidence; a source has
\* a unit.
InEvidence(record) ==
  /\ record.id \in Ids /\ record.unit # None
  /\ \E i \in DataLines(Chunk(record.id)) : Chunk(record.id).lines[i] = record.line

TableRows ==
  [i \in DOMAIN selection |->
     [label |-> selection[i].line.label, series |-> None, value |-> selection[i].value,
      unit |-> selection[i].unit, id |-> selection[i].id,
      residence |-> Said(asked.residence, "total"), year |-> Year,
      population |-> IF asked.population = {} THEN {WantedGroup} ELSE asked.population]]

FromTable ==
  /\ phase = "table"
  /\ IF \A i \in DOMAIN selection : InEvidence(selection[i])
     THEN rows' = TableRows /\ phase' = "ready"
     ELSE phase' = "refused" /\ UNCHANGED rows
  /\ UNCHANGED <<collected, ranked, winner>>

-----------------------------------------------------------------------------
(* Ranking. *)

\* Mutation of SameTable: only the chunks that rows cite.
CitedChunks == {rows[i].id : i \in DOMAIN rows}
\* Fragments of one table begin with the same line.
SameTable ==
  LET Signature(chunk) == {chunk.lines[i] : i \in {1} \cap DOMAIN chunk.lines}
      used == {Signature(Chunk(rows[i].id)) : i \in DOMAIN rows}
  IN  {id \in Ids : Signature(Chunk(id)) \in used}

EntityLabels(ids) ==
  UNION {{Chunk(id).lines[i].label : i \in DataLines(Chunk(id))} \ {Chunk(id).region} :
           id \in {x \in ids : ~Chunk(x).contents}}

DetectedRows ==
  IF selection # <<>> THEN Len(selection) ELSE Cardinality(EntityLabels(SameTable))

\* The state's own row is not ranked; its name is the region of the first chunk.
State == LET first == CHOOSE i \in DOMAIN evidence : \A j \in DOMAIN evidence : i <= j
         IN  evidence[first].region
Individuals == {i \in DOMAIN rows : rows[i].label # State}

\* sorted() keeps the order of equal values.
Before(i, j) ==
  LET x == rows[i].value
      y == rows[j].value
  IN  IF x = y THEN i < j ELSE IF asked.direction = "min" THEN x < y ELSE x > y
Sorted ==
  [n \in 1..Cardinality(Individuals) |->
     rows[CHOOSE i \in Individuals : Cardinality({j \in Individuals : Before(j, i)}) = n - 1]]

\* A ranking over fewer rows than the table appears to have is refused.
Rank ==
  /\ phase = "ready" /\ asked.rank
  /\ IF Len(rows) < DetectedRows \/ Individuals = {}
     THEN phase' = "refused" /\ UNCHANGED <<ranked, winner>>
     ELSE /\ ranked' = Sorted
          /\ winner' = ranked'[1]
          /\ phase' = "done"
  /\ UNCHANGED <<collected, rows>>

Return ==
  /\ phase = "ready" /\ ~asked.rank
  /\ ranked' = rows /\ phase' = "done"
  /\ UNCHANGED <<collected, rows, winner>>

Init ==
  /\ phase = "plan" /\ request \in Requests
  /\ asked = request.given /\ evidence = <<>> /\ selection = <<>>
  /\ rows = <<>> /\ ranked = <<>> /\ winner = None

Next ==
  \/ Require \/ CollectTable \/ CollectSearch \/ Prepare
  \/ ProposeRow \/ EndProposal \/ FromTable \/ Rank \/ Return

Spec == Init /\ [][Next]_vars

-----------------------------------------------------------------------------
(* Properties. *)

\* The residences of the question: those it names, or what the classifier or the corpus makes of it.
AskedResidences ==
  LET named == request.words \cap Range(Residences)
  IN  IF named # {} THEN named ELSE {Said(asked.residence, "total")}

\* A column in a group of three under one top header that is not of total, rural and urban.
OtherThree(chunk, c) ==
  \E i \in HeaderLines(chunk) :
    /\ \A j \in HeaderLines(chunk) : i <= j
    /\ LET group == GroupOf(ForwardFill(chunk.lines[i].cells), c)
       IN  /\ Cardinality(group) = 3
           /\ \E d \in group :
                chunk.means[d].residence # Residences[Cardinality({e \in group : e <= d})]

\* A column really is of the residence of a row, or, from the table store, of all there are.
OfResidence(column, residence) ==
  \/ column.residence = residence
  \/ selection # <<>> /\ column.residence = None /\ residence = "total"

\* A column whose header says of which sex it is is of the one asked for, if one has to be.
OfPopulation(chunk, c) ==
  \/ SkipsPopulation \/ Categories = {} \/ HeaderWords(chunk, c) \cap Populations = {}
  \/ chunk.means[c].group \in Population \cup asked.metric

\* The columns with a row's value in a line of its entity that are of the year and the population
\* asked for.
ShowingColumns(row) ==
  LET chunk == Chunk(row.id)
  IN  {c \in 2..chunk.width :
         /\ \E i \in DataLines(chunk) : chunk.lines[i].label = row.label
                                       /\ chunk.lines[i].cells[c] = row.value
         /\ chunk.means[c].year = Year /\ OfPopulation(chunk, c)}

ShowsCell(row) ==
  \E c \in ShowingColumns(row) :
    \/ OfResidence(Chunk(row.id).means[c], row.residence)
    \/ OtherThree(Chunk(row.id), c)

\* Whatever the classifier makes of a question and whatever rows a model proposes, a row that gets
\* into a dataset shows a cell of the evidence of the requested year and of a residence the question
\* names, in a line of its own entity, of the sex that is asked for where the header says one, and
\* of no subgroup of the population that neither the metric nor the population scope asks for: also
\* in a later fragment, whose columns are told apart by position alone, in a table whose title is in
\* another chunk, and when the model garbled the ID (_match_row, with_table_title). A column told by
\* position is of the row's residence if its group of three is of total, rural and urban, which the
\* code does not look at: see PositionTellsResidence. A column of the table store is one of several
\* residences that are asked for only if there is one.
RowsAreCells ==
  \A i \in DOMAIN rows :
    /\ rows[i].id \in Ids /\ Chunk(rows[i].id).of \subseteq (asked.metric \cup asked.population)
    /\ rows[i].residence \in AskedResidences \/ (selection # <<>> /\ asked.residences # {})
    /\ ShowsCell(rows[i])

\* "This never changes what text is cited", as the three columns of one header are total, rural and
\* urban in every "multi-residence statement table" (hydration.py:134-136): no dataset calls a cell
\* of males rural because it is the second of three.
PositionTellsResidence ==
  \A i \in DOMAIN rows : \E c \in ShowingColumns(rows[i]) :
    OfResidence(Chunk(rows[i].id).means[c], rows[i].residence)

\* "Rural and Urban phrasing overrides that residence default" (DESIGN.md:487): no dataset is of
\* a residence the question does not name, if it names any.
NamedResidencesOnly == \A i \in DOMAIN rows : rows[i].residence \in AskedResidences

\* A dataset of several regions has each of the residences the question names for each of them,
\* once (canonicalize_artifact_requirement, hydrate_artifact_dataset).
EveryTargetOnce ==
  phase = "done" /\ ~asked.rank =>
    \A region \in asked.regions, residence \in AskedResidences :
      Cardinality({i \in DOMAIN ranked : Dimension(ranked[i]) = <<region, residence>>}) = 1

\* The entities of the printed table the ranking is of, as far as the evidence has it.
Entities ==
  LET tables == {Chunk(rows[i].id).table : i \in DOMAIN rows}
  IN  UNION {{Chunk(id).lines[i].label : i \in DataLines(Chunk(id))} \ {Chunk(id).region} :
               id \in {x \in Ids : Chunk(x).table \in tables}}

\* A ranking is over every entity the table has, none of them twice, and its winner beats them
\* all: a proposal that leaves one out is refused (DESIGN.md, "Ranking and superlative queries").
RankingIsComplete ==
  phase = "done" /\ asked.rank =>
    /\ \A entity \in Entities : \E i \in DOMAIN ranked : ranked[i].label = entity
    /\ \A i, j \in DOMAIN ranked : i # j => ranked[i].label # ranked[j].label
    /\ \A i \in DOMAIN ranked :
         IF asked.direction = "min" THEN winner.value <= ranked[i].value
         ELSE winner.value >= ranked[i].value

\* So it is when the proposal leaves the state's own row out, as the model is told to, and one
\* residence is asked for, or when the rows come from the table store
\* (count_table_entity_rows, prepare_artifact).
RankingOfEntities ==
  phase = "done" /\ asked.rank =>
    (selection # <<>> \/ (State \notin Labels(rows) /\ asked.residences = {}) => RankingIsComplete)
=============================================================================
