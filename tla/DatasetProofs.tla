---------------------------- MODULE DatasetProofs ----------------------------
(***************************************************************************)
(* Datasets show cells, and rankings are complete, for any documents,      *)
(* requests and proposals that satisfy the assumptions of Dataset. None of *)
(* the three properties is inductive: IInv adds what the requirement is    *)
(* made of, that evidence is chunks of the document, what each row was     *)
(* bound to, and what a dataset has passed by the time it is returned.     *)
(***************************************************************************)
EXTENDS Dataset, FiniteSetTheorems, TLAPS

Document == request.document

\* The requirement is of residences a census table has, and of those the question names.
RequirementInv ==
  phase # "plan" =>
    /\ asked.year \in Years \cup {None}
    /\ asked.residence \in Range(Residences) \cup {None}
    /\ asked.residences \subseteq Range(Residences)
    /\ asked.residences # {} => asked.residences = AskedResidences
    /\ asked.residences = {} => AskedResidences = {Said(asked.residence, "total")}
    /\ asked.rank => request.given # <<>> /\ request.given[1].rank

\* The evidence is chunks of the document; a selected column is that of the table store.
EvidenceInv ==
  /\ DOMAIN evidence \subseteq DOMAIN Document
  /\ \A i \in DOMAIN evidence : evidence[i] = WithTitle(Document, Document[i])
  /\ selection # <<>> => /\ phase \notin {"plan", "collect", "rows"}
                         /\ asked.rank /\ selection = Column
  /\ phase = "table" => selection # <<>>

\* A row of the dataset shows a cell of the evidence.
Shows(row) ==
  /\ row.value \in Int /\ row.id \in Ids
  /\ Chunk(row.id).of \subseteq (asked.metric \cup asked.population)
  /\ ShowsCell(row)

\* A row that was proposed is in no table of contents, and of the residence asked for.
Proposes(row) ==
  /\ ~Chunk(row.id).contents
  /\ IF asked.residences # {} THEN row.residence \in asked.residences
     ELSE row.residence = Said(asked.residence, "total")

RowsInv ==
  /\ \E S : rows \in Seq(S)
  /\ phase \in {"plan", "collect", "start", "table"} => rows = <<>>
  /\ \A i \in DOMAIN rows : Shows(rows[i])
  /\ selection = <<>> => /\ \A i \in DOMAIN rows : Proposes(rows[i])
                         /\ \A i, j \in DOMAIN rows :
                              Dimension(rows[i]) = Dimension(rows[j]) => i = j
  /\ selection # <<>> => \A i \in DOMAIN rows : rows[i].residence = Said(asked.residence, "total")

\* What the dataset has passed when it is ready, and when it is returned.
EndInv ==
  /\ phase \in {"ready", "done"} => IF selection # <<>> THEN rows = TableRows
                                    ELSE asked.rank \/ Complete
  /\ phase = "done" /\ ~asked.rank => ranked = rows
  /\ phase = "done" /\ asked.rank =>
       /\ ~(Len(rows) < DetectedRows) /\ Individuals # {}
       /\ ranked = Sorted /\ winner = ranked[1]

IInv == request \in Requests /\ RequirementInv /\ EvidenceInv /\ RowsInv /\ EndInv

-----------------------------------------------------------------------------
(* The chunks of the evidence. *)

\* A title adds words to what a chunk says, and nothing else.
LEMMA TitlesAddWords ==
  ASSUME NEW r \in Requests, NEW i \in DOMAIN r.document
  PROVE  LET chunk == r.document[i]
             titled == WithTitle(r.document, r.document[i])
         IN  /\ \A f \in Fields \ {"says"} : titled[f] = chunk[f]
             /\ titled.id = chunk.id /\ titled.region = chunk.region
             /\ titled.table = chunk.table /\ titled.of = chunk.of
             /\ titled.contents = chunk.contents /\ titled.lines = chunk.lines
             /\ titled.means = chunk.means /\ titled.width = chunk.width
             /\ chunk.lines # <<>> =>
                  titled.says = chunk.says \cup TitleOf(r.document, chunk.section)
<1>1. DOMAIN r.document[i] = Fields
  BY DocumentAssumption
<1> QED
  BY <1>1, Zenon DEF WithTitle, Fields

\* What is read off a chunk's lines is the same with and without the title.
LEMMA LinesTell ==
  ASSUME NEW x, NEW y, x.lines = y.lines, x.means = y.means, x.width = y.width
  PROVE  /\ HeaderLines(x) = HeaderLines(y) /\ DataLines(x) = DataLines(y)
         /\ \A c : HeaderWords(x, c) = HeaderWords(y, c)
         /\ \A c, residence :
              ResidenceByPosition(x, c, residence) = ResidenceByPosition(y, c, residence)
         /\ \A c : OtherThree(x, c) = OtherThree(y, c)
<1> DEFINE
      Headers(lines) == {i \in DOMAIN lines : lines[i].is = "header"}
      Datas(lines) == {i \in DOMAIN lines : lines[i].is = "data"}
      Words(lines, c) == UNION {ForwardFill(lines[i].cells)[c] : i \in Headers(lines)}
      Position(lines, c, residence) ==
        \E i \in Headers(lines) :
          /\ \A j \in Headers(lines) : i <= j
          /\ LET top == ForwardFill(lines[i].cells)
                 group == GroupOf(top, c)
             IN  /\ top[c] # {}
                 /\ Cardinality(group) = 3
                 /\ Residences[Cardinality({d \in group : d <= c})] = residence
      Other(lines, means, c) ==
        \E i \in Headers(lines) :
          /\ \A j \in Headers(lines) : i <= j
          /\ LET group == GroupOf(ForwardFill(lines[i].cells), c)
             IN  /\ Cardinality(group) = 3
                 /\ \E d \in group :
                      means[d].residence # Residences[Cardinality({e \in group : e <= d})]
<1>1. /\ HeaderLines(x) = Headers(x.lines) /\ HeaderLines(y) = Headers(y.lines)
      /\ DataLines(x) = Datas(x.lines) /\ DataLines(y) = Datas(y.lines)
  BY DEF HeaderLines, DataLines
<1>2. \A c : HeaderWords(x, c) = Words(x.lines, c) /\ HeaderWords(y, c) = Words(y.lines, c)
  BY Zenon DEF HeaderWords, HeaderLines
<1>3. \A c, residence :
        /\ ResidenceByPosition(x, c, residence) = Position(x.lines, c, residence)
        /\ ResidenceByPosition(y, c, residence) = Position(y.lines, c, residence)
  BY Zenon DEF ResidenceByPosition, HeaderLines
<1>4. \A c : /\ OtherThree(x, c) = Other(x.lines, x.means, c)
             /\ OtherThree(y, c) = Other(y.lines, y.means, c)
  BY Zenon DEF OtherThree, HeaderLines
<1> HIDE DEF Headers, Datas, Words, Position, Other
<1> QED
  BY <1>1, <1>2, <1>3, <1>4

\* An ID of the evidence names one chunk of the document, with its title.
LEMMA ChunkOfDocument ==
  ASSUME request \in Requests, EvidenceInv, NEW id \in Ids
  PROVE  \E i \in DOMAIN evidence :
           /\ i \in DOMAIN Document /\ Document[i].id = id
           /\ Chunk(id) = WithTitle(Document, Document[i])
<1>1. PICK i \in DOMAIN evidence : evidence[i].id = id
  BY DEF Ids
<1> DEFINE n == CHOOSE j \in DOMAIN evidence : evidence[j].id = id
<1>2. n \in DOMAIN evidence /\ evidence[n].id = id
  BY <1>1
<1>3. n \in DOMAIN Document /\ evidence[n] = WithTitle(Document, Document[n])
  BY <1>2 DEF EvidenceInv
<1>4. Document[n].id = id
  BY <1>2, <1>3, TitlesAddWords DEF Document
<1>5. Chunk(id) = evidence[n]
  BY DEF Chunk
<1> QED
  BY <1>2, <1>3, <1>4, <1>5

\* A place of the evidence has the chunk that its ID names.
LEMMA ChunkAt ==
  ASSUME request \in Requests, EvidenceInv, NEW i \in DOMAIN evidence
  PROVE  /\ i \in DOMAIN Document /\ Document[i].id \in Ids
         /\ Chunk(Document[i].id) = WithTitle(Document, Document[i])
         /\ evidence[i] = WithTitle(Document, Document[i])
<1>1. i \in DOMAIN Document /\ evidence[i] = WithTitle(Document, Document[i])
  BY DEF EvidenceInv
<1>2. evidence[i].id = Document[i].id
  BY <1>1, TitlesAddWords DEF Document
<1>3. Document[i].id \in Ids
  BY <1>2 DEF Ids
<1>4. PICK j \in DOMAIN evidence :
        /\ j \in DOMAIN Document /\ Document[j].id = Document[i].id
        /\ Chunk(Document[i].id) = WithTitle(Document, Document[j])
  BY <1>3, ChunkOfDocument
<1>5. i = j
  BY <1>1, <1>4, DocumentAssumption DEF Document
<1> QED
  BY <1>1, <1>3, <1>4, <1>5

-----------------------------------------------------------------------------
(* The requirement. *)

\* A word that is the only one of the choices is one of them.
LEMMA OnlyIsChoice ==
  ASSUME NEW words, NEW choices
  PROVE  /\ Only(words, choices) \in (words \cap choices) \cup {None}
         /\ Cardinality(words \cap choices) = 1 => Only(words, choices) \in words \cap choices
<1>1. ASSUME Cardinality(words \cap choices) = 1 PROVE words \cap choices # {}
  BY <1>1, FS_EmptySet
<1>2. ASSUME Cardinality(words \cap choices) = 1 PROVE Only(words, choices) \in words \cap choices
  BY <1>1, <1>2 DEF Only
<1> QED
  BY <1>2 DEF Only

\* The residences of a census table.
LEMMA ResidencesAreThree ==
  Range(Residences) = {"total", "rural", "urban"} /\ IsFiniteSet(Range(Residences))
<1>1. Range(Residences) = {"total", "rural", "urban"}
  <2>1. DOMAIN Residences = {1, 2, 3}
    BY DEF Residences
  <2>2. Residences[1] = "total" /\ Residences[2] = "rural" /\ Residences[3] = "urban"
    BY DEF Residences
  <2> QED
    BY <2>1, <2>2 DEF Range
<1>2. IsFiniteSet({"total"} \cup {"rural"})
  BY FS_Singleton, FS_Union
<1>3. IsFiniteSet({"total"} \cup {"rural"} \cup {"urban"})
  BY <1>2, FS_Singleton, FS_Union
<1> QED
  BY <1>1, <1>3

\* The residences of a question are several, one, or not named.
LEMMA NamedResidences ==
  ASSUME NEW words, NEW named, named = words \cap Range(Residences)
  PROVE  /\ named \subseteq Range(Residences)
         /\ ~(Cardinality(named) > 1) /\ named # {} =>
              Cardinality(named) = 1 /\ named = {Only(words, Range(Residences))}
         /\ named = {} => Only(words, Range(Residences)) = None /\ ~(Cardinality(named) > 1)
<1>1. IsFiniteSet(named) /\ Cardinality(named) \in Nat
  BY ResidencesAreThree, FS_Subset, FS_CardinalityType
<1>2. named = {} => Cardinality(named) = 0
  BY FS_EmptySet
<1>3. ASSUME ~(Cardinality(named) > 1), named # {}
      PROVE  Cardinality(named) = 1 /\ named = {Only(words, Range(Residences))}
  <2>1. Cardinality(named) # 0
    BY <1>1, <1>3, FS_EmptySet
  <2>2. Cardinality(named) = 1
    BY <1>1, <1>3, <2>1
  <2>3. \E x : named = {x}
    BY <1>1, <2>2, FS_Singleton
  <2> QED
    BY <2>2, <2>3, OnlyIsChoice
<1> QED
  BY <1>2, <1>3, OnlyIsChoice, Z3 DEF Only

\* What the classifier, or the words without it, say of the request.
LEMMA GivenIsTyped ==
  ASSUME request \in Requests,
         NEW given, given = IF request.given = <<>> THEN FromWords(request.words)
                            ELSE request.given[1]
  PROVE  /\ given.year \in Years \cup {None}
         /\ given.residence \in Range(Residences) \cup {None}
         /\ given.rank => request.given # <<>> /\ request.given[1].rank
<1>1. CASE request.given = <<>>
  <2>1. given.year \in Years \cup {None} /\ given.rank = FALSE
    BY <1>1, RequirementAssumption DEF FromWords
  <2>2. given.residence = Said(IF "total" \in request.words THEN "total" ELSE None,
                               IF "rural" \in request.words THEN "rural"
                               ELSE Only(request.words, {"urban"}))
    BY <1>1 DEF FromWords
  <2>3. Only(request.words, {"urban"}) \in {"urban", None}
    BY OnlyIsChoice
  <2>4. given.residence \in Range(Residences) \cup {None}
    BY <2>2, <2>3, ResidencesAreThree DEF Said, None
  <2> QED
    BY <2>1, <2>4
<1>2. CASE request.given # <<>>
  <2>1. IsList(request.given) /\ DOMAIN request.given # {}
    BY <1>2, RequirementAssumption DEF IsList
  <2>2. 1 \in DOMAIN request.given
    BY <2>1 DEF IsList
  <2> QED
    BY <1>2, <2>2, RequirementAssumption
<1> QED
  BY <1>1, <1>2

\* The requirement keeps to the question's words.
LEMMA RequireKeeps ==
  ASSUME request \in Requests, Require
  PROVE  RequirementInv'
<1> DEFINE given == IF request.given = <<>> THEN FromWords(request.words) ELSE request.given[1]
           named == request.words \cap Range(Residences)
<1>1. asked' = Canonical(given, request.words) /\ request' = request
  BY DEF Require
<1>2. /\ given.year \in Years \cup {None}
      /\ given.residence \in Range(Residences) \cup {None}
      /\ given.rank => request.given # <<>> /\ request.given[1].rank
  BY GivenIsTyped
<1>3. /\ named \subseteq Range(Residences)
      /\ ~(Cardinality(named) > 1) /\ named # {} => named = {Only(request.words, Range(Residences))}
      /\ named = {} => Only(request.words, Range(Residences)) = None /\ ~(Cardinality(named) > 1)
  BY NamedResidences
<1> HIDE DEF given
<1>4. /\ asked'.year = given.year /\ asked'.rank = given.rank
      /\ asked'.residence =
           IF Cardinality(named) > 1 THEN None
           ELSE Said(Said(Only(request.words, Range(Residences)), given.residence),
                     IF {"total", "persons"} \subseteq given.population THEN "total" ELSE None)
      /\ asked'.residences = IF Cardinality(named) > 1 THEN named ELSE {}
  BY <1>1 DEF Canonical
<1>5. AskedResidences' = IF named # {} THEN named ELSE {Said(asked'.residence, "total")}
  BY <1>1 DEF AskedResidences
<1>6. "total" \in Range(Residences) /\ None \notin Range(Residences)
  BY ResidencesAreThree DEF None
<1>7. asked'.residence \in Range(Residences) \cup {None}
  BY <1>2, <1>3, <1>4, <1>6, OnlyIsChoice DEF Said
<1>8. asked'.residences # {} => AskedResidences' = asked'.residences
  BY <1>3, <1>4, <1>5
<1>9. ASSUME asked'.residences = {} PROVE AskedResidences' = {Said(asked'.residence, "total")}
  <2>1. ~(Cardinality(named) > 1)
    BY <1>3, <1>4, <1>9
  <2>2. CASE named # {}
    <3>1. named = {Only(request.words, Range(Residences))}
      BY <1>3, <2>1, <2>2
    <3>2. Only(request.words, Range(Residences)) # None
      BY <1>3, <1>6, <3>1
    <3> QED
      BY <1>4, <1>5, <2>1, <2>2, <3>1, <3>2 DEF Said
  <2> QED
    BY <1>5, <2>2
<1> QED
  BY <1>1, <1>2, <1>3, <1>4, <1>7, <1>8, <1>9 DEF RequirementInv

-----------------------------------------------------------------------------
(* Rows that are proposed. *)

\* A set of one element has an element.
LEMMA OneIsSome ==
  ASSUME NEW S, Cardinality(S) = 1
  PROVE  S # {}
BY FS_EmptySet

\* A row keeps its label and value, gets the ID of a chunk, and names one residence.
LEMMA HydratedFields ==
  ASSUME NEW row \in Proposed, NEW new, new = Hydrated(row)
  PROVE  /\ new.label = row.label /\ new.value = row.value /\ new.value \in Int
         /\ new.id = Rebound(row) /\ new.year = row.year /\ new.population = row.population
         /\ asked.residences # {} =>
              new.residence = ResidenceOf(row) /\ new.series = ResidenceOf(row)
         /\ asked.residences = {} =>
              new.residence = Said(row.residence, ResidenceOf(row)) /\ new.series = row.series
<1>1. DOMAIN row = RowFields /\ row.value \in Int
  BY ProposalAssumption
<1> QED
  BY <1>1, Zenon DEF Hydrated, RowFields

\* A row is bound to a chunk of the evidence, or to none.
LEMMA ReboundInEvidence ==
  ASSUME NEW row, Rebound(row) # Garbled
  PROVE  Rebound(row) \in Ids
<1> DEFINE matching == {id \in Ids : MatchesRow(row, Chunk(id), FALSE, FALSE)}
<1>1. Cardinality(matching) = 1 => (CHOOSE id \in matching : TRUE) \in matching
  BY OneIsSome
<1>2. Rebound(row) = IF row.id \in Ids THEN row.id
                     ELSE IF asked.rank /\ asked.residences = {} /\ Cardinality(matching) = 1
                          THEN CHOOSE id \in matching : TRUE
                     ELSE Garbled
  BY DEF Rebound
<1> QED
  BY <1>1, <1>2

\* The residence of a row that agrees with the request is the one its cell is looked up by.
LEMMA ResidenceIsAsked ==
  ASSUME RequirementInv, phase # "plan", NEW row \in Proposed, NEW new, new = Hydrated(row),
         ScopesAgree(new), asked.residences # {} => new.residence \in asked.residences
  PROVE  /\ new.residence = ResidenceOf(new) /\ new.residence \in Range(Residences)
         /\ IF asked.residences # {} THEN new.residence \in asked.residences
            ELSE new.residence = Said(asked.residence, "total")
<1>1. None \notin Range(Residences) /\ "total" \in Range(Residences)
  BY ResidencesAreThree DEF None
<1>2. /\ asked.residence \in Range(Residences) \cup {None}
      /\ asked.residences \subseteq Range(Residences)
  BY DEF RequirementInv
<1>3. new.residence \in {None, ResidenceOf(new)}
  BY DEF ScopesAgree
<1>4. CASE asked.residences # {}
  BY <1>1, <1>2, <1>3, <1>4
<1>5. CASE asked.residences = {}
  <2>1. /\ ResidenceOf(row) = Said(asked.residence, "total")
        /\ ResidenceOf(new) = Said(asked.residence, "total")
    BY <1>5 DEF ResidenceOf
  <2>2. Said(asked.residence, "total") \in Range(Residences)
    BY <1>1, <1>2 DEF Said
  <2>3. new.residence = Said(row.residence, ResidenceOf(row))
    BY <1>5, HydratedFields
  <2>4. new.residence # None
    BY <1>1, <2>1, <2>2, <2>3 DEF Said
  <2> QED
    BY <1>3, <1>5, <2>1, <2>2, <2>4
<1> QED
  BY <1>4, <1>5

\* A place in a group of three tells the residence, if the three are of total, rural and urban.
LEMMA PositionTells ==
  ASSUME NEW chunk, NEW c, NEW residence, chunk.width \in Nat, c \in 2..chunk.width,
         \A n \in HeaderLines(chunk) : DOMAIN chunk.lines[n].cells = 1..chunk.width,
         ResidenceByPosition(chunk, c, residence)
  PROVE  chunk.means[c].residence = residence \/ OtherThree(chunk, c)
<1>1. PICK i \in HeaderLines(chunk) :
        /\ \A j \in HeaderLines(chunk) : i <= j
        /\ LET group == GroupOf(ForwardFill(chunk.lines[i].cells), c)
           IN  /\ Cardinality(group) = 3
               /\ Residences[Cardinality({d \in group : d <= c})] = residence
  BY Zenon DEF ResidenceByPosition
<1> DEFINE top == ForwardFill(chunk.lines[i].cells)
           group == GroupOf(top, c)
<1>2. c \in group
  <2>1. DOMAIN top = 1..chunk.width
    BY DEF ForwardFill
  <2> HIDE DEF top
  <2>2. c \in DOMAIN top /\ c \in Int /\ \A e \in DOMAIN top : e \in Int
    BY <2>1
  <2> QED
    BY <2>2 DEF GroupOf
<1>3. ASSUME ~OtherThree(chunk, c)
      PROVE  \A d \in group :
               chunk.means[d].residence = Residences[Cardinality({e \in group : e <= d})]
  BY <1>1, <1>3, Zenon DEF OtherThree
<1> HIDE DEF group
<1> QED
  BY <1>1, <1>2, <1>3 DEF group

\* What header lines name of a chunk of the evidence is what its columns are of.
LEMMA HeadersTell ==
  ASSUME request \in Requests, EvidenceInv, NEW id \in Ids, NEW c \in 2..Chunk(id).width
  PROVE  /\ Chunk(id).width \in Nat
         /\ \A n \in HeaderLines(Chunk(id)) :
              DOMAIN Chunk(id).lines[n].cells = 1..Chunk(id).width
         /\ \A year \in Years :
              year \in HeaderWords(Chunk(id), c) =>
                Chunk(id).means[c].year = year /\ ~Chunk(id).contents
         /\ \A residence \in Range(Residences) :
              residence \in HeaderWords(Chunk(id), c) => Chunk(id).means[c].residence = residence
         /\ \A group \in Populations :
              group \in HeaderWords(Chunk(id), c) => Chunk(id).means[c].group = group
<1>1. PICK i \in DOMAIN Document : Chunk(id) = WithTitle(Document, Document[i])
  BY ChunkOfDocument
<1> DEFINE chunk == Document[i]
<1>2. /\ Chunk(id).lines = chunk.lines /\ Chunk(id).means = chunk.means
      /\ Chunk(id).width = chunk.width /\ Chunk(id).contents = chunk.contents
  BY <1>1, TitlesAddWords DEF Document
<1>3. /\ HeaderWords(Chunk(id), c) = HeaderWords(chunk, c)
      /\ HeaderLines(Chunk(id)) = HeaderLines(chunk)
  BY <1>2, LinesTell
<1>4. /\ Telling(Document, chunk) /\ chunk.width \in Nat
      /\ \A n \in DOMAIN chunk.lines : DOMAIN chunk.lines[n].cells = 1..chunk.width
  BY DocumentAssumption DEF Document
<1>5. HeaderLines(chunk) \subseteq DOMAIN chunk.lines
  BY DEF HeaderLines
<1>6. c \in 2..chunk.width
  BY <1>2
<1>7. /\ \A year \in Years : year \in HeaderWords(chunk, c) =>
           chunk.means[c].year = year /\ ~chunk.contents
      /\ \A residence \in Range(Residences) :
           residence \in HeaderWords(chunk, c) => chunk.means[c].residence = residence
      /\ \A group \in Populations :
           group \in HeaderWords(chunk, c) => chunk.means[c].group = group
  BY <1>4, <1>6, Zenon DEF Telling
<1> HIDE DEF chunk
<1> QED
  BY <1>2, <1>3, <1>4, <1>5, <1>7

\* A column of a chunk that agrees with a row is of what the row says.
LEMMA ColumnMeans ==
  ASSUME request \in Requests, RequirementInv, EvidenceInv, phase # "plan",
         NEW id \in Ids, NEW row, NEW c \in 2..Chunk(id).width, NEW checksUnit,
         ColumnAgrees(row, Chunk(id), c, checksUnit), ResidenceOf(row) \in Range(Residences)
  PROVE  /\ Chunk(id).means[c].year = Year /\ OfPopulation(Chunk(id), c) /\ ~Chunk(id).contents
         /\ \/ OfResidence(Chunk(id).means[c], ResidenceOf(row))
            \/ OtherThree(Chunk(id), c)
<1> DEFINE chunk == Chunk(id)
           header == HeaderWords(chunk, c)
<1>1. /\ Year \in header
      /\ ResidenceOf(row) \in header \/ ResidenceByPosition(chunk, c, ResidenceOf(row))
      /\ SkipsPopulation \/ header \cap Populations = {} \/ Categories \subseteq header
  BY Zenon DEF ColumnAgrees
<1>2. Year \in Years
  BY DEF RequirementInv, Year, Said, Years, None
<1>3. /\ chunk.width \in Nat
      /\ \A n \in HeaderLines(chunk) : DOMAIN chunk.lines[n].cells = 1..chunk.width
      /\ \A year \in Years : year \in header => chunk.means[c].year = year /\ ~chunk.contents
      /\ \A residence \in Range(Residences) :
           residence \in header => chunk.means[c].residence = residence
      /\ \A group \in Populations : group \in header => chunk.means[c].group = group
  BY HeadersTell
<1> HIDE DEF chunk, header
<1>4. chunk.means[c].year = Year /\ ~chunk.contents
  BY <1>1, <1>2, <1>3
<1>5. OfPopulation(chunk, c)
  <2>1. SUFFICES ASSUME ~SkipsPopulation, Categories # {}, header \cap Populations # {}
        PROVE  chunk.means[c].group \in Population \cup asked.metric
    BY Zenon DEF OfPopulation, header
  <2>2. PICK group \in Categories : group \in header
    BY <1>1, <2>1
  <2>3. group \in Population /\ group \in Populations
    BY DEF Categories
  <2> QED
    BY <1>3, <2>2, <2>3
<1>6. OfResidence(chunk.means[c], ResidenceOf(row)) \/ OtherThree(chunk, c)
  <2>1. CASE ResidenceOf(row) \in header
    BY <1>3, <2>1 DEF OfResidence
  <2>2. CASE ResidenceByPosition(chunk, c, ResidenceOf(row))
    <3>1. c \in 2..chunk.width
      BY DEF chunk
    <3>2. chunk.means[c].residence = ResidenceOf(row) \/ OtherThree(chunk, c)
      BY <1>3, <2>2, <3>1, PositionTells
    <3> QED
      BY <3>2 DEF OfResidence
  <2> QED
    BY <1>1, <2>1, <2>2
<1> QED
  BY <1>4, <1>5, <1>6 DEF chunk

\* A chunk of a table that is of a subgroup says so, with its title.
LEMMA SubgroupsAreTold ==
  ASSUME request \in Requests, EvidenceInv, NEW id \in Ids, Chunk(id).lines # <<>>
  PROVE  Chunk(id).of \subseteq Chunk(id).says \cap Subgroups
<1>1. PICK i \in DOMAIN Document : Chunk(id) = WithTitle(Document, Document[i])
  BY ChunkOfDocument
<1>2. Telling(Document, Document[i])
  BY DocumentAssumption DEF Document
<1>3. Chunk(id).of = Document[i].of /\ Chunk(id).lines = Document[i].lines
  BY <1>1, TitlesAddWords DEF Document
<1>4. Chunk(id).says = Document[i].says \cup TitleOf(Document, Document[i].section)
  BY <1>1, <1>3, TitlesAddWords DEF Document
<1> QED
  BY <1>2, <1>3, <1>4 DEF Telling

\* A row that is accepted shows a cell of the chunk it is bound to.
LEMMA AcceptedShows ==
  ASSUME request \in Requests, RequirementInv, EvidenceInv, phase # "plan",
         NEW row \in Proposed, NEW new, new = Hydrated(row), new.id # Garbled,
         asked.residences # {} => new.residence \in asked.residences,
         NEW checksRegion, NEW checksUnit,
         MatchesRow(new, Chunk(new.id), checksRegion, checksUnit)
  PROVE  Shows(new) /\ Proposes(new)
<1>1. new.value \in Int /\ new.id \in Ids
  BY HydratedFields, ReboundInEvidence
<1> DEFINE chunk == Chunk(new.id)
<1>2. /\ (chunk.says \cap Subgroups) \subseteq (asked.metric \cup Population)
      /\ ScopesAgree(new)
      /\ Cardinality(Cells(new, chunk, checksUnit)) = 1
  BY DEF MatchesRow
<1>3. Cells(new, chunk, checksUnit) # {}
  BY <1>2, OneIsSome
<1>4. PICK ic \in DataLines(chunk) \X (2..chunk.width) :
        /\ chunk.lines[ic[1]].label = new.label /\ chunk.lines[ic[1]].cells[ic[2]] = new.value
        /\ ColumnAgrees(new, chunk, ic[2], checksUnit)
  BY <1>3, Zenon DEF Cells
<1>5. ic[1] \in DataLines(chunk) /\ ic[2] \in 2..chunk.width
  BY <1>4
<1>6. /\ new.residence = ResidenceOf(new) /\ new.residence \in Range(Residences)
      /\ IF asked.residences # {} THEN new.residence \in asked.residences
         ELSE new.residence = Said(asked.residence, "total")
  BY <1>2, ResidenceIsAsked
<1>7. /\ chunk.means[ic[2]].year = Year /\ OfPopulation(chunk, ic[2]) /\ ~chunk.contents
      /\ OfResidence(chunk.means[ic[2]], new.residence) \/ OtherThree(chunk, ic[2])
  BY <1>1, <1>4, <1>5, <1>6, ColumnMeans
<1>8. ShowsCell(new)
  <2>1. ic[2] \in ShowingColumns(new)
    BY <1>4, <1>5, <1>7 DEF ShowingColumns
  <2> QED
    BY <1>7, <2>1 DEF ShowsCell
<1>9. chunk.of \subseteq (asked.metric \cup asked.population)
  <2>1. chunk.lines # <<>>
    BY <1>5 DEF DataLines
  <2>2. chunk.of \subseteq chunk.says \cap Subgroups
    BY <1>1, <2>1, SubgroupsAreTold
  <2>3. "persons" \notin Subgroups
    BY DEF Subgroups
  <2> QED
    BY <1>2, <2>2, <2>3 DEF Population
<1> QED
  BY <1>1, <1>6, <1>7, <1>8, <1>9 DEF Shows, Proposes

-----------------------------------------------------------------------------
(* Rows of a selected column. *)

\* A request for a ranking was classified as one, with a whole column or none.
LEMMA RankingIsGiven ==
  ASSUME request \in Requests, RequirementInv, phase # "plan", asked.rank
  PROVE  /\ OneDocument(Document) /\ WholeColumn(Document, request.records)
<1>1. request.given # <<>> /\ request.given[1].rank
  BY DEF RequirementInv
<1>2. IsList(request.given) /\ DOMAIN request.given # {}
  BY <1>1, RequirementAssumption DEF IsList
<1>3. 1 \in DOMAIN request.given
  BY <1>2 DEF IsList
<1> QED
  BY <1>1, <1>3, RequirementAssumption DEF Document

\* The rows of the selected column are lines of the document, one for each record.
LEMMA SelectionParts ==
  ASSUME request \in Requests, RequirementInv, EvidenceInv, selection # <<>>
  PROVE  /\ DOMAIN selection = 1..Len(request.records) /\ Len(request.records) \in Nat
         /\ DOMAIN selection = DOMAIN request.records
         /\ \A i \in DOMAIN selection :
              LET record == request.records[i]
                  chunk == Document[record.chunk]
              IN  /\ record.chunk \in DOMAIN Document /\ record.line \in DataLines(chunk)
                  /\ selection[i].id = chunk.id /\ selection[i].line = chunk.lines[record.line]
                  /\ \E c \in Fitting(chunk) : selection[i].value = chunk.lines[record.line].cells[c]
<1> DEFINE Of(i) == request.document[request.records[i].chunk]
           Line(i) == Of(i).lines[request.records[i].line]
           places == DOMAIN request.records
           fitting == {c \in UNION {Fitting(Of(i)) : i \in places} :
                         \A i \in places : c \in Fitting(Of(i))}
           Values(c) == [i \in places |-> Line(i).cells[c]]
           column == CHOOSE c \in fitting : TRUE
<1>1. phase # "plan" /\ asked.rank /\ selection = Column
  BY DEF EvidenceInv
<1>2. /\ Cardinality({Values(c) : c \in fitting}) = 1
      /\ selection = [i \in places |->
                        [id |-> Of(i).id, line |-> Line(i), value |-> Values(column)[i],
                         unit |-> Of(i).means[column].unit]]
  BY <1>1, Zenon DEF Column
<1>3. IsList(request.records)
  BY DocumentAssumption
<1>4. WholeColumn(Document, request.records)
  BY <1>1, RankingIsGiven
<1>5. DOMAIN selection = places
  BY <1>2
<1>6. column \in fitting
  <2>1. {Values(c) : c \in fitting} # {}
    BY <1>2, OneIsSome
  <2> HIDE DEF fitting, Values
  <2>2. fitting # {}
    BY <2>1
  <2> QED
    BY <2>2
<1>7. \A i \in places : column \in Fitting(Of(i))
  BY <1>6
<1>8. ASSUME NEW i \in places
      PROVE  LET record == request.records[i]
                 chunk == Document[record.chunk]
             IN  /\ record.chunk \in DOMAIN Document /\ record.line \in DataLines(chunk)
                 /\ selection[i].id = chunk.id /\ selection[i].line = chunk.lines[record.line]
                 /\ \E c \in Fitting(chunk) :
                      selection[i].value = chunk.lines[record.line].cells[c]
  <2> DEFINE record == request.records[i]
  <2>1. record.chunk \in DOMAIN Document /\ record.line \in DataLines(Document[record.chunk])
    BY <1>4 DEF WholeColumn
  <2>2. /\ selection[i].id = Of(i).id /\ selection[i].line = Line(i)
        /\ selection[i].value = Line(i).cells[column]
    <3> HIDE DEF column, fitting
    <3>1. Values(column)[i] = Line(i).cells[column]
      OBVIOUS
    <3> HIDE DEF Of, Line, Values
    <3> QED
      BY <1>2, <3>1
  <2>3. column \in Fitting(Of(i))
    BY <1>7
  <2> HIDE DEF column, fitting
  <2> QED
    BY <2>1, <2>2, <2>3 DEF Document
<1> QED
  BY <1>3, <1>5, <1>8 DEF IsList

\* The group the table store looks for is of the population scope or of the metric.
LEMMA GroupIsAsked ==
  ASSUME asked.population # {}, Categories # {}
  PROVE  WantedGroup \in Population \cup asked.metric
<1>1. Population = asked.population
  BY DEF Population
<1>2. PICK group \in asked.population : group \in {"persons", "male", "female"}
  BY <1>1 DEF Categories, Populations
<1> QED
  BY <1>1, <1>2, Zenon DEF WantedGroup

\* A row of the selected column shows its cell.
LEMMA SelectedShows ==
  ASSUME request \in Requests, RequirementInv, EvidenceInv, selection # <<>>,
         NEW i \in DOMAIN selection, InEvidence(selection[i])
  PROVE  Shows(TableRows[i])
<1> DEFINE record == request.records[i]
           residence == Said(asked.residence, "total")
<1>1. PICK p \in DOMAIN Document, n \in DataLines(Document[record.chunk]) :
        /\ p = record.chunk /\ n = record.line
        /\ selection[i].id = Document[p].id /\ selection[i].line = Document[p].lines[n]
        /\ \E c \in Fitting(Document[p]) : selection[i].value = Document[p].lines[n].cells[c]
  BY SelectionParts
<1> DEFINE chunk == Document[p]
           id == selection[i].id
<1>2. PICK c \in Fitting(chunk) : selection[i].value = chunk.lines[n].cells[c]
  BY <1>1
<1>3. id \in Ids
  BY DEF InEvidence
<1>4. Chunk(id) = WithTitle(Document, chunk)
  <2>1. PICK m \in DOMAIN Document :
          Document[m].id = id /\ Chunk(id) = WithTitle(Document, Document[m])
    BY <1>3, ChunkOfDocument
  <2>2. \A x, y \in DOMAIN Document : Document[x].id = Document[y].id => x = y
    BY DocumentAssumption DEF Document
  <2>3. m = p
    BY <1>1, <2>1, <2>2
  <2> QED
    BY <2>1, <2>3
<1>5. /\ Chunk(id).lines = chunk.lines /\ Chunk(id).means = chunk.means
      /\ Chunk(id).width = chunk.width /\ Chunk(id).of = chunk.of
  BY <1>4, TitlesAddWords DEF Document
<1>6. DataLines(Chunk(id)) = DataLines(chunk)
  BY <1>5, LinesTell
<1>7. /\ TableRows[i].label = chunk.lines[n].label
      /\ TableRows[i].value = chunk.lines[n].cells[c]
      /\ TableRows[i].id = id /\ TableRows[i].residence = residence
  BY <1>1, <1>2, Zenon DEF TableRows
<1>8. n \in DataLines(chunk)
  BY <1>1
<1>9. /\ c \in 2..chunk.width /\ chunk.of = Subgroups \cap (asked.metric \cup asked.population)
      /\ chunk.means[c].year = Year
      /\ Said(chunk.means[c].residence, "total") = residence
      /\ Said(chunk.means[c].group, "persons") = WantedGroup
  BY <1>2, Zenon DEF Fitting, Year
<1>10. chunk.lines[n].cells[c] \in Int
  BY <1>8, <1>9, DocumentAssumption DEF Document
<1>11. asked.rank
  BY DEF EvidenceInv
<1>12. \A group \in Populations :
         group \in HeaderWords(Chunk(id), c) => Chunk(id).means[c].group = group
  <2>1. c \in 2..Chunk(id).width
    BY <1>5, <1>9
  <2> QED
    BY <1>3, <2>1, HeadersTell
<1> HIDE DEF chunk, id, residence
<1>13. OfPopulation(Chunk(id), c)
  <2>1. SUFFICES ASSUME ~SkipsPopulation, Categories # {},
                        HeaderWords(Chunk(id), c) \cap Populations # {}
        PROVE  Chunk(id).means[c].group \in Population \cup asked.metric
    BY Zenon DEF OfPopulation
  <2>2. asked.population # {}
    BY <1>11, <2>1 DEF SkipsPopulation
  <2>3. PICK group \in Populations : Chunk(id).means[c].group = group
    BY <1>12, <2>1
  <2>4. group # None
    BY DEF Populations, None
  <2>5. group = WantedGroup
    BY <1>5, <1>9, <2>3, <2>4 DEF Said
  <2> QED
    BY <2>1, <2>2, <2>3, <2>5, GroupIsAsked
<1>14. OfResidence(Chunk(id).means[c], residence)
  BY <1>5, <1>9 DEF OfResidence, Said
<1>15. ShowsCell(TableRows[i])
  <2>1. PICK row, known : row = TableRows[i] /\ known = Chunk(id)
    OBVIOUS
  <2>2. /\ row.id = id /\ row.residence = residence /\ row.label = known.lines[n].label
        /\ row.value = known.lines[n].cells[c] /\ n \in DataLines(known)
        /\ c \in 2..known.width /\ known.means[c].year = Year
    BY <1>5, <1>6, <1>7, <1>8, <1>9, <2>1
  <2>3. Chunk(row.id) = known
    BY <2>1, <2>2
  <2>4. c \in ShowingColumns(row)
    BY <1>13, <2>1, <2>2, <2>3 DEF ShowingColumns
  <2>5. ShowsCell(row)
    BY <1>14, <2>1, <2>2, <2>3, <2>4 DEF ShowsCell
  <2> QED
    BY <2>1, <2>5
<1> QED
  BY <1>3, <1>5, <1>7, <1>9, <1>10, <1>15 DEF Shows

-----------------------------------------------------------------------------
(* What depends on the evidence and the rows alone stays as they are. *)

\* The column the table store has for a requirement.
LEMMA ColumnStays ==
  ASSUME UNCHANGED <<request, asked>>
  PROVE  Column' = Column
<1> DEFINE
      Group(a) ==
        LET words == a.population \cup a.metric
        IN  IF "female" \in words THEN "female" ELSE IF "male" \in words THEN "male" ELSE "persons"
      Fits(a, chunk) ==
        {c \in 2..chunk.width :
           LET column == chunk.means[c]
           IN  /\ chunk.of = Subgroups \cap (a.metric \cup a.population)
               /\ column.year = Said(a.year, "2011")
               /\ Said(column.residence, "total") = Said(a.residence, "total")
               /\ Said(column.group, "persons") = Group(a)}
      ColumnOf(r, a) ==
        LET Of(i) == r.document[r.records[i].chunk]
            Line(i) == Of(i).lines[r.records[i].line]
            places == DOMAIN r.records
            fitting == {c \in UNION {Fits(a, Of(i)) : i \in places} :
                          \A i \in places : c \in Fits(a, Of(i))}
            Values(c) == [i \in places |-> Line(i).cells[c]]
        IN  IF Len(r.records) < 2 \/ Cardinality({Values(c) : c \in fitting}) # 1 THEN <<>>
            ELSE LET c == CHOOSE d \in fitting : TRUE
                 IN  [i \in places |-> [id |-> Of(i).id, line |-> Line(i), value |-> Values(c)[i],
                                        unit |-> Of(i).means[c].unit]]
<1>1. Column = ColumnOf(request, asked) /\ Column' = ColumnOf(request', asked')
  BY Zenon DEF Column, Fitting, WantedGroup
<1> HIDE DEF ColumnOf
<1> QED
  BY <1>1

\* The chunks, their cells, and the selected column.
LEMMA EvidenceStays ==
  ASSUME UNCHANGED <<request, asked, evidence>>
  PROVE  /\ Ids' = Ids /\ Document' = Document /\ Year' = Year /\ Column' = Column
         /\ \A id : Chunk(id)' = Chunk(id)
         /\ AskedResidences' = AskedResidences
<1> DEFINE IdsOf(e) == {e[i].id : i \in DOMAIN e}
           ChunkIn(e, id) == e[CHOOSE i \in DOMAIN e : e[i].id = id]
<1>1. Ids = IdsOf(evidence) /\ Ids' = IdsOf(evidence')
  BY Zenon DEF Ids
<1>2. \A id : Chunk(id) = ChunkIn(evidence, id) /\ Chunk(id)' = ChunkIn(evidence', id)
  BY Zenon DEF Chunk
<1>3. Column' = Column
  BY ColumnStays
<1> HIDE DEF IdsOf, ChunkIn
<1>4. Year' = Year /\ Document' = Document
  BY DEF Year, Document
<1>5. \A id : Chunk(id)' = Chunk(id)
  BY <1>2
<1>6. AskedResidences' = AskedResidences
  BY DEF AskedResidences
<1> QED
  BY <1>1, <1>3, <1>4, <1>5, <1>6

\* What a row shows.
LEMMA ShowingStays ==
  ASSUME UNCHANGED <<request, asked, evidence, selection>>, NEW CONSTANT row
  PROVE  Shows(row)' = Shows(row) /\ Proposes(row)' = Proposes(row)
<1> DEFINE
      Skips(a) == a.population = {} /\ (a.rank \/ "ratio" \in a.metric)
      PopulationOf(a) == IF a.population = {} THEN {"persons"} ELSE a.population
      Right(chunk, a, c) ==
        \/ Skips(a) \/ PopulationOf(a) \cap Populations = {}
        \/ HeaderWords(chunk, c) \cap Populations = {}
        \/ chunk.means[c].group \in PopulationOf(a) \cup a.metric
      Reside(s, column) ==
        \/ column.residence = row.residence
        \/ s # <<>> /\ column.residence = None /\ row.residence = "total"
<1>1. Ids' = Ids /\ Chunk(row.id)' = Chunk(row.id)
  BY EvidenceStays
<1>2. \A chunk, c : /\ OfPopulation(chunk, c) = Right(chunk, asked, c)
                    /\ OfPopulation(chunk, c)' = Right(chunk, asked', c)
  BY Zenon DEF OfPopulation, SkipsPopulation, Categories, Population
<1>3. \A column : /\ OfResidence(column, row.residence) = Reside(selection, column)
                  /\ OfResidence(column, row.residence)' = Reside(selection', column)
  BY Zenon DEF OfResidence
<1>4. ShowingColumns(row)' = ShowingColumns(row)
  BY <1>1, <1>2, Zenon DEF ShowingColumns, Year
<1>5. ShowsCell(row)' = ShowsCell(row)
  BY <1>1, <1>3, <1>4, Zenon DEF ShowsCell
<1> QED
  BY <1>1, <1>5, Zenon DEF Shows, Proposes

\* The rows of the selected column.
LEMMA TableStays ==
  ASSUME UNCHANGED collected
  PROVE  TableRows' = TableRows
<1> DEFINE TableOf(s, a, y, p) ==
             [i \in DOMAIN s |->
               [label |-> s[i].line.label, series |-> None, value |-> s[i].value,
                unit |-> s[i].unit, id |-> s[i].id, residence |-> Said(a.residence, "total"),
                year |-> y, population |-> IF a.population = {} THEN {p} ELSE a.population]]
<1>1. /\ asked' = asked /\ selection' = selection
      /\ Year' = Year /\ WantedGroup' = WantedGroup
  BY DEF collected, Year, WantedGroup
<1>2. /\ TableRows = TableOf(selection, asked, Year, WantedGroup)
      /\ TableRows' = TableOf(selection', asked', Year', WantedGroup')
  BY Zenon DEF TableRows
<1> HIDE DEF TableOf
<1> QED
  BY <1>1, <1>2

\* What the dataset is checked for, and how it is ranked.
LEMMA DatasetStays ==
  ASSUME UNCHANGED <<collected, rows>>
  PROVE  /\ TableRows' = TableRows /\ Complete' = Complete
         /\ DetectedRows' = DetectedRows /\ Individuals' = Individuals /\ Sorted' = Sorted
<1> DEFINE CompleteOf(r, a) ==
             /\ r # <<>>
             /\ a.regions \subseteq Labels(r)
             /\ a.residences # {} =>
                  \A region \in IF a.regions # {} THEN a.regions ELSE Labels(r),
                     residence \in a.residences :
                    \E i \in DOMAIN r : Dimension(r[i]) = <<region, residence>>
           ChunkIn(e, id) == e[CHOOSE i \in DOMAIN e : e[i].id = id]
           IdsOf(e) == {e[i].id : i \in DOMAIN e}
           SameTableOf(e, r) ==
             LET Signature(chunk) == {chunk.lines[i] : i \in {1} \cap DOMAIN chunk.lines}
                 used == {Signature(ChunkIn(e, r[i].id)) : i \in DOMAIN r}
             IN  {id \in IdsOf(e) : Signature(ChunkIn(e, id)) \in used}
           EntitiesOf(e, ids) ==
             UNION {{ChunkIn(e, id).lines[i].label : i \in DataLines(ChunkIn(e, id))}
                      \ {ChunkIn(e, id).region} :
                    id \in {x \in ids : ~ChunkIn(e, x).contents}}
           StateOf(e) == LET first == CHOOSE i \in DOMAIN e : \A j \in DOMAIN e : i <= j
                         IN  e[first].region
           IndividualsOf(r, state) == {i \in DOMAIN r : r[i].label # state}
           BeforeIn(r, a, i, j) ==
             LET x == r[i].value
                 y == r[j].value
             IN  IF x = y THEN i < j ELSE IF a.direction = "min" THEN x < y ELSE x > y
           SortedOf(r, a, individuals) ==
             [n \in 1..Cardinality(individuals) |->
                r[CHOOSE i \in individuals :
                    Cardinality({j \in individuals : BeforeIn(r, a, j, i)}) = n - 1]]
<1>1. /\ asked' = asked /\ evidence' = evidence /\ selection' = selection /\ rows' = rows
  BY DEF collected
<1>2. TableRows' = TableRows
  BY TableStays
<1>3. Complete = CompleteOf(rows, asked) /\ Complete' = CompleteOf(rows', asked')
  BY Zenon DEF Complete
<1>4. SameTable = SameTableOf(evidence, rows) /\ SameTable' = SameTableOf(evidence', rows')
  BY Zenon DEF SameTable, Chunk, Ids
<1>5. /\ EntityLabels(SameTable) = EntitiesOf(evidence, SameTable)
      /\ EntityLabels(SameTable)' = EntitiesOf(evidence', SameTable')
  BY Zenon DEF EntityLabels, Chunk
<1>6. State = StateOf(evidence) /\ State' = StateOf(evidence')
  BY Zenon DEF State
<1>7. /\ Individuals = IndividualsOf(rows, State)
      /\ Individuals' = IndividualsOf(rows', State')
  BY Zenon DEF Individuals
<1>8. /\ Sorted = SortedOf(rows, asked, Individuals)
      /\ Sorted' = SortedOf(rows', asked', Individuals')
  BY Zenon DEF Sorted, Before
<1> HIDE DEF CompleteOf, SameTableOf, EntitiesOf, StateOf, IndividualsOf, SortedOf
<1>9. DetectedRows' = DetectedRows
  BY <1>1, <1>4, <1>5, Zenon DEF DetectedRows
<1> QED
  BY <1>1, <1>2, <1>3, <1>6, <1>7, <1>8, <1>9, Zenon

-----------------------------------------------------------------------------
(* IInv is inductive. *)

\* Before the first step there is neither evidence nor a row.
LEMMA InitIInv == Init => IInv
<1> SUFFICES ASSUME Init PROVE IInv
  OBVIOUS
<1>1. rows = <<>> /\ evidence = <<>> /\ selection = <<>> /\ phase = "plan"
      /\ request \in Requests
  BY DEF Init
<1>2. rows \in Seq({})
  BY <1>1
<1>3. RowsInv
  BY <1>1, <1>2 DEF RowsInv
<1> QED
  BY <1>1, <1>3 DEF IInv, RequirementInv, EvidenceInv, EndInv

\* The request is given, and the requirement is made once.
LEMMA StepRequirement == IInv /\ [Next]_vars => request' \in Requests /\ RequirementInv'
<1> SUFFICES ASSUME IInv, [Next]_vars PROVE request' \in Requests /\ RequirementInv'
  OBVIOUS
<1>1. request \in Requests /\ RequirementInv
  BY DEF IInv
<1>2. CASE Require
  BY <1>1, <1>2, RequireKeeps DEF Require
<1>3. CASE ~Require
  <2>1. request' = request /\ asked' = asked /\ (phase' # "plan" => phase # "plan")
    BY <1>3 DEF Next, vars, collected, CollectTable, CollectSearch, Prepare, ProposeRow,
                EndProposal, FromTable, Rank, Return
  <2>2. AskedResidences' = AskedResidences
    BY <2>1 DEF AskedResidences
  <2> QED
    BY <1>1, <2>1, <2>2 DEF RequirementInv
<1> QED
  BY <1>2, <1>3

\* Chunks of places of the document are what the places say.
LEMMA TitledPlaces ==
  ASSUME NEW places
  PROVE  /\ DOMAIN Titled(places) = places
         /\ \A i \in places : Titled(places)[i] = WithTitle(Document, Document[i])
BY DEF Titled, Document

\* The evidence is collected once, from the document.
LEMMA StepEvidence == IInv /\ [Next]_vars => EvidenceInv'
<1> SUFFICES ASSUME IInv, [Next]_vars PROVE EvidenceInv'
  OBVIOUS
<1>1. EvidenceInv
  BY DEF IInv
<1>2. CASE CollectTable
  <2>1. /\ request' = request /\ asked' = asked /\ asked.rank /\ phase' \in {"start", "refused"}
        /\ Document' = Document
    BY <1>2 DEF CollectTable, Document
  <2>2. CASE selection' = Column /\ Column # <<>>
             /\ evidence' = Titled(ChunksWith({Column[i].id : i \in DOMAIN Column}))
    <3>1. PICK places : /\ evidence' = Titled(places) /\ places \subseteq DOMAIN Document
      BY <2>2 DEF ChunksWith, Document
    <3>2. Column' = Column
      BY <2>1, ColumnStays
    <3> QED
      BY <2>1, <2>2, <3>1, <3>2, TitledPlaces DEF EvidenceInv
  <2>3. CASE selection' = <<>> /\ evidence' = Scanned
    <3>1. PICK places : /\ Scanned = Restrict(Titled(DOMAIN Document), places)
                        /\ places \subseteq DOMAIN Document
      <4> DEFINE chunks == Titled(DOMAIN request.document)
                 Words(i) == Context(chunks[i]) \cup chunks[i].title
                 places == {i \in DOMAIN chunks :
                   asked.metric \subseteq Words(i) /\ (Subgroups \ asked.metric) \cap Words(i) = {}}
      <4>1. Scanned = Restrict(chunks, places)
        BY Zenon DEF Scanned
      <4>2. places \subseteq DOMAIN Document /\ chunks = Titled(DOMAIN Document)
        BY TitledPlaces DEF Document
      <4> QED
        BY <4>1, <4>2
    <3>2. /\ DOMAIN evidence' = places
          /\ \A i \in places : evidence'[i] = WithTitle(Document, Document[i])
      BY <2>3, <3>1, TitledPlaces DEF Restrict
    <3> QED
      BY <2>1, <2>3, <3>1, <3>2 DEF EvidenceInv
  <2> QED
    BY <1>2, <2>2, <2>3 DEF CollectTable
<1>3. CASE CollectSearch
  <2>1. /\ request' = request /\ phase' \in {"start", "refused"} /\ Document' = Document
        /\ selection = <<>> /\ selection' = selection
    BY <1>1, <1>3 DEF CollectSearch, Document, EvidenceInv
  <2>2. PICK places : evidence' = Titled(places) /\ places \subseteq DOMAIN Document
    BY <1>3 DEF CollectSearch, ChunksWith, Document
  <2> QED
    BY <2>1, <2>2, TitledPlaces DEF EvidenceInv
<1>4. CASE ~CollectTable /\ ~CollectSearch
  <2>1. /\ request' = request /\ evidence' = evidence /\ selection' = selection
        /\ Document' = Document
    BY <1>4 DEF Next, vars, collected, Require, Prepare, ProposeRow, EndProposal, FromTable, Rank,
                Return, Document
  <2>2. CASE selection = <<>>
    <3>1. phase' # "table"
      BY <1>1, <1>4, <2>2 DEF Next, vars, Require, Prepare, ProposeRow, EndProposal,
                         FromTable, Rank, Return, EvidenceInv
    <3> QED
      BY <1>1, <2>1, <2>2, <3>1 DEF EvidenceInv
  <2>3. CASE selection # <<>>
    <3>1. phase \notin {"plan", "collect", "rows"} /\ asked.rank /\ selection = Column
      BY <1>1, <2>3 DEF EvidenceInv
    <3>2. asked' = asked /\ phase' \notin {"plan", "collect", "rows"}
      BY <1>4, <2>3, <3>1 DEF Next, vars, collected, Require, Prepare, ProposeRow, EndProposal,
                              FromTable, Rank, Return
    <3>3. Column' = Column
      BY <2>1, <3>2, EvidenceStays
    <3> QED
      BY <1>1, <2>1, <2>3, <3>1, <3>2, <3>3 DEF EvidenceInv
  <2> QED
    BY <2>2, <2>3
<1> QED
  BY <1>2, <1>3, <1>4

\* A row that is added is no longer than the sequence of the rows.
LEMMA AppendedRow ==
  ASSUME NEW S, NEW list \in Seq(S), NEW new
  PROVE  /\ Append(list, new) \in Seq(S \cup {new})
         /\ DOMAIN list = 1..Len(list) /\ Len(list) \in Nat
         /\ DOMAIN Append(list, new) = 1..(Len(list) + 1)
         /\ \A i \in DOMAIN list : Append(list, new)[i] = list[i]
         /\ Append(list, new)[Len(list) + 1] = new
<1>1. list \in Seq(S \cup {new})
  OBVIOUS
<1> QED
  BY <1>1

\* Every row of the dataset shows a cell, and no two are of one target.
LEMMA StepRows == IInv /\ [Next]_vars => RowsInv'
<1> SUFFICES ASSUME IInv, [Next]_vars PROVE RowsInv'
  OBVIOUS
<1>1. request \in Requests /\ RequirementInv /\ EvidenceInv /\ RowsInv
  BY DEF IInv
<1>2. CASE Require \/ CollectTable \/ CollectSearch \/ Prepare
  <2>1. rows = <<>> /\ rows' = rows
    BY <1>1, <1>2 DEF Require, CollectTable, CollectSearch, Prepare, RowsInv
  <2>2. rows' \in Seq({})
    BY <2>1
  <2> QED
    BY <2>1, <2>2 DEF RowsInv
<1>3. CASE ProposeRow
  <2>1. /\ phase = "rows" /\ phase' \in {"rows", "refused"}
        /\ UNCHANGED <<request, asked, evidence>>
        /\ selection' = selection /\ selection = <<>>
    BY <1>1, <1>3 DEF ProposeRow, collected, EvidenceInv
  <2>2. CASE rows' = rows
    BY <1>1, <2>1, <2>2, ShowingStays DEF RowsInv, Dimension
  <2>3. CASE rows' # rows
    <3>1. PICK row \in Proposed :
            LET new == Hydrated(row)
            IN  /\ new.id # Garbled
                /\ asked.residences # {} => new.residence \in asked.residences
                /\ \A i \in DOMAIN rows : Dimension(rows[i]) # Dimension(new)
                /\ MatchesRow(new, Chunk(new.id), ~asked.rank, ~asked.rank)
                /\ rows' = Append(rows, new)
      BY <1>3, <2>3, Zenon DEF ProposeRow
    <3>2. PICK new : new = Hydrated(row)
      OBVIOUS
    <3>3. Shows(new) /\ Proposes(new)
      BY <1>1, <2>1, <3>1, <3>2, AcceptedShows
    <3>4. PICK S : rows \in Seq(S)
      BY <1>1 DEF RowsInv
    <3>5. /\ rows' \in Seq(S \cup {new})
          /\ DOMAIN rows = 1..Len(rows) /\ Len(rows) \in Nat
          /\ DOMAIN rows' = 1..(Len(rows) + 1)
          /\ \A i \in DOMAIN rows : rows'[i] = rows[i]
          /\ rows'[Len(rows) + 1] = new
      BY <3>1, <3>2, <3>4, AppendedRow
    <3>6. /\ \A i \in DOMAIN rows : Shows(rows[i]) /\ Proposes(rows[i])
          /\ \A i, j \in DOMAIN rows : Dimension(rows[i]) = Dimension(rows[j]) => i = j
      BY <1>1, <2>1 DEF RowsInv
    <3>7. \A i \in DOMAIN rows' : Shows(rows'[i]) /\ Proposes(rows'[i])
      BY <3>3, <3>5, <3>6
    <3>8. \A i, j \in DOMAIN rows' : Dimension(rows'[i]) = Dimension(rows'[j]) => i = j
      <4>1. \A i \in DOMAIN rows : Dimension(rows[i]) # Dimension(new)
        BY <3>1, <3>2
      <4> QED
        BY <3>5, <3>6, <4>1
    <3>9. ASSUME NEW i \in DOMAIN rows' PROVE (Shows(rows[i])' /\ Proposes(rows[i])')
      <4>1. PICK shown : shown = rows'[i]
        OBVIOUS
      <4>2. Shows(shown)' /\ Proposes(shown)'
        BY <2>1, <3>7, <4>1, ShowingStays
      <4> QED
        BY <4>1, <4>2
    <3> QED
      BY <2>1, <3>5, <3>8, <3>9 DEF RowsInv, Dimension
  <2> QED
    BY <2>2, <2>3
<1>4. CASE FromTable
  <2>1. /\ phase = "table" /\ selection # <<>> /\ UNCHANGED <<request, asked, evidence>>
        /\ selection' = selection /\ rows = <<>> /\ phase' \in {"ready", "refused"}
    BY <1>1, <1>4 DEF FromTable, collected, EvidenceInv, RowsInv
  <2>2. CASE rows' = rows
    BY <1>1, <2>1, <2>2 DEF RowsInv
  <2>3. CASE rows' # rows
    <3>1. rows' = TableRows /\ \A i \in DOMAIN selection : InEvidence(selection[i])
      BY <1>4, <2>3 DEF FromTable
    <3>2. \A i \in DOMAIN selection : Shows(TableRows[i])
      BY <1>1, <2>1, <3>1, SelectedShows
    <3>3. /\ DOMAIN rows' = DOMAIN selection /\ DOMAIN selection = 1..Len(request.records)
          /\ Len(request.records) \in Nat
          /\ \A i \in DOMAIN rows' : rows'[i].residence = Said(asked.residence, "total")
      BY <1>1, <2>1, <3>1, SelectionParts DEF TableRows
    <3>4. rows' \in Seq({rows'[i] : i \in DOMAIN rows'})
      <4>1. PICK n, list, S : /\ n \in Nat /\ n = Len(request.records) /\ list = rows'
                              /\ S = {rows'[i] : i \in DOMAIN rows'}
        BY <3>3
      <4>2. list \in [1..n -> S]
        <5>1. list = [i \in DOMAIN list |-> list[i]]
          BY <3>1, <4>1, Zenon DEF TableRows
        <5> QED
          BY <3>3, <4>1, <5>1
      <4> QED
        BY <4>1, <4>2
    <3>5. ASSUME NEW i \in DOMAIN rows' PROVE Shows(rows[i])'
      <4>1. PICK shown : shown = rows'[i]
        OBVIOUS
      <4>2. Shows(shown)'
        BY <2>1, <3>1, <3>2, <3>3, <4>1, ShowingStays
      <4> QED
        BY <4>1, <4>2
    <3> QED
      BY <2>1, <3>3, <3>4, <3>5 DEF RowsInv
  <2> QED
    BY <2>2, <2>3
<1>5. CASE EndProposal \/ Rank \/ Return \/ UNCHANGED vars
  <2>1. /\ UNCHANGED <<request, asked, evidence, selection, rows>>
        /\ phase' \in {"plan", "collect", "start", "table"} => phase' = phase
    BY <1>5 DEF EndProposal, Rank, Return, vars, collected
  <2> QED
    BY <1>1, <2>1, ShowingStays DEF RowsInv, Dimension
<1> QED
  BY <1>2, <1>3, <1>4, <1>5 DEF Next

\* A dataset is ready when it is complete, and ranked when it has all rows.
LEMMA StepEnd == IInv /\ [Next]_vars => EndInv'
<1> SUFFICES ASSUME IInv, [Next]_vars PROVE EndInv'
  OBVIOUS
<1>1. EvidenceInv /\ EndInv
  BY DEF IInv
<1>2. CASE Require \/ CollectTable \/ CollectSearch \/ Prepare \/ ProposeRow
  <2>1. phase' \notin {"ready", "done"}
    BY <1>2 DEF Require, CollectTable, CollectSearch, Prepare, ProposeRow
  <2> QED
    BY <2>1 DEF EndInv
<1>3. CASE EndProposal
  <2>1. /\ UNCHANGED <<collected, rows>> /\ selection' = <<>> /\ phase' # "done"
        /\ phase' = "ready" => Complete
    BY <1>1, <1>3 DEF EndProposal, EvidenceInv, collected
  <2>2. Complete' = Complete
    BY <2>1, DatasetStays
  <2> QED
    BY <2>1, <2>2 DEF EndInv
<1>4. CASE FromTable
  <2>1. /\ selection # <<>> /\ selection' = selection /\ phase' # "done"
        /\ phase' = "ready" => rows' = TableRows
        /\ UNCHANGED collected
    BY <1>1, <1>4 DEF FromTable, EvidenceInv, collected
  <2>2. TableRows' = TableRows
    BY <2>1, TableStays
  <2> QED
    BY <2>1, <2>2 DEF EndInv
<1>5. CASE Rank
  <2>1. /\ UNCHANGED <<collected, rows>> /\ phase = "ready" /\ asked' = asked /\ asked.rank
        /\ selection' = selection /\ rows' = rows
        /\ phase' \in {"done", "refused"}
        /\ phase' = "done" => /\ ~(Len(rows) < DetectedRows) /\ Individuals # {}
                              /\ ranked' = Sorted /\ winner' = ranked'[1]
    BY <1>5, Zenon DEF Rank, collected
  <2>2. /\ TableRows' = TableRows /\ Complete' = Complete
        /\ DetectedRows' = DetectedRows /\ Individuals' = Individuals /\ Sorted' = Sorted
    BY <2>1, DatasetStays
  <2> QED
    BY <1>1, <2>1, <2>2 DEF EndInv
<1>6. CASE Return
  <2>1. /\ UNCHANGED <<collected, rows>> /\ phase = "ready" /\ asked' = asked /\ ~asked.rank
        /\ selection' = selection /\ rows' = rows /\ ranked' = rows /\ phase' = "done"
    BY <1>6 DEF Return, collected
  <2>2. TableRows' = TableRows /\ Complete' = Complete
    BY <2>1, DatasetStays
  <2> QED
    BY <1>1, <2>1, <2>2 DEF EndInv
<1>7. CASE UNCHANGED vars
  <2>1. /\ UNCHANGED <<collected, rows>> /\ phase' = phase /\ asked' = asked
        /\ selection' = selection /\ rows' = rows /\ ranked' = ranked /\ winner' = winner
    BY <1>7 DEF vars, collected
  <2>2. /\ TableRows' = TableRows /\ Complete' = Complete
        /\ DetectedRows' = DetectedRows /\ Individuals' = Individuals /\ Sorted' = Sorted
    BY <2>1, DatasetStays
  <2> QED
    BY <1>1, <2>1, <2>2 DEF EndInv
<1> QED
  BY <1>2, <1>3, <1>4, <1>5, <1>6, <1>7 DEF Next

\* IInv holds in every reachable state.
LEMMA AlwaysIInv == Spec => []IInv
<1>1. IInv /\ [Next]_vars => IInv'
  BY StepRequirement, StepEvidence, StepRows, StepEnd DEF IInv
<1> QED
  BY InitIInv, <1>1, PTL DEF Spec

-----------------------------------------------------------------------------
(* Rows and targets. *)

\* _match_row, with_table_title, select_column: a row of a dataset shows a cell of the evidence of
\* what was asked for, whatever the classifier makes of the question and whatever rows the model
\* proposes; of its residence, unless the column stands in a group of three that are not total,
\* rural and urban.
THEOREM RowsShowCells == Spec => []RowsAreCells
<1>1. ASSUME IInv PROVE RowsAreCells
  <2>1. RowsInv /\ RequirementInv
    BY <1>1 DEF IInv
  <2>2. SUFFICES ASSUME NEW i \in DOMAIN rows
        PROVE  /\ rows[i].id \in Ids
               /\ Chunk(rows[i].id).of \subseteq (asked.metric \cup asked.population)
               /\ rows[i].residence \in AskedResidences
                    \/ (selection # <<>> /\ asked.residences # {})
               /\ ShowsCell(rows[i])
    BY Zenon DEF RowsAreCells
  <2>3. Shows(rows[i]) /\ phase # "plan"
    BY <2>1 DEF RowsInv
  <2>4. /\ asked.residences # {} => asked.residences = AskedResidences
        /\ asked.residences = {} => AskedResidences = {Said(asked.residence, "total")}
    BY <2>1, <2>3 DEF RequirementInv
  <2>5. CASE selection = <<>>
    <3>1. Proposes(rows[i])
      BY <2>1, <2>5 DEF RowsInv
    <3>2. rows[i].residence \in AskedResidences
      BY <2>4, <3>1 DEF Proposes
    <3> QED
      BY <2>3, <3>2 DEF Shows
  <2>6. CASE selection # <<>>
    <3>1. rows[i].residence = Said(asked.residence, "total")
      BY <2>1, <2>6 DEF RowsInv
    <3> QED
      BY <2>3, <2>4, <2>6, <3>1 DEF Shows
  <2> QED
    BY <2>5, <2>6
<1> QED
  BY AlwaysIInv, <1>1, PTL

\* canonicalize_artifact_requirement, hydrate_artifact_dataset: a dataset of several regions has
\* each residence the question names for each of them, once.
THEOREM EveryTargetIsThere == Spec => []EveryTargetOnce
<1>1. ASSUME IInv PROVE EveryTargetOnce
  <2>1. RowsInv /\ RequirementInv /\ EvidenceInv /\ EndInv
    BY <1>1 DEF IInv
  <2>2. SUFFICES ASSUME phase = "done", ~asked.rank,
                        NEW region \in asked.regions, NEW residence \in AskedResidences
        PROVE  Cardinality({i \in DOMAIN ranked : Dimension(ranked[i]) = <<region, residence>>}) = 1
    BY DEF EveryTargetOnce
  <2>3. selection = <<>> /\ ranked = rows /\ Complete
    BY <2>1, <2>2 DEF EvidenceInv, EndInv
  <2>4. /\ asked.residences # {} => asked.residences = AskedResidences
        /\ asked.residences = {} => AskedResidences = {Said(asked.residence, "total")}
    BY <2>1, <2>2 DEF RequirementInv
  <2>5. PICK i \in DOMAIN rows : Dimension(rows[i]) = <<region, residence>>
    <3>1. CASE asked.residences # {}
      BY <2>2, <2>3, <2>4, <3>1, Zenon DEF Complete
    <3>2. CASE asked.residences = {}
      <4>1. PICK i \in DOMAIN rows : rows[i].label = region
        BY <2>2, <2>3 DEF Complete, Labels
      <4>2. rows[i].residence = Said(asked.residence, "total")
        BY <2>1, <2>3, <3>2 DEF RowsInv, Proposes
      <4> QED
        BY <2>4, <3>2, <4>1, <4>2 DEF Dimension
    <3> QED
      BY <3>1, <3>2
  <2>6. \A j \in DOMAIN rows : Dimension(rows[j]) = <<region, residence>> => j = i
    BY <2>1, <2>3, <2>5 DEF RowsInv
  <2>7. {j \in DOMAIN ranked : Dimension(ranked[j]) = <<region, residence>>} = {i}
    BY <2>3, <2>5, <2>6
  <2> QED
    BY <2>7, FS_Singleton
<1> QED
  BY AlwaysIInv, <1>1, PTL

-----------------------------------------------------------------------------
(* Rankings. *)

Preceding(i) == {j \in Individuals : Before(j, i)}

\* Rows are ordered by their values, and by their places where the values are the same.
LEMMA BeforeIsOrder ==
  ASSUME NEW S, rows \in Seq(S), \A i \in DOMAIN rows : rows[i].value \in Int
  PROVE  /\ IsFiniteSet(Individuals) /\ Individuals \subseteq DOMAIN rows
         /\ \A i \in Individuals : ~Before(i, i)
         /\ \A i, j \in Individuals : i # j => Before(i, j) \/ Before(j, i)
         /\ \A i, j, k \in Individuals : Before(i, j) /\ Before(j, k) => Before(i, k)
<1>1. DOMAIN rows = 1..Len(rows) /\ Len(rows) \in Nat
  OBVIOUS
<1>2. Individuals \subseteq 1..Len(rows)
  BY <1>1 DEF Individuals
<1>3. IsFiniteSet(Individuals)
  <2>1. 1 \in Int /\ Len(rows) \in Int
    BY <1>1
  <2>2. IsFiniteSet(1..Len(rows))
    BY <2>1, FS_Interval
  <2> QED
    BY <1>2, <2>2, FS_Subset
<1>4. \A i \in Individuals : i \in Int /\ rows[i].value \in Int
  BY <1>1, <1>2
<1> HIDE DEF Individuals
<1>5. \A i, j, k \in Individuals : Before(i, j) /\ Before(j, k) => Before(i, k)
  BY <1>4 DEF Before
<1>6. \A i, j \in Individuals : i # j => Before(i, j) \/ Before(j, i)
  BY <1>4 DEF Before
<1>7. \A i \in Individuals : ~Before(i, i)
  BY <1>4 DEF Before
<1> QED
  BY <1>1, <1>2, <1>3, <1>5, <1>6, <1>7

\* A row has fewer before it than any that it precedes.
LEMMA FewerPreceding ==
  ASSUME NEW S, rows \in Seq(S), \A i \in DOMAIN rows : rows[i].value \in Int,
         NEW i \in Individuals
  PROVE  /\ IsFiniteSet(Preceding(i)) /\ Cardinality(Preceding(i)) \in Nat
         /\ Cardinality(Preceding(i)) < Cardinality(Individuals)
         /\ \A j \in Individuals :
              Before(i, j) => Cardinality(Preceding(i)) < Cardinality(Preceding(j))
<1>1. /\ IsFiniteSet(Individuals) /\ ~Before(i, i)
      /\ \A j, k \in Individuals : Before(j, i) /\ Before(i, k) => Before(j, k)
  BY BeforeIsOrder
<1>2. Preceding(i) \subseteq Individuals /\ i \notin Preceding(i)
  BY <1>1 DEF Preceding
<1>3. /\ IsFiniteSet(Preceding(i))
      /\ Cardinality(Preceding(i)) <= Cardinality(Individuals)
      /\ Cardinality(Preceding(i)) # Cardinality(Individuals)
  BY <1>1, <1>2, FS_Subset
<1>4. Cardinality(Preceding(i)) \in Nat /\ Cardinality(Individuals) \in Nat
  BY <1>1, <1>3, FS_CardinalityType
<1>5. ASSUME NEW j \in Individuals, Before(i, j)
      PROVE  Cardinality(Preceding(i)) < Cardinality(Preceding(j))
  <2>1. Preceding(j) \subseteq Individuals /\ Preceding(i) \subseteq Preceding(j)
    BY <1>1, <1>5 DEF Preceding
  <2>2. i \in Preceding(j)
    BY <1>5 DEF Preceding
  <2>3. IsFiniteSet(Preceding(j)) /\ Cardinality(Preceding(j)) \in Nat
    BY <1>1, <2>1, FS_Subset, FS_CardinalityType
  <2>4. /\ Cardinality(Preceding(i)) <= Cardinality(Preceding(j))
        /\ Cardinality(Preceding(i)) # Cardinality(Preceding(j))
    BY <1>2, <2>1, <2>2, <2>3, FS_Subset
  <2> QED
    BY <1>4, <2>3, <2>4
<1> QED
  BY <1>3, <1>4, <1>5

\* The ranking has each row once, and its first is before all others.
LEMMA SortedIsRanking ==
  ASSUME NEW S, rows \in Seq(S), \A i \in DOMAIN rows : rows[i].value \in Int, Individuals # {}
  PROVE  \E place :
           /\ DOMAIN Sorted = DOMAIN place /\ 1 \in DOMAIN place
           /\ \A n \in DOMAIN place : place[n] \in Individuals /\ Sorted[n] = rows[place[n]]
           /\ \A m, n \in DOMAIN place : place[m] = place[n] => m = n
           /\ \A i \in Individuals : \E n \in DOMAIN place : place[n] = i
           /\ \A i \in Individuals : i # place[1] => Before(place[1], i)
<1> DEFINE size == Cardinality(Individuals)
           rank == [i \in Individuals |-> Cardinality(Preceding(i)) + 1]
           place == [n \in 1..size |->
                       CHOOSE i \in Individuals : Cardinality(Preceding(i)) = n - 1]
<1>1. /\ IsFiniteSet(Individuals)
      /\ \A i, j \in Individuals : i # j => Before(i, j) \/ Before(j, i)
  BY BeforeIsOrder
<1>2. size \in Nat
  BY <1>1, FS_CardinalityType
<1>3. \A i \in Individuals :
        /\ Cardinality(Preceding(i)) \in Nat /\ Cardinality(Preceding(i)) < size
        /\ \A j \in Individuals :
             Before(i, j) => Cardinality(Preceding(i)) < Cardinality(Preceding(j))
  BY FewerPreceding
<1>4. \A i, j \in Individuals : Cardinality(Preceding(i)) = Cardinality(Preceding(j)) => i = j
  BY <1>1, <1>3
<1> HIDE DEF size
<1>5. rank \in Injection(Individuals, 1..size)
  BY <1>2, <1>3, <1>4 DEF Injection, IsInjective
<1>6. IsFiniteSet(1..size) /\ Cardinality(1..size) = size
  <2>1. 1 \in Int /\ size \in Int
    BY <1>2
  <2>2. IsFiniteSet(1..size) /\ Cardinality(1..size) = IF 1 > size THEN 0 ELSE size - 1 + 1
    BY <2>1, FS_Interval, Zenon
  <2> QED
    BY <1>2, <2>2
<1>7. rank \in Surjection(Individuals, 1..size)
  BY <1>5, <1>6, <1>1, FS_Injection DEF size
<1>8. \A n \in 1..size : \E i \in Individuals : rank[i] = n
  BY <1>7 DEF Surjection
<1>9. \A n \in 1..size : \E i \in Individuals : Cardinality(Preceding(i)) = n - 1
  <2>1. \A i \in Individuals : rank[i] = Cardinality(Preceding(i)) + 1
    OBVIOUS
  <2> HIDE DEF rank
  <2> QED
    BY <1>3, <1>8, <2>1
<1>10. \A n \in 1..size : /\ place[n] \in Individuals
                          /\ Cardinality(Preceding(place[n])) = n - 1
  BY <1>9
<1>11. DOMAIN Sorted = 1..size /\ \A n \in 1..size : Sorted[n] = rows[place[n]]
  <2>1. Sorted = [n \in 1..size |->
                    rows[CHOOSE i \in Individuals : Cardinality(Preceding(i)) = n - 1]]
    BY Zenon DEF Sorted, Preceding, size
  <2> QED
    BY <2>1
<1>12. 1 \in 1..size
  <2>1. PICK i \in Individuals : TRUE
    OBVIOUS
  <2> QED
    BY <1>2, <1>3, <2>1
<1>13. \A m, n \in 1..size : place[m] = place[n] => m = n
  <2> TAKE m, n \in 1..size
  <2>1. m - 1 = n - 1 => m = n
    BY <1>2
  <2> QED
    BY <1>10, <2>1
<1>14. ASSUME NEW i \in Individuals PROVE \E n \in 1..size : place[n] = i
  <2>1. rank[i] \in 1..size /\ Cardinality(Preceding(i)) = rank[i] - 1
    BY <1>2, <1>3
  <2> QED
    BY <1>4, <1>10, <2>1
<1>15. ASSUME NEW i \in Individuals, i # place[1] PROVE Before(place[1], i)
  <2>1. place[1] \in Individuals /\ Cardinality(Preceding(place[1])) = 0
    BY <1>10, <1>12
  <2>2. ~Before(i, place[1])
    BY <1>3, <2>1
  <2> QED
    BY <1>1, <1>15, <2>1, <2>2
<1>16. DOMAIN place = 1..size
  OBVIOUS
<1> HIDE DEF place, rank
<1> WITNESS place
<1> QED
  BY <1>10, <1>11, <1>12, <1>13, <1>14, <1>15, <1>16

\* A set of places that is not empty has a first one.
LEMMA FirstPlace ==
  ASSUME NEW S \in SUBSET Nat, S # {}
  PROVE  \E i \in S : \A j \in S : i <= j
<1>1. \E i \in S : \A j \in S : <<j, i>> \notin OpToRel(<, Nat)
  BY NatLessThanWellFounded, WFMin
<1>2. PICK i \in S : \A j \in S : <<j, i>> \notin OpToRel(<, Nat)
  BY <1>1
<1>3. \A j \in S : ~(j < i)
  BY <1>2 DEF OpToRel
<1> QED
  BY <1>3

\* A function of a finite set has finitely many values: as many, if it is one-to-one.
LEMMA FinitelyMany ==
  ASSUME NEW S, IsFiniteSet(S), NEW f, NEW T, T = {f[x] : x \in S}
  PROVE  /\ IsFiniteSet(T)
         /\ (\A x, y \in S : f[x] = f[y] => x = y) => Cardinality(T) = Cardinality(S)
<1> DEFINE g == [x \in S |-> f[x]]
<1>1. g \in Surjection(S, T)
  BY DEF Surjection
<1>2. (\A x, y \in S : f[x] = f[y] => x = y) => g \in Injection(S, T)
  BY DEF Injection, IsInjective
<1> HIDE DEF g
<1> QED
  BY <1>1, <1>2, FS_Surjection

\* The state is the region of every chunk.
LEMMA StateIsRegion ==
  ASSUME request \in Requests, EvidenceInv, OneDocument(Document), NEW m \in DOMAIN Document,
         DOMAIN evidence # {}
  PROVE  State = Document[m].region
<1>1. IsList(Document) /\ DOMAIN evidence \subseteq DOMAIN Document
  BY DocumentAssumption DEF Document, EvidenceInv
<1>2. DOMAIN evidence \in SUBSET Nat
  BY <1>1 DEF IsList
<1> DEFINE first == CHOOSE i \in DOMAIN evidence : \A j \in DOMAIN evidence : i <= j
<1>3. first \in DOMAIN evidence
  BY <1>2, FirstPlace
<1>4. State = evidence[first].region
  BY Zenon DEF State
<1> HIDE DEF first
<1>5. first \in DOMAIN Document /\ evidence[first] = WithTitle(Document, Document[first])
  BY <1>3, ChunkAt
<1>6. evidence[first].region = Document[first].region
  BY <1>5, TitlesAddWords DEF Document
<1> QED
  BY <1>4, <1>5, <1>6 DEF OneDocument

\* A chunk of the document that is evidence, with what the ranking reads off it.
IsEvidence(m, id) ==
  /\ m \in DOMAIN Document /\ id \in Ids /\ Document[m].id = id
  /\ Chunk(id).lines = Document[m].lines /\ Chunk(id).region = Document[m].region
  /\ Chunk(id).table = Document[m].table /\ Chunk(id).contents = Document[m].contents
  /\ DataLines(Chunk(id)) = DataLines(Document[m])

\* Every ID of the evidence is that of a chunk of the document.
LEMMA EvidenceIsDocument ==
  ASSUME request \in Requests, EvidenceInv, NEW id \in Ids
  PROVE  \E m \in DOMAIN Document : IsEvidence(m, id)
<1>1. PICK m \in DOMAIN Document :
        Document[m].id = id /\ Chunk(id) = WithTitle(Document, Document[m])
  BY ChunkOfDocument
<1>2. /\ Chunk(id).lines = Document[m].lines /\ Chunk(id).region = Document[m].region
      /\ Chunk(id).table = Document[m].table /\ Chunk(id).contents = Document[m].contents
      /\ Chunk(id).means = Document[m].means /\ Chunk(id).width = Document[m].width
  BY <1>1, TitlesAddWords DEF Document
<1>3. DataLines(Chunk(id)) = DataLines(Document[m])
  BY <1>2, LinesTell
<1> QED
  BY <1>1, <1>2, <1>3 DEF IsEvidence

\* An entity is on a line of a chunk of the table that some row is of.
LEMMA EntityIsOnLine ==
  ASSUME NEW entity \in Entities
  PROVE  \E i \in DOMAIN rows, id \in Ids :
           /\ Chunk(id).table = Chunk(rows[i].id).table
           /\ \E n \in DataLines(Chunk(id)) : Chunk(id).lines[n].label = entity
           /\ entity # Chunk(id).region
<1> DEFINE tables == {Chunk(rows[i].id).table : i \in DOMAIN rows}
           LabelsIn(id) == {Chunk(id).lines[i].label : i \in DataLines(Chunk(id))}
                             \ {Chunk(id).region}
<1>1. Entities = UNION {LabelsIn(id) : id \in {x \in Ids : Chunk(x).table \in tables}}
  BY Zenon DEF Entities
<1>2. PICK id \in Ids : Chunk(id).table \in tables /\ entity \in LabelsIn(id)
  BY <1>1
<1> QED
  BY <1>2

\* A row shows the line of its label.
LEMMA RowIsOnLine ==
  ASSUME RowsInv, NEW i \in DOMAIN rows
  PROVE  /\ rows[i].id \in Ids
         /\ \E n \in DataLines(Chunk(rows[i].id)) :
              Chunk(rows[i].id).lines[n].label = rows[i].label
<1>1. Shows(rows[i])
  BY DEF RowsInv
<1>2. PICK row : row = rows[i]
  OBVIOUS
<1>3. row.id \in Ids /\ ShowsCell(row)
  BY <1>1, <1>2 DEF Shows
<1>4. \E n \in DataLines(Chunk(row.id)) : Chunk(row.id).lines[n].label = row.label
  BY <1>3 DEF ShowsCell, ShowingColumns
<1> QED
  BY <1>2, <1>3, <1>4

\* The rows of a selected column are of all entities of its table, each once.
LEMMA ColumnIsWhole ==
  ASSUME IInv, asked.rank, selection # <<>>, rows = TableRows, OneDocument(Document),
         WholeColumn(Document, request.records)
  PROVE  /\ \A i, j \in DOMAIN rows : rows[i].label = rows[j].label => i = j
         /\ \A entity \in Entities : \E i \in Individuals : rows[i].label = entity
<1>1. request \in Requests /\ RequirementInv /\ EvidenceInv /\ RowsInv
  BY DEF IInv
<1> DEFINE Line(i) == Document[request.records[i].chunk].lines[request.records[i].line]
<1>2. /\ DOMAIN rows = DOMAIN request.records
      /\ \A i \in DOMAIN rows : rows[i].label = Line(i).label
      /\ \A i \in DOMAIN rows : request.records[i].chunk \in DOMAIN Document
                               /\ rows[i].id = Document[request.records[i].chunk].id
  BY <1>1, SelectionParts DEF TableRows
<1>3. /\ \A i, j \in DOMAIN request.records : Line(i).label = Line(j).label => i = j
      /\ \A i \in DOMAIN request.records, j \in DOMAIN Document :
           Document[j].table = Document[request.records[i].chunk].table =>
             \A n \in DataLines(Document[j]) :
               \/ Document[j].lines[n].label = Document[j].region
               \/ \E m \in DOMAIN request.records : Line(m).label = Document[j].lines[n].label
  BY Zenon DEF WholeColumn
<1> HIDE DEF Line
<1>4. \A i, j \in DOMAIN rows : rows[i].label = rows[j].label => i = j
  BY <1>2, <1>3
<1>5. ASSUME NEW entity \in Entities PROVE \E i \in Individuals : rows[i].label = entity
  <2>1. PICK i \in DOMAIN rows, id \in Ids :
          /\ Chunk(id).table = Chunk(rows[i].id).table
          /\ \E n \in DataLines(Chunk(id)) : Chunk(id).lines[n].label = entity
          /\ entity # Chunk(id).region
    BY <1>5, EntityIsOnLine
  <2>2. PICK m \in DOMAIN Document : IsEvidence(m, id)
    BY <1>1, EvidenceIsDocument
  <2>3. rows[i].id \in Ids
    BY <1>1, RowIsOnLine
  <2>4. PICK p \in DOMAIN Document : IsEvidence(p, rows[i].id)
    BY <1>1, <2>3, EvidenceIsDocument
  <2>5. p = request.records[i].chunk
    <3>1. \A x, y \in DOMAIN Document : Document[x].id = Document[y].id => x = y
      BY <1>1, DocumentAssumption DEF Document
    <3> QED
      BY <1>2, <2>4, <3>1 DEF IsEvidence
  <2>6. Document[m].table = Document[request.records[i].chunk].table
    BY <2>1, <2>2, <2>4, <2>5 DEF IsEvidence
  <2>7. PICK n \in DataLines(Document[m]) : Document[m].lines[n].label = entity
    BY <2>1, <2>2 DEF IsEvidence
  <2>8. entity # Document[m].region
    BY <2>1, <2>2 DEF IsEvidence
  <2>9. PICK k \in DOMAIN request.records : Line(k).label = entity
    BY <1>2, <1>3, <2>6, <2>7, <2>8
  <2>10. DOMAIN evidence # {}
    BY <2>3 DEF Ids
  <2>11. State = Document[m].region
    BY <1>1, <2>10, StateIsRegion
  <2> QED
    BY <1>2, <2>8, <2>9, <2>11 DEF Individuals
<1> QED
  BY <1>4, <1>5

\* The labels of rows and of lines are finitely many.
LEMMA LabelsAreFinite ==
  ASSUME request \in Requests, EvidenceInv, NEW ids, ids \subseteq Ids
  PROVE  IsFiniteSet(EntityLabels(ids))
<1>1. IsList(Document) /\ DOMAIN evidence \subseteq DOMAIN Document
  BY DocumentAssumption DEF Document, EvidenceInv
<1>2. \A n \in Nat : IsFiniteSet(1..n)
  BY FS_Interval
<1>3. IsFiniteSet(DOMAIN evidence)
  BY <1>1, <1>2, FS_Subset DEF IsList
<1>4. IsFiniteSet(Ids)
  <2> DEFINE f == [i \in DOMAIN evidence |-> evidence[i].id]
  <2>1. Ids = {f[i] : i \in DOMAIN evidence}
    BY DEF Ids
  <2> HIDE DEF f
  <2> QED
    BY <1>3, <2>1, FinitelyMany
<1> DEFINE T == {x \in ids : ~Chunk(x).contents}
           LabelsIn(id) == {Chunk(id).lines[i].label : i \in DataLines(Chunk(id))}
                             \ {Chunk(id).region}
<1>5. IsFiniteSet(T) /\ T \subseteq Ids
  BY <1>4, FS_Subset
<1>6. ASSUME NEW id \in T PROVE IsFiniteSet(LabelsIn(id))
  <2>1. PICK m \in DOMAIN Document : IsEvidence(m, id)
    BY <1>5, EvidenceIsDocument
  <2>2. IsList(Document[m].lines)
    BY DocumentAssumption DEF Document
  <2>3. DataLines(Chunk(id)) \subseteq DOMAIN Document[m].lines
    BY <2>1 DEF IsEvidence, DataLines
  <2>4. IsFiniteSet(DataLines(Chunk(id)))
    BY <1>2, <2>2, <2>3, FS_Subset DEF IsList
  <2> DEFINE f == [i \in DataLines(Chunk(id)) |-> Chunk(id).lines[i].label]
             all == {Chunk(id).lines[i].label : i \in DataLines(Chunk(id))}
  <2>5. all = {f[i] : i \in DataLines(Chunk(id))}
    OBVIOUS
  <2>6. LabelsIn(id) \subseteq all
    OBVIOUS
  <2> HIDE DEF f, all, LabelsIn
  <2>7. IsFiniteSet(all)
    BY <2>4, <2>5, FinitelyMany
  <2> QED
    BY <2>6, <2>7, FS_Subset
<1> HIDE DEF T, LabelsIn
<1>7. IsFiniteSet({LabelsIn(id) : id \in T})
  <2> DEFINE f == [id \in T |-> LabelsIn(id)]
  <2>1. {LabelsIn(id) : id \in T} = {f[id] : id \in T}
    OBVIOUS
  <2> HIDE DEF f
  <2> QED
    BY <1>5, <2>1, FinitelyMany
<1>8. \A labels \in {LabelsIn(id) : id \in T} : IsFiniteSet(labels)
  BY <1>6
<1>9. EntityLabels(ids) = UNION {LabelsIn(id) : id \in T}
  BY Zenon DEF EntityLabels, LabelsIn, T
<1> QED
  BY <1>7, <1>8, <1>9, FS_UNION

\* A proposal with as many rows as the table has entities, and none of the state, has them all.
LEMMA ProposalIsWhole ==
  ASSUME IInv, asked.rank, selection = <<>>, asked.residences = {}, State \notin Labels(rows),
         OneDocument(Document), ~(Len(rows) < DetectedRows)
  PROVE  /\ \A i, j \in DOMAIN rows : rows[i].label = rows[j].label => i = j
         /\ \A entity \in Entities : \E i \in Individuals : rows[i].label = entity
<1>1. request \in Requests /\ EvidenceInv /\ RowsInv
  BY DEF IInv
<1>2. PICK S : rows \in Seq(S)
  BY <1>1 DEF RowsInv
<1>3. DOMAIN rows = 1..Len(rows) /\ Len(rows) \in Nat
  BY <1>2
<1>4. \A i \in DOMAIN rows : rows[i].residence = Said(asked.residence, "total")
                           /\ ~Chunk(rows[i].id).contents
  BY <1>1 DEF RowsInv, Proposes
<1>5. \A i, j \in DOMAIN rows : rows[i].label = rows[j].label => i = j
  BY <1>1, <1>4 DEF RowsInv, Dimension
<1>6. \A i \in DOMAIN rows : rows[i].label # State
  BY DEF Labels
<1> DEFINE all == EntityLabels(SameTable)
           Signature(chunk) == {chunk.lines[i] : i \in {1} \cap DOMAIN chunk.lines}
<1>7. SameTable = {id \in Ids : Signature(Chunk(id)) \in {Signature(Chunk(rows[i].id)) :
                                                             i \in DOMAIN rows}}
  BY Zenon DEF SameTable
<1>8. SameTable \subseteq Ids
  BY <1>7
<1>9. all = UNION {{Chunk(id).lines[i].label : i \in DataLines(Chunk(id))} \ {Chunk(id).region} :
                     id \in {x \in SameTable : ~Chunk(x).contents}}
  BY Zenon DEF EntityLabels
<1>10. ASSUME NEW id \in SameTable, ~Chunk(id).contents, NEW n \in DataLines(Chunk(id)),
              Chunk(id).lines[n].label # Chunk(id).region
       PROVE  Chunk(id).lines[n].label \in all
  BY <1>9, <1>10
<1>11. ASSUME NEW i \in DOMAIN rows PROVE rows[i].label \in all
  <2>1. rows[i].id \in Ids
    BY <1>1, RowIsOnLine
  <2>2. PICK n \in DataLines(Chunk(rows[i].id)) :
          Chunk(rows[i].id).lines[n].label = rows[i].label
    BY <1>1, RowIsOnLine
  <2>3. rows[i].id \in SameTable
    BY <1>7, <2>1
  <2>4. PICK m \in DOMAIN Document : IsEvidence(m, rows[i].id)
    BY <1>1, <2>1, EvidenceIsDocument
  <2>5. DOMAIN evidence # {}
    BY <2>1 DEF Ids
  <2>6. Chunk(rows[i].id).region = State
    BY <1>1, <2>4, <2>5, StateIsRegion DEF IsEvidence
  <2> HIDE DEF all
  <2> QED
    BY <1>4, <1>6, <1>10, <2>2, <2>3, <2>6
<1>12. IsFiniteSet(all)
  BY <1>1, <1>8, LabelsAreFinite
<1> HIDE DEF all
<1>13. Labels(rows) = all
  <2> DEFINE f == [i \in DOMAIN rows |-> rows[i].label]
  <2>1. Labels(rows) = {f[i] : i \in DOMAIN rows}
    BY DEF Labels
  <2>2. \A i, j \in DOMAIN rows : f[i] = f[j] => i = j
    BY <1>5
  <2> HIDE DEF f
  <2>3. IsFiniteSet(DOMAIN rows) /\ Cardinality(DOMAIN rows) = Len(rows)
    <3>1. 1 \in Int /\ Len(rows) \in Int
      BY <1>3
    <3>2. /\ IsFiniteSet(1..Len(rows))
          /\ Cardinality(1..Len(rows)) = IF 1 > Len(rows) THEN 0 ELSE Len(rows) - 1 + 1
      BY <3>1, FS_Interval, Zenon
    <3> QED
      BY <1>3, <3>2
  <2>4. Cardinality(Labels(rows)) = Len(rows)
    BY <2>1, <2>2, <2>3, FinitelyMany
  <2>5. Labels(rows) \subseteq all
    BY <1>11 DEF Labels
  <2>6. DetectedRows = Cardinality(all) /\ Cardinality(all) \in Nat
    BY <1>12, FS_CardinalityType DEF DetectedRows, all
  <2>7. Cardinality(Labels(rows)) <= Cardinality(all)
    BY <1>12, <2>5, FS_Subset
  <2>8. Cardinality(all) = Cardinality(Labels(rows))
    BY <1>3, <2>4, <2>6, <2>7
  <2> QED
    BY <1>12, <2>5, <2>8, FS_Subset
<1>14. ASSUME NEW entity \in Entities PROVE entity \in all
  <2>1. PICK i \in DOMAIN rows, id \in Ids :
          /\ Chunk(id).table = Chunk(rows[i].id).table
          /\ \E n \in DataLines(Chunk(id)) : Chunk(id).lines[n].label = entity
          /\ entity # Chunk(id).region
    BY <1>14, EntityIsOnLine
  <2>2. /\ rows[i].id \in Ids
        /\ \E n \in DataLines(Chunk(rows[i].id)) :
             Chunk(rows[i].id).lines[n].label = rows[i].label
    BY <1>1, RowIsOnLine
  <2>3. PICK m \in DOMAIN Document : IsEvidence(m, id)
    BY <1>1, EvidenceIsDocument
  <2>4. PICK p \in DOMAIN Document : IsEvidence(p, rows[i].id)
    BY <1>1, <2>2, EvidenceIsDocument
  <2>5. IsList(Document[m].lines) /\ IsList(Document[p].lines)
    BY <1>1, DocumentAssumption DEF Document
  <2>6. /\ Document[m].lines # <<>> /\ Document[p].lines # <<>>
        /\ 1 \in DOMAIN Document[m].lines /\ 1 \in DOMAIN Document[p].lines
    <3>1. DOMAIN Document[m].lines # {} /\ DOMAIN Document[p].lines # {}
      BY <2>1, <2>2, <2>3, <2>4 DEF IsEvidence, DataLines
    <3> QED
      BY <2>5, <3>1 DEF IsList
  <2>7. /\ Document[m].lines[1] = Document[p].lines[1]
        /\ Document[m].contents = Document[p].contents
    BY <2>1, <2>3, <2>4, <2>6 DEF OneDocument, IsEvidence
  <2>8. Signature(Chunk(id)) = Signature(Chunk(rows[i].id))
    <3>1. Chunk(id).lines = Document[m].lines /\ Chunk(rows[i].id).lines = Document[p].lines
      BY <2>3, <2>4 DEF IsEvidence
    <3> QED
      BY <2>6, <2>7, <3>1
  <2> HIDE DEF Signature
  <2>9. id \in SameTable
    BY <1>7, <2>8
  <2>10. ~Chunk(id).contents
    BY <1>4, <2>3, <2>4, <2>7 DEF IsEvidence
  <2> QED
    BY <1>10, <2>1, <2>9, <2>10
<1> QED
  BY <1>5, <1>6, <1>13, <1>14 DEF Labels, Individuals

\* count_table_entity_rows, prepare_artifact: a ranking is over every entity its table has, none
\* of them twice, and its winner beats them all.
THEOREM RankingsAreComplete == Spec => []RankingOfEntities
<1>1. ASSUME IInv PROVE RankingOfEntities
  <2>1. request \in Requests /\ RequirementInv /\ RowsInv /\ EndInv
    BY <1>1 DEF IInv
  <2>2. SUFFICES ASSUME phase = "done", asked.rank,
                        \/ selection # <<>>
                        \/ State \notin Labels(rows) /\ asked.residences = {}
        PROVE  RankingIsComplete
    BY Zenon DEF RankingOfEntities
  <2>3. /\ ~(Len(rows) < DetectedRows) /\ Individuals # {}
        /\ ranked = Sorted /\ winner = ranked[1]
        /\ selection # <<>> => rows = TableRows
    BY <2>1, <2>2 DEF EndInv
  <2>4. OneDocument(Document) /\ WholeColumn(Document, request.records)
    BY <2>1, <2>2, RankingIsGiven
  <2>5. /\ \A i, j \in DOMAIN rows : rows[i].label = rows[j].label => i = j
        /\ \A entity \in Entities : \E i \in Individuals : rows[i].label = entity
    <3>1. CASE selection # <<>>
      BY <1>1, <2>2, <2>3, <2>4, <3>1, ColumnIsWhole
    <3>2. CASE selection = <<>>
      BY <1>1, <2>2, <2>3, <2>4, <3>2, ProposalIsWhole
    <3> QED
      BY <3>1, <3>2
  <2>6. PICK S : rows \in Seq(S)
    BY <2>1 DEF RowsInv
  <2>7. \A i \in DOMAIN rows : rows[i].value \in Int
    BY <2>1 DEF RowsInv, Shows
  <2>8. PICK place :
          /\ DOMAIN Sorted = DOMAIN place /\ 1 \in DOMAIN place
          /\ \A n \in DOMAIN place : place[n] \in Individuals /\ Sorted[n] = rows[place[n]]
          /\ \A m, n \in DOMAIN place : place[m] = place[n] => m = n
          /\ \A i \in Individuals : \E n \in DOMAIN place : place[n] = i
          /\ \A i \in Individuals : i # place[1] => Before(place[1], i)
    BY <2>3, <2>6, <2>7, SortedIsRanking
  <2>9. Individuals \subseteq DOMAIN rows
    BY DEF Individuals
  <2>10. \A entity \in Entities : \E n \in DOMAIN ranked : ranked[n].label = entity
    <3> TAKE entity \in Entities
    <3>1. PICK i \in Individuals : rows[i].label = entity
      BY <2>5
    <3> QED
      BY <2>3, <2>8, <3>1
  <2>11. \A m, n \in DOMAIN ranked : m # n => ranked[m].label # ranked[n].label
    BY <2>3, <2>5, <2>8, <2>9
  <2>12. \A n \in DOMAIN ranked :
           IF asked.direction = "min" THEN winner.value <= ranked[n].value
           ELSE winner.value >= ranked[n].value
    <3> TAKE n \in DOMAIN ranked
    <3>1. winner = rows[place[1]] /\ ranked[n] = rows[place[n]]
      BY <2>3, <2>8
    <3>2. place[1] \in DOMAIN rows /\ place[n] \in DOMAIN rows /\ place[n] \in Individuals
      BY <2>3, <2>8, <2>9
    <3>3. rows[place[1]].value \in Int /\ rows[place[n]].value \in Int
      BY <2>7, <3>2
    <3>4. CASE place[n] = place[1]
      BY <3>1, <3>3, <3>4
    <3>5. CASE place[n] # place[1]
      <4>1. Before(place[1], place[n])
        BY <2>8, <3>2, <3>5
      <4> QED
        BY <3>1, <3>3, <4>1 DEF Before
    <3> QED
      BY <3>4, <3>5
  <2> QED
    BY <2>10, <2>11, <2>12 DEF RankingIsComplete
<1> QED
  BY AlwaysIInv, <1>1, PTL
=============================================================================
