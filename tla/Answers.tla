------------------------------ MODULE Answers ------------------------------
(***************************************************************************)
(* From retrieved evidence to a validated answer: the packing of chunks    *)
(* into the assessment budget, the calculations of the application, the    *)
(* draft of the model and the derived claims the application adds to it,   *)
(* and the validation that turns model-selected chunk IDs into citations.  *)
(* What the model judges, requests and drafts is arbitrary.                *)
(*                                                                         *)
(* A chunk is reduced to what the validation reads of it: its table rows   *)
(* over the columns of the document's table (own: the row of the region    *)
(* itself), which header words a quote of it shows, the sentences that     *)
(* state a value, the residences its title names, its size and rank.       *)
(***************************************************************************)
EXTENDS Integers, Sequences, FiniteSets, SequencesExt

CONSTANTS
  Columns,        \* the true year, residence and measure of each column of the tables
  Retrievals,     \* the evidence lists call_tools may collect
  TargetLists,    \* the required targets of the question; <<>>: not a comparison
  YearSets,       \* the years the question may name
  Requests,       \* the lists of calculations the model may ask for
  Drafts,         \* the lists of claims the model may draft
  MaxCharacters,  \* assessment_max_characters
  MaxChunks       \* assessment_max_chunks

CorpusDefaultYear == 2011
NoYear == 0
Unnamed == "none"     \* a region, a residence or a metric that is not given
NoDerivation == [operands |-> <<>>, result |-> 0, inputs |-> <<>>]

ASSUME BudgetAssumption == MaxCharacters \in Nat /\ MaxChunks \in Nat
\* pack_targeted_assessment_evidence keeps each chunk ID and each target once.
ASSUME RetrievalAssumption ==
  \A list \in Retrievals :
    /\ list \in Seq(Range(list))
    /\ \A i \in DOMAIN list : /\ list[i].size \in Nat /\ list[i].rank \in Int
                              /\ list[i].rows \in Seq(Range(list[i].rows))
    /\ \A i, j \in DOMAIN list : list[i].id = list[j].id => i = j
ASSUME TargetAssumption ==
  \A list \in TargetLists :
    /\ list \in Seq(Range(list))
    /\ \A i, j \in DOMAIN list : list[i] = list[j] => i = j
ASSUME RequestAssumption ==
  \A list \in Requests : /\ list \in Seq(Range(list))
                         /\ \A i \in DOMAIN list : list[i].operands \in Seq(Range(list[i].operands))
ASSUME DraftAssumption == \A drafted \in Drafts : drafted \in Seq(Range(drafted))

VARIABLES
  phase, evidence, targets, asked,       \* the question and what was retrieved for it
  included, used, position, turn, moved, \* the packing loops
  calculations, selected,                \* results of the tools and of the assessment
  draft, retries, verified,              \* the draft under validation
  claims, pruned, errors                 \* what the validation has built so far

question == <<evidence, targets, asked>>
packing == <<included, used, position, turn, moved>>
checking == <<claims, pruned, errors>>
vars == <<phase, question, packing, calculations, selected, draft, retries, verified, checking>>

-----------------------------------------------------------------------------
(* Order. *)

\* The elements of a set from the first to the last: Ahead[x] are those that come before x.
InOrder(S, Ahead) == [n \in 1..Cardinality(S) |-> CHOOSE x \in S : Cardinality(Ahead[x]) = n - 1]

\* The members of a sequence at some of its positions, in their order.
At(seq, positions) ==
  LET order == InOrder(positions, [i \in positions |-> {j \in positions : j < i}])
  IN  [n \in DOMAIN order |-> seq[order[n]]]

-----------------------------------------------------------------------------
(* Packing: one complete chunk for each target, then a fair fill. *)

\* The documents of a list in order of first appearance: the groups when there is no target.
DocumentsOf(list) ==
  LET leads == At(list, {i \in DOMAIN list : \A j \in 1..(i - 1) : list[j].region # list[i].region})
  IN  [n \in DOMAIN leads |-> leads[n].region]

\* The sort of a region's chunks is stable: of two with the same rank the earlier is better.
Better(list, i, j) == list[i].rank < list[j].rank \/ (list[i].rank = list[j].rank /\ i < j)

\* The positions in a list of a region's chunks, best first.
ChunksOf(list, region) ==
  LET found == {i \in DOMAIN list : list[i].region = region}
  IN  InOrder(found, [i \in found |-> {j \in found : Better(list, j, i)}])

Groups == IF targets = <<>> THEN DocumentsOf(evidence) ELSE targets
Group(g) == ChunksOf(evidence, Groups[g])

Fits(i) == used + evidence[i].size <= MaxCharacters

Include(i) ==
  /\ included' = Append(included, i)
  /\ used' = used + evidence[i].size

\* Slip: the fill alone decides, and a target whose chunk does not fit is passed over.
StartPackingUnreserved ==
  /\ phase = "pack"
  /\ phase' = "fill"
  /\ position' = [g \in DOMAIN Groups |-> 1]
  /\ turn' = 1
  /\ UNCHANGED <<question, included, used, moved, calculations, selected, draft, retries,
                 verified, checking>>

StartPacking ==
  /\ phase = "pack"
  /\ phase' = IF Len(targets) > MaxChunks THEN "refused"
              ELSE IF targets = <<>> THEN "fill" ELSE "reserve"
  /\ position' = [g \in DOMAIN Groups |-> IF targets = <<>> THEN 1 ELSE 2]
  /\ turn' = 1
  /\ UNCHANGED <<question, included, used, moved, calculations, selected, draft, retries,
                 verified, checking>>

Reserve ==
  /\ phase = "reserve" /\ turn <= Len(targets)
  /\ LET items == Group(turn)
     IN  \/ /\ items = <<>>
            /\ turn' = turn + 1
            /\ UNCHANGED <<phase, included, used>>
         \/ /\ items # <<>> /\ Fits(items[1])
            /\ Include(items[1])
            /\ turn' = turn + 1
            /\ UNCHANGED phase
         \/ /\ items # <<>> /\ ~Fits(items[1])    \* EvidenceBudgetInsufficient
            /\ phase' = "refused"
            /\ UNCHANGED <<turn, included, used>>
  /\ UNCHANGED <<question, position, moved, calculations, selected, draft, retries, verified,
                 checking>>

StartFilling ==
  /\ phase = "reserve" /\ turn > Len(targets)
  /\ phase' = "fill"
  /\ turn' = 1
  /\ UNCHANGED <<question, included, used, position, moved, calculations, selected, draft,
                 retries, verified, checking>>

\* One group's turn in a round: its next chunk, if it has one and it fits.
Fill ==
  /\ phase = "fill" /\ Len(included) < MaxChunks /\ turn <= Len(Groups)
  /\ LET items == Group(turn)
         next == position[turn]
         takes == next <= Len(items) /\ Fits(items[next])
     IN  /\ IF takes THEN Include(items[next]) ELSE UNCHANGED <<included, used>>
         /\ moved' = (moved \/ takes)
         /\ position' = [position EXCEPT ![turn] = next + 1]
  /\ turn' = turn + 1
  /\ UNCHANGED <<phase, question, calculations, selected, draft, retries, verified, checking>>

NextRound ==
  /\ phase = "fill" /\ Len(included) < MaxChunks /\ turn > Len(Groups)
  /\ moved
  /\ turn' = 1 /\ moved' = FALSE
  /\ UNCHANGED <<phase, question, included, used, position, calculations, selected, draft,
                 retries, verified, checking>>

PackingDone ==
  /\ phase = "fill"
  /\ Len(included) >= MaxChunks \/ (turn > Len(Groups) /\ ~moved)
  /\ phase' = "assess"
  /\ UNCHANGED <<question, packing, calculations, selected, draft, retries, verified, checking>>

-----------------------------------------------------------------------------
(* Calculations: the model copies the operands, the application does the rest. *)

Numbers(chunk) ==
  {chunk.rows[r].cells[c] : r \in DOMAIN chunk.rows, c \in DOMAIN Columns}
    \cup {s.value : s \in chunk.sentences}

\* Slip: the operands of a request are taken as they are.
ValidCalculationOfAnything(request) ==
  LET cited == {c \in Range(evidence) : c.id \in request.ids}
  IN  request.ids = {c.id : c \in cited} /\ Len(request.operands) = 2

ValidCalculation(request) ==
  LET cited == {c \in Range(evidence) : c.id \in request.ids}
  IN  /\ request.ids = {c.id : c \in cited} /\ Len(request.operands) = 2
      /\ Range(request.operands) \subseteq UNION {Numbers(c) : c \in cited}

Calculate ==
  /\ phase = "calculate"
  /\ \E requests \in (IF targets = <<>> THEN {<<>>} ELSE Requests) :
       calculations' =
         LET kept == At(requests, {i \in DOMAIN requests : ValidCalculation(requests[i])})
         IN  [i \in DOMAIN kept |->
               [operands |-> kept[i].operands, ids |-> kept[i].ids,
                result |-> kept[i].operands[1] - kept[i].operands[2]]]
  /\ phase' = "pack"
  /\ UNCHANGED <<question, packing, selected, draft, retries, verified, checking>>

\* The model's judgement: chunks it selects, chunks it finds to answer directly.
Assess ==
  /\ phase = "assess"
  /\ \/ \E chosen, direct \in SUBSET Range(evidence) :
          /\ direct # {}
          /\ \A g \in DOMAIN targets : \E c \in direct : c.region = targets[g]
          /\ selected' = IF chosen # {} THEN chosen ELSE direct
          /\ phase' = "synthesize"
     \/ phase' = "refused" /\ UNCHANGED selected
  /\ UNCHANGED <<question, packing, calculations, draft, retries, verified, checking>>

-----------------------------------------------------------------------------
(* The draft. *)

\* Fields the model left out, from the cited chunks and the question. A metric and a value
\* that the text of the claim names count as given.
Enriched(claim) ==
  LET regions == {c.region : c \in {s \in selected : s.id \in claim.ids}}
  IN  IF claim.derived THEN claim
      ELSE [claim EXCEPT
             !.region = IF @ = Unnamed /\ Cardinality(regions) = 1
                        THEN CHOOSE r \in regions : TRUE ELSE @,
             !.year = IF @ = NoYear /\ Cardinality(asked) = 1
                      THEN CHOOSE y \in asked : TRUE ELSE @]

Year(claim) == IF claim.year = NoYear THEN CorpusDefaultYear ELSE claim.year

\* The claims that state the operands of a calculation, or fewer than two of them.
Inputs(sources, calculation) ==
  LET Stating(v) == {n \in DOMAIN sources : /\ sources[n].value = v
                                            /\ sources[n].ids \cap calculation.ids # {}}
      left == At(sources, Stating(calculation.operands[1]))
      right == At(sources, {n \in Stating(calculation.operands[2]) : sources[n] # left[1]})
  IN  IF left = <<>> THEN <<>> ELSE IF right = <<>> THEN <<>> ELSE <<left[1], right[1]>>

DerivedClaim(i, inputs) ==
  LET calculation == calculations[i]
      left == inputs[1]
      overTime == /\ left.region # Unnamed /\ left.region = inputs[2].region
                  /\ Year(left) # Year(inputs[2])
  IN  [id |-> 100 + i, value |-> calculation.result, said |-> {}, region |-> Unnamed,
       year |-> IF overTime THEN NoYear ELSE left.year, scope |-> left.scope,
       metric |-> left.metric, ids |-> left.ids \cup inputs[2].ids, derived |-> TRUE,
       derivation |-> [operands |-> calculation.operands, result |-> calculation.result,
                       inputs |-> <<left.id, inputs[2].id>>]]

\* A comparison keeps none of the model's derived claims.
Sources(drafted) == At(drafted, {n \in DOMAIN drafted : ~drafted[n].derived})

WithDerived(drafted) ==
  LET sources == Sources(drafted)
      all == [i \in DOMAIN calculations |->
                LET inputs == Inputs(sources, calculations[i])
                IN  IF inputs = <<>> THEN <<>> ELSE <<DerivedClaim(i, inputs)>>]
      made == At(all, {i \in DOMAIN calculations : all[i] # <<>>})
  IN  sources \o [n \in DOMAIN made |-> made[n][1]]

Prepared(drafted) ==
  LET enriched == [i \in DOMAIN drafted |-> Enriched(drafted[i])]
  IN  IF targets = <<>> THEN enriched ELSE WithDerived(enriched)

\* The first draft, and the one repair: both go through the same preparation. The
\* table store either matches the documents of the evidence or it cannot be used.
Synthesize ==
  /\ phase = "synthesize"
  /\ \E drafted \in Drafts : draft' = Prepared(drafted)
  /\ verified' \in BOOLEAN
  /\ phase' = "validate"
  /\ UNCHANGED <<question, packing, calculations, selected, retries, checking>>

-----------------------------------------------------------------------------
(* Quotes: which part of a chunk supports a claim, if any. *)

ExpectedYears(claim) == IF claim.year # NoYear THEN {claim.year} ELSE claim.said

\* The header words of a table quote: which of its columns' years and residences show.
ShownYears(chunk) ==
  IF "years" \in chunk.prints THEN {Columns[c].year : c \in DOMAIN Columns} \ {NoYear} ELSE {}
ShownScopes(chunk) ==
  IF "scopes" \in chunk.prints THEN {Columns[c].scope : c \in DOMAIN Columns} ELSE {}

\* Whether a quote of the chunk prints a year above that column.
ShowsYear(chunk, c) == "years" \in chunk.prints /\ Columns[c].year # NoYear

\* A table quote ends with the first row that shows the value.
LastRow(claim, chunk) ==
  LET showing == {r \in DOMAIN chunk.rows : claim.value \in Range(chunk.rows[r].cells)}
  IN  IF showing = {} THEN 0 ELSE CHOOSE r \in showing : \A o \in showing : r <= o

TableCellSupports(claim, chunk, last) ==
  \E r \in 1..last, c \in DOMAIN Columns :
    /\ chunk.rows[r].cells[c] = claim.value
    /\ ShowsYear(chunk, c) => ExpectedYears(claim) \subseteq {Columns[c].year}
    /\ ShownScopes(chunk) # {} => claim.scope \in {Unnamed, Columns[c].scope}
    /\ (claim.region # Unnamed /\ \E o \in 1..last : chunk.rows[o].own) => chunk.rows[r].own

\* What every quote must show; the year may be implied or bound by the table store.
Supports(claim, chunk, years, scopes, confirmed) ==
  /\ \/ ExpectedYears(claim) \subseteq years
     \/ years = {} /\ ExpectedYears(claim) = {CorpusDefaultYear}
     \/ confirmed
  /\ claim.scope \in {Unnamed} \cup scopes \cup chunk.title
  /\ claim.region \in {Unnamed, chunk.region}

TableQuotes(claim, chunk, confirmed) ==
  LET last == LastRow(claim, chunk)
  IN  IF /\ last > 0
         /\ TableCellSupports(claim, chunk, last)
         /\ Supports(claim, chunk, ShownYears(chunk), ShownScopes(chunk), confirmed)
      THEN {[kind |-> "table", last |-> last]} ELSE {}

\* Slip: a sentence need not show the value it is quoted for.
SentenceQuotesAnyValue(claim, chunk) ==
  {[kind |-> "prose", sentence |-> s] : s \in
    {t \in chunk.sentences : Supports(claim, chunk, t.years, {}, FALSE)}}

SentenceQuotes(claim, chunk) ==
  {[kind |-> "prose", sentence |-> s] : s \in
    {t \in chunk.sentences : t.value = claim.value /\ Supports(claim, chunk, t.years, {}, FALSE)}}

\* The table span if it supports the claim, else the best sentence that does.
Quotes(claim, chunk, confirmed) ==
  LET table == TableQuotes(claim, chunk, confirmed)
  IN  IF table # {} THEN table ELSE SentenceQuotes(claim, chunk)

\* Slip: a claim without a year takes the year of whatever column holds its value.
HasAnyYear(claim, columns) ==
  ExpectedYears(claim) = {} \/ \E c \in columns : Columns[c].year \in ExpectedYears(claim)

\* A claim that names no year, or several, is of the report's own year.
HasWantedYear(claim, columns) ==
  LET wanted == IF claim.year # NoYear THEN claim.year
                ELSE IF Cardinality(claim.said) = 1 THEN CHOOSE y \in claim.said : TRUE
                ELSE CorpusDefaultYear
  IN  \E c \in columns : Columns[c].year = wanted

\* Which column of the region's own row holds the value of the claim's measure, as the table
\* store knows it.
TableYearVerdict(claim, chunk) ==
  LET holding == {c \in DOMAIN Columns :
                    \E r \in DOMAIN chunk.rows : chunk.rows[r].own /\ chunk.rows[r].cells[c] = claim.value}
      residence == IF claim.scope = Unnamed THEN "total" ELSE claim.scope
      matching == {c \in holding : Columns[c].scope = residence /\ Columns[c].metric = claim.metric}
  IN  IF Unnamed \in {claim.region, claim.metric} \/ ~verified \/ holding = {} THEN "unknown"
      ELSE IF matching = {} THEN "contradicted"
      ELSE IF \E c \in matching : Columns[c].year = NoYear THEN "unknown"
      ELSE IF claim.year # NoYear /\ claim.said \notin {{}, {claim.year}} THEN "contradicted"
      ELSE IF HasWantedYear(claim, matching) THEN "confirmed" ELSE "contradicted"

-----------------------------------------------------------------------------
(* Validation, one claim after the other. *)

IsDerived(claim) == claim.derived \/ claim.derivation # NoDerivation

\* The calculation with the claim's operands, or the first whose chunks it cites.
Matching(claim) ==
  LET same == At(calculations, {i \in DOMAIN calculations :
                                  claim.derivation.operands = calculations[i].operands})
      near == At(calculations, {i \in DOMAIN calculations :
                                  calculations[i].ids \subseteq claim.ids})
  IN  IF claim.derivation # NoDerivation /\ same # <<>> THEN {same[1]}
      ELSE IF near # <<>> THEN {near[1]} ELSE {}

KeepsCalculation(claim) ==
  \E k \in Matching(claim) :
    /\ claim.derivation # NoDerivation
    /\ claim.derivation.operands = k.operands
    /\ claim.derivation.result = k.result /\ claim.value = k.result

\* What a claim cites is kept by its ID, which the model chose: the last of that ID counts.
CitationsOf(id) ==
  LET named == At(claims, {i \in DOMAIN claims : claims[i].claim.id = id})
  IN  IF named = <<>> THEN {} ELSE named[Len(named)].citations

Codes(code, holds) == IF holds THEN {code} ELSE {}

DerivedErrors(claim) ==
  Codes("INVALID_DERIVATION", ~KeepsCalculation(claim))
    \cup Codes("CLAIM_WITHOUT_EVIDENCE", claim.ids = {})
    \cup Codes("DERIVED_MISSING_INPUT_CITATIONS",
               \E i \in Range(claim.derivation.inputs) : CitationsOf(i) = {})

CheckDerived(claim) ==
  /\ claims' = Append(claims, [claim |-> claim,
       citations |-> UNION {CitationsOf(i) : i \in Range(claim.derivation.inputs)}])
  /\ errors' = errors \cup DerivedErrors(claim)
  /\ UNCHANGED pruned

\* The citation of a chunk for a claim: the one made already for that claim ID, if any.
Citation(claim, c, quotes) ==
  LET known == {x \in UNION {claims[i].citations : i \in DOMAIN claims} :
                  x.claim = claim.id /\ x.chunk = c.id}
  IN  IF known # {} THEN CHOOSE x \in known : TRUE
      ELSE [claim |-> claim.id, chunk |-> c.id, quote |-> CHOOSE q \in quotes : TRUE]

\* A source claim: each chunk it names is unknown, unsound, of another subgroup, in
\* another year's column, without a quote, or cited with the quote that supports it.
CheckSource(claim) ==
  LET named == {c \in selected : c.id \in claim.ids}
      usable == {c \in named : c.sound}
      ofYear == {c \in usable : ~c.subgroup /\ TableYearVerdict(claim, c) # "contradicted"}
      QuotesOf(c) == Quotes(claim, c, TableYearVerdict(claim, c) = "confirmed")
      cited == {c \in ofYear : QuotesOf(c) # {}}
      unsupported == {c \in usable : c.subgroup} \cup (ofYear \ cited)
  IN  /\ claims' = Append(claims, [claim |-> claim,
           citations |-> {Citation(claim, c, QuotesOf(c)) : c \in cited}])
      /\ pruned' = pruned \cup (IF cited = {} THEN {} ELSE {<<claim.id, c.id>> : c \in unsupported})
      /\ errors' = errors
           \cup Codes("CLAIM_WITHOUT_EVIDENCE", claim.ids = {})
           \cup Codes("UNKNOWN_EVIDENCE_ID", claim.ids # {c.id : c \in named})
           \cup Codes("INVALID_PROVENANCE", named # usable)
           \cup Codes("CLAIM_QUOTE_NOT_FOUND", cited = {} /\ unsupported # {})
           \cup Codes("TABLE_YEAR_COLUMN_MISMATCH", \E c \in usable \ ofYear : ~c.subgroup)

ValidateClaim ==
  /\ phase = "validate" /\ Len(claims) < Len(draft)
  /\ LET claim == draft[Len(claims) + 1]
     IN  IF IsDerived(claim) THEN CheckDerived(claim) ELSE CheckSource(claim)
  /\ UNCHANGED <<phase, question, packing, calculations, selected, draft, retries, verified>>

\* Invariants of the whole answer: years, targets and the calculation it must show.
ResponseErrors ==
  LET sources == {claim \in Range(draft) : ~claim.derived}
      citedRegions == {c.region : c \in {s \in selected : \E claim \in Range(draft) : s.id \in claim.ids}}
      shows(k) == \E claim \in Range(draft) : k.ids \subseteq claim.ids \/ claim.derivation.operands = k.operands
  IN  Codes("MISSING_REQUESTED_YEAR", ~(asked \subseteq {Year(claim) : claim \in sources}))
      \cup Codes("EMPTY_CLAIMS_FOR_ANSWERABLE_TASK", draft = <<>>)
      \cup Codes("CLAIM_WITHOUT_EVIDENCE", \E i \in DOMAIN claims : claims[i].citations = {})
      \cup Codes("MISSING_COMPARISON_TARGET", ~(Range(targets) \subseteq citedRegions))
      \cup Codes("DERIVED_CLAIM_MISSING_INPUT_CITATIONS",
                 targets # <<>> /\ ~\E i \in DOMAIN calculations : shows(calculations[i]))

\* The assessment of support must name every source claim once: none may share its ID.
SourcesAreDistinct ==
  \A m, n \in DOMAIN draft :
    ~draft[m].derived /\ ~draft[n].derived /\ draft[m].id = draft[n].id => m = n

\* The model assesses support too; any error means one repair, then a refusal.
Decide ==
  /\ phase = "validate" /\ Len(claims) = Len(draft)
  /\ \/ /\ errors \cup ResponseErrors
             \cup Codes("INCOMPLETE_SUPPORT_ASSESSMENT", ~SourcesAreDistinct) = {}
        /\ phase' = "answered"
        /\ UNCHANGED <<draft, retries, verified, checking>>
     \/ /\ phase' = IF retries = 0 THEN "synthesize" ELSE "refused"
        /\ retries' = 1
        /\ draft' = <<>> /\ verified' = FALSE
        /\ claims' = <<>> /\ pruned' = {} /\ errors' = {}
  /\ UNCHANGED <<question, packing, calculations, selected>>

Init ==
  /\ phase = "calculate"
  /\ evidence \in Retrievals /\ targets \in TargetLists /\ asked \in YearSets
  /\ included = <<>> /\ used = 0 /\ position = <<>> /\ turn = 1 /\ moved = FALSE
  /\ calculations = <<>> /\ selected = {}
  /\ draft = <<>> /\ retries = 0 /\ verified = FALSE
  /\ claims = <<>> /\ pruned = {} /\ errors = {}

Next ==
  \/ Calculate \/ StartPacking \/ Reserve \/ StartFilling \/ Fill \/ NextRound \/ PackingDone
  \/ Assess \/ Synthesize \/ ValidateClaim \/ Decide

Spec == Init /\ [][Next]_vars

-----------------------------------------------------------------------------
(* Properties *)

\* The shape of the loops' state: groups are visited in turn, chunks by position.
TypeOK ==
  /\ phase \in {"calculate", "pack", "reserve", "fill", "assess", "synthesize", "validate",
                "answered", "refused"}
  /\ evidence \in Retrievals /\ targets \in TargetLists /\ asked \in YearSets
  /\ included \in Seq(DOMAIN evidence) /\ used \in Nat
  /\ turn \in Nat \ {0} /\ moved \in BOOLEAN
  /\ retries \in 0..1 /\ verified \in BOOLEAN

Packed == phase \in {"assess", "synthesize", "validate", "answered"}

\* What the model is given to assess stays within both limits.
BudgetKept == used <= MaxCharacters /\ Len(included) <= MaxChunks

\* No chunk is packed twice.
PackedOnce ==
  \A m, n \in DOMAIN included : evidence[included[m]].id = evidence[included[n]].id => m = n

\* The first chunk of every target's group, if it has any, is packed.
TargetsReserved ==
  Packed => \A g \in DOMAIN targets :
    Group(g) # <<>> => \E n \in DOMAIN included : included[n] = Group(g)[1]

\* A target is never silently omitted: the best chunk of every target that has evidence is there.
EveryTargetPacked ==
  Packed => \A t \in Range(targets) :
    (\E i \in DOMAIN evidence : evidence[i].region = t) =>
      \E n \in DOMAIN included :
        /\ evidence[included[n]].region = t
        /\ \A i \in DOMAIN evidence :
             evidence[i].region = t => evidence[included[n]].rank <= evidence[i].rank

\* evidence.py: the evidence the model judges fits the budget and leaves no side out.
PackingKeepsTargets == BudgetKept /\ PackedOnce /\ TargetsReserved /\ EveryTargetPacked

Validated == {claims[i] : i \in DOMAIN claims}
Answered == phase = "answered"
ChunkOf(citation) == CHOOSE c \in selected : c.id = citation.chunk

\* The numbers a reader sees in a quote.
QuotedNumbers(chunk, quote) ==
  IF quote.kind = "prose" THEN {quote.sentence.value}
  ELSE UNION {Range(chunk.rows[r].cells) : r \in 1..quote.last}

\* citations.py: every claim of an answer is cited; each citation of a source claim is a
\* chunk it names, selected in this turn, sound and of the whole population, whose quote shows
\* the value; a chunk was pruned only from a claim others support, after a repair too.
CitationsSupport ==
  Answered =>
    /\ \A v \in Validated :
         /\ v.citations # {}
         /\ ~IsDerived(v.claim) =>
              \A citation \in v.citations :
                /\ citation.chunk \in v.claim.ids
                /\ \E c \in selected : c.id = citation.chunk /\ c.sound /\ ~c.subgroup
                /\ v.claim.value \in QuotedNumbers(ChunkOf(citation), citation.quote)
    /\ \A p \in pruned : \E v \in Validated :
         /\ v.claim.id = p[1] /\ p[2] \in v.claim.ids
         /\ v.citations # {} /\ \A citation \in v.citations : citation.chunk # p[2]

\* The columns whose cell in the region's own row holds the value.
HoldingColumns(claim, chunk) ==
  {c \in DOMAIN Columns : \E r \in DOMAIN chunk.rows :
     chunk.rows[r].own /\ chunk.rows[r].cells[c] = claim.value}

ClaimedYears(claim) ==
  IF ExpectedYears(claim) = {} THEN {CorpusDefaultYear} ELSE ExpectedYears(claim)

\* With a usable store, a claim bound to a region and a metric that names at most one year:
\* its value is of a column of that measure, of its residence and of a year it may mean.
BoundByTheStore(claim, chunk) ==
  LET columns == HoldingColumns(claim, chunk)
  IN  /\ verified /\ Unnamed \notin {claim.region, claim.metric} /\ columns # {}
      /\ claim.year # NoYear \/ \A y, z \in claim.said : y = z
      => \E c \in columns :
           /\ Columns[c].year \in {NoYear} \cup ClaimedYears(claim)
           /\ Columns[c].scope = IF claim.scope = Unnamed THEN "total" ELSE claim.scope
           /\ Columns[c].metric = claim.metric

\* Whatever the store can tell: no quote shows the value only under other years.
BoundByTheQuote(claim, chunk, quote) ==
  quote.kind = "table" =>
    \E r \in 1..quote.last, c \in DOMAIN Columns :
      /\ chunk.rows[r].cells[c] = claim.value
      /\ ShowsYear(chunk, c) => ExpectedYears(claim) \subseteq {Columns[c].year}

\* years.py, quotes.py: the year of a cited cell is bound twice. The table store, if it is
\* usable and the claim is bound to a region and a metric, finds the value in a column of the
\* claim's own measure, residence and year; and whether or not the store can tell, the years a
\* quoted table prints are those of the claim, after a repair too.
YearIsColumn ==
  Answered => \A v \in Validated : ~IsDerived(v.claim) =>
    \A citation \in v.citations :
      /\ BoundByTheStore(v.claim, ChunkOf(citation))
      /\ BoundByTheQuote(v.claim, ChunkOf(citation), citation.quote)

\* A claim the application derives is named derived_comparison_N: the model's claims may be too.
DerivedIdsAreOwn ==
  \A m, n \in DOMAIN draft : draft[m].derived /\ draft[m].id = draft[n].id => m = n

\* calculations.py: a derived claim of an answer states the difference of two numbers of the
\* evidence and, unless its ID is taken, cites exactly what its inputs cite. In a comparison the
\* inputs of one the application made are source claims of the same answer that state its
\* operands, and a quote it cites shows each operand that such a claim takes from a chunk.
DerivedRestsOnInputs ==
  Answered => \A v \in Validated : IsDerived(v.claim) =>
    LET d == v.claim.derivation
        inputs == {w \in Validated : w.claim.id \in Range(d.inputs)}
    IN  /\ v.claim.value = d.operands[1] - d.operands[2]
        /\ \A o \in Range(d.operands) : \E c \in Range(evidence) : o \in Numbers(c)
        /\ DerivedIdsAreOwn =>
             /\ v.citations = UNION {w.citations : w \in inputs}
             /\ \A w \in inputs : w.citations # {}
             /\ targets # <<>> /\ v.claim.derived =>
                  /\ Range(d.operands) = {w.claim.value : w \in inputs}
                  /\ \A w \in inputs :
                       /\ ~w.claim.derived
                       /\ ~IsDerived(w.claim) =>
                            \E x \in v.citations : w.claim.value \in QuotedNumbers(ChunkOf(x), x.quote)

\* years.py:5: a value that the quoted table holds only in columns of other years never
\* passes as a value of the claimed year.
OtherYearNeverPasses ==
  Answered => \A v \in Validated : ~IsDerived(v.claim) =>
    \A citation \in v.citations : citation.quote.kind = "table" =>
      \E r \in 1..citation.quote.last, c \in DOMAIN Columns :
        /\ ChunkOf(citation).rows[r].cells[c] = v.claim.value
        /\ Columns[c].year \in ClaimedYears(v.claim)
=============================================================================
