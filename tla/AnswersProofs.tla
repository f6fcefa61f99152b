--------------------------- MODULE AnswersProofs ---------------------------
(***************************************************************************)
(* For every retrieval, every list of targets and every budget: what the   *)
(* model assesses fits the budget, holds no chunk twice and leaves out no  *)
(* target that has evidence. For every draft: what an answer that passes   *)
(* cites shows what it claims, in a column of the year and residence       *)
(* claimed, and its derived claims follow from their inputs.               *)
(***************************************************************************)
EXTENDS Answers, FiniteSetTheorems, TLAPS

Start == phase \in {"calculate", "pack"}

\* Nothing is packed before the packing starts, and one chunk at most for each target
\* that has had its turn while the reservations are made.
PackingInv ==
  /\ \E S : included \in Seq(S)
  /\ used <= MaxCharacters
  /\ Start => included = <<>> /\ used = 0
  /\ phase = "reserve" => /\ turn \in Nat \ {0}
                          /\ Len(included) < turn
                          /\ turn <= Len(targets) + 1
                          /\ Len(targets) <= MaxChunks
  /\ targets \in TargetLists
  /\ Len(included) <= MaxChunks

\* Init: nothing is packed yet.
LEMMA InitPacked == Init => PackingInv
<1> SUFFICES ASSUME Init PROVE PackingInv
  OBVIOUS
<1>1. included \in Seq({}) /\ Len(included) = 0
  BY DEF Init
<1> QED
  BY <1>1, BudgetAssumption DEF Init, PackingInv, Start

\* What one more chunk does to the bounds.
LEMMA IncludeOne ==
  ASSUME NEW S, included \in Seq(S), NEW i, Include(i), Fits(i)
  PROVE  /\ \E U : included' \in Seq(U)
         /\ Len(included') = Len(included) + 1
         /\ used' <= MaxCharacters
<1>1. included \in Seq(S \cup {i}) /\ i \in S \cup {i}
  OBVIOUS
<1>2. Append(included, i) \in Seq(S \cup {i}) /\ Len(Append(included, i)) = Len(included) + 1
  BY <1>1
<1>3. included' = Append(included, i) /\ used' = used + evidence[i].size
  BY DEF Include
<1> QED
  BY <1>2, <1>3 DEF Fits

\* No step packs more than fits, or more than one chunk for each turn of the reservations.
LEMMA PackingStep == PackingInv /\ [Next]_vars => PackingInv'
<1> SUFFICES ASSUME PackingInv, [Next]_vars PROVE PackingInv'
  OBVIOUS
<1>0. PICK S : included \in Seq(S)
  BY DEF PackingInv
<1> Len(included) \in Nat /\ MaxChunks \in Nat
  BY <1>0, BudgetAssumption
<1>1. CASE /\ UNCHANGED <<targets, included, used>>
           /\ phase' \notin {"reserve", "calculate"}
           /\ phase' = "pack" => phase = "calculate"
  BY <1>1 DEF PackingInv, Start
<1>2. CASE StartPacking
  <2>1. included = <<>> /\ used = 0 /\ Len(included) = 0
    BY <1>2 DEF StartPacking, PackingInv, Start
  <2>2. Len(targets) <= MaxChunks \/ phase' = "refused"
    <3>1. CASE Len(targets) > MaxChunks
      BY <3>1, <1>2 DEF StartPacking
    <3>2. CASE ~(Len(targets) > MaxChunks)
      BY <3>2, TargetAssumption DEF PackingInv
    <3> QED
      BY <3>1, <3>2
  <2>3. /\ turn' = 1 /\ UNCHANGED <<targets, included, used>>
        /\ phase' \in {"refused", "fill", "reserve"}
    BY <1>2 DEF StartPacking, question
  <2> QED
    BY <2>1, <2>2, <2>3, TargetAssumption DEF PackingInv, Start
<1>3. CASE Reserve
  <2> DEFINE items == Group(turn)
  <2>1. /\ phase = "reserve" /\ turn \in Nat \ {0} /\ turn <= Len(targets)
        /\ Len(included) < turn /\ Len(targets) <= MaxChunks
        /\ targets \in TargetLists /\ UNCHANGED targets
    BY <1>3 DEF Reserve, PackingInv, question
  <2>2. CASE items = <<>> /\ turn' = turn + 1 /\ UNCHANGED <<phase, included, used>>
    BY <2>1, <2>2, TargetAssumption DEF PackingInv, Start
  <2>3. CASE Fits(items[1]) /\ Include(items[1]) /\ turn' = turn + 1 /\ UNCHANGED phase
    <3>1. /\ \E U : included' \in Seq(U)
          /\ Len(included') = Len(included) + 1
          /\ used' <= MaxCharacters
      BY <1>0, <2>3, IncludeOne
    <3> QED
      BY <2>1, <2>3, <3>1, TargetAssumption DEF PackingInv, Start
  <2>4. CASE phase' = "refused" /\ UNCHANGED <<turn, included, used>>
    BY <2>1, <2>4, <1>1
  <2> QED
    BY <1>3, <2>2, <2>3, <2>4 DEF Reserve
<1>4. CASE Fill
  <2> DEFINE items == Group(turn)
             next == position[turn]
  <2>1. phase' = "fill" /\ UNCHANGED targets /\ Len(included) < MaxChunks
    BY <1>4 DEF Fill, question
  <2>2. CASE UNCHANGED <<included, used>>
    BY <1>1, <2>1, <2>2
  <2>3. CASE Fits(items[next]) /\ Include(items[next])
    <3>1. /\ \E U : included' \in Seq(U)
          /\ Len(included') = Len(included) + 1
          /\ used' <= MaxCharacters
      BY <1>0, <2>3, IncludeOne
    <3> QED
      BY <2>1, <3>1 DEF PackingInv, Start
  <2> QED
    BY <1>4, <2>2, <2>3 DEF Fill
<1>5. CASE UNCHANGED vars
  BY <1>5 DEF vars, question, packing, PackingInv, Start
<1>6. CASE Calculate
  BY <1>6, <1>1 DEF Calculate, question, packing
<1>7. CASE StartFilling \/ NextRound \/ PackingDone
  BY <1>7, <1>1 DEF StartFilling, NextRound, PackingDone, question, packing
<1>8. CASE Assess \/ Synthesize \/ ValidateClaim
  BY <1>8, <1>1 DEF Assess, Synthesize, ValidateClaim, question, packing
<1>9. CASE Decide
  BY <1>9, <1>1 DEF Decide, question, packing
<1> QED
  BY <1>2, <1>3, <1>4, <1>5, <1>6, <1>7, <1>8, <1>9 DEF Next

\* evidence.py: the chunks the model is given to assess never exceed the character budget
\* or the chunk limit, whatever was retrieved, asked and reserved.
THEOREM BudgetIsKept == Spec => []BudgetKept
<1>1. PackingInv => BudgetKept
  BY DEF PackingInv, BudgetKept
<1> QED
  BY InitPacked, PackingStep, <1>1, PTL DEF Spec

-----------------------------------------------------------------------------
(* The reservations. *)

Holds(i) == \E n \in DOMAIN included : included[n] = i

\* The best chunk of the group, if the group has any, is packed.
Served(g) == Group(g) # <<>> => Holds(Group(g)[1])

AfterReserve == {"fill", "assess", "synthesize", "validate", "answered"}

\* The groups that have had their turn are served, and all of them once the fill begins.
ReservedInv ==
  /\ phase = "reserve" => \A g \in DOMAIN targets : g < turn => Served(g)
  /\ phase \in AfterReserve => \A g \in DOMAIN targets : Served(g)

\* The groups depend on the question alone.
LEMMA GroupIsFixed ==
  ASSUME UNCHANGED question, NEW CONSTANT g
  PROVE  Group(g)' = Group(g)
<1>1. evidence' = evidence /\ targets' = targets
  BY DEF question
<1>2. Groups' = Groups
  BY <1>1 DEF Groups
<1> QED
  BY <1>1, <1>2 DEF Group

\* One more chunk takes none away.
LEMMA IncludeKeeps ==
  ASSUME NEW S, included \in Seq(S), NEW CONSTANT i, Include(i)
  PROVE  /\ Holds(i)'
         /\ \A j : Holds(j) => Holds(j)'
<1>1. included' = Append(included, i) /\ included \in Seq(S \cup {i})
  BY DEF Include
<1>2. /\ Len(included) \in Nat
      /\ DOMAIN included = 1..Len(included)
      /\ DOMAIN included' = 1..(Len(included) + 1)
      /\ included'[Len(included) + 1] = i
      /\ \A n \in 1..Len(included) : included'[n] = included[n]
  BY <1>1
<1> QED
  BY <1>2 DEF Holds

\* Init: no target has had its turn.
LEMMA InitReserved == Init => ReservedInv
BY DEF Init, ReservedInv, AfterReserve

\* A step that leaves the question and the packed chunks alone serves whom it served.
LEMMA ServedStays ==
  ASSUME UNCHANGED <<question, included>>, NEW CONSTANT g, Served(g)
  PROVE  Served(g)'
<1>1. Group(g)' = Group(g) /\ included' = included
  BY GroupIsFixed
<1> QED
  BY <1>1 DEF Served, Holds

\* Nor does one more chunk take from whom it served.
LEMMA ServedGrows ==
  ASSUME NEW S, included \in Seq(S), NEW CONSTANT i, Include(i), UNCHANGED question,
         NEW CONSTANT g, Served(g)
  PROVE  Served(g)'
<1>1. Group(g)' = Group(g)
  BY GroupIsFixed
<1>2. CASE Group(g) = <<>>
  BY <1>1, <1>2 DEF Served
<1>3. CASE Holds(Group(g)[1])
  <2>1. PICK j : j = Group(g)[1]
    OBVIOUS
  <2>2. Holds(j)'
    BY <1>3, <2>1, IncludeKeeps
  <2> QED
    BY <1>1, <2>1, <2>2 DEF Served, Holds
<1> QED
  BY <1>2, <1>3 DEF Served

\* Every target has its chunk when its turn is over, and keeps it.
LEMMA ReservedStep == PackingInv /\ ReservedInv /\ [Next]_vars => ReservedInv'
<1> SUFFICES ASSUME PackingInv, ReservedInv, [Next]_vars PROVE ReservedInv'
  OBVIOUS
<1>0. PICK S : included \in Seq(S)
  BY DEF PackingInv
<1>t. DOMAIN targets \subseteq 1..Len(targets) /\ Len(targets) \in Nat
  BY TargetAssumption DEF PackingInv
<1>1. CASE /\ UNCHANGED <<question, included>>
           /\ phase' \in AfterReserve => phase \in AfterReserve
           /\ phase' = "reserve" => phase = "reserve" /\ turn' = turn
  <2>1. ASSUME NEW CONSTANT g, Served(g) PROVE Served(g)'
    BY <1>1, <2>1, ServedStays
  <2>2. targets' = targets
    BY <1>1 DEF question
  <2> QED
    BY <1>1, <2>1, <2>2 DEF ReservedInv
<1>2. CASE StartPacking
  <2>1. turn' = 1 /\ targets' = targets
    BY <1>2 DEF StartPacking, question
  <2>2. phase' = "fill" => targets = <<>>
    BY <1>2 DEF StartPacking
  <2>3. phase' \in {"refused", "fill", "reserve"}
    BY <1>2 DEF StartPacking
  <2> QED
    BY <2>1, <2>2, <2>3, <1>t DEF ReservedInv, AfterReserve
<1>3. CASE Reserve
  <2>1. UNCHANGED question /\ targets' = targets /\ phase = "reserve" /\ turn \in Nat
    BY <1>3 DEF Reserve, question, PackingInv
  <2>2. CASE Group(turn) = <<>> /\ turn' = turn + 1 /\ UNCHANGED <<phase, included, used>>
    <3>1. Served(turn) /\ \A g \in DOMAIN targets : g < turn => Served(g)
      BY <2>1, <2>2 DEF Served, ReservedInv
    <3>2. \A g \in DOMAIN targets : g < turn + 1 => Served(g)
      BY <3>1, <2>1, <1>t
    <3>3. ASSUME NEW CONSTANT g, Served(g) PROVE Served(g)'
      BY <2>1, <2>2, <3>3, ServedStays
    <3> QED
      BY <2>1, <2>2, <3>2, <3>3 DEF ReservedInv, AfterReserve
  <2>3. CASE Include(Group(turn)[1]) /\ turn' = turn + 1 /\ UNCHANGED phase
    <3>1. PICK i, g0 : i = Group(turn)[1] /\ g0 = turn
      OBVIOUS
    <3>2. Include(i)
      BY <2>3, <3>1
    <3>3. ASSUME NEW CONSTANT g, Served(g) PROVE Served(g)'
      BY <1>0, <2>1, <3>2, <3>3, ServedGrows
    <3>4. Group(g0)' = Group(g0) /\ i = Group(g0)[1]
      BY <2>1, <3>1, GroupIsFixed
    <3>5. Holds(i)'
      BY <1>0, <3>2, IncludeKeeps
    <3>6. Served(g0)'
      BY <3>4, <3>5 DEF Served, Holds
    <3>7. \A g \in DOMAIN targets : g < turn + 1 => g < turn \/ g = g0
      BY <2>1, <3>1, <1>t
    <3> QED
      BY <2>1, <2>3, <3>3, <3>6, <3>7 DEF ReservedInv, AfterReserve
  <2>4. CASE phase' = "refused"
    BY <2>4 DEF ReservedInv, AfterReserve
  <2> QED
    BY <1>3, <2>2, <2>3, <2>4 DEF Reserve
<1>4. CASE StartFilling
  <2>1. phase = "reserve" /\ turn > Len(targets) /\ phase' = "fill"
        /\ UNCHANGED <<question, included>> /\ turn \in Nat
    BY <1>4 DEF StartFilling, PackingInv
  <2>2. \A g \in DOMAIN targets : Served(g)
    BY <2>1, <1>t DEF ReservedInv
  <2>3. ASSUME NEW CONSTANT g, Served(g) PROVE Served(g)'
    BY <2>1, <2>3, ServedStays
  <2>4. targets' = targets
    BY <2>1 DEF question
  <2> QED
    BY <2>1, <2>2, <2>3, <2>4 DEF ReservedInv, AfterReserve
<1>5. CASE Fill
  <2> DEFINE items == Group(turn)
             next == position[turn]
  <2>1. phase = "fill" /\ phase' = "fill" /\ UNCHANGED question /\ targets' = targets
    BY <1>5 DEF Fill, question
  <2>2. CASE UNCHANGED <<included, used>>
    BY <1>1, <2>1, <2>2
  <2>3. CASE Include(items[next])
    <3>1. PICK i : i = items[next]
      OBVIOUS
    <3>2. Include(i)
      BY <2>3, <3>1
    <3>3. ASSUME NEW CONSTANT g, Served(g) PROVE Served(g)'
      BY <1>0, <2>1, <3>2, <3>3, ServedGrows
    <3> QED
      BY <2>1, <3>3 DEF ReservedInv, AfterReserve
  <2> QED
    BY <1>5, <2>2, <2>3 DEF Fill
<1>6. CASE UNCHANGED vars
  BY <1>6, <1>1 DEF vars, packing
<1>7. CASE Calculate \/ NextRound \/ PackingDone
  BY <1>7, <1>1 DEF Calculate, NextRound, PackingDone, packing, AfterReserve
<1>8. CASE Assess \/ Synthesize \/ ValidateClaim \/ Decide
  BY <1>8, <1>1 DEF Assess, Synthesize, ValidateClaim, Decide, packing, AfterReserve
<1> QED
  BY <1>2, <1>3, <1>4, <1>5, <1>6, <1>7, <1>8 DEF Next

\* evidence.py: once the packing is done, the best chunk of every required target that has
\* evidence is among the chunks the model assesses, or the turn was refused.
THEOREM TargetsAreReserved == Spec => []TargetsReserved
<1>1. ReservedInv => TargetsReserved
  BY DEF ReservedInv, TargetsReserved, Packed, AfterReserve, Served, Holds
<1> QED
  BY InitPacked, PackingStep, InitReserved, ReservedStep, <1>1, PTL DEF Spec


-----------------------------------------------------------------------------
(* The order of the chunks and of the groups. *)

\* What InOrder needs of the elements that come before another: a finite strict total order.
IsOrder(S, Ahead) ==
  /\ IsFiniteSet(S)
  /\ Ahead \in [S -> SUBSET S]
  /\ \A x \in S : x \notin Ahead[x]
  /\ \A x, y \in S : x # y => x \in Ahead[y] \/ y \in Ahead[x]
  /\ \A x, y \in S : x \in Ahead[y] => Ahead[x] \subseteq Ahead[y]

\* An element has fewer before it than any that it precedes.
LEMMA FewerAhead ==
  ASSUME NEW S, NEW Ahead, IsOrder(S, Ahead), NEW x \in S, NEW y \in S, x \in Ahead[y]
  PROVE  Cardinality(Ahead[x]) \in Nat /\ Cardinality(Ahead[y]) \in Nat
         /\ Cardinality(Ahead[x]) < Cardinality(Ahead[y])
<1>1. Ahead[x] \in SUBSET S /\ Ahead[y] \in SUBSET S /\ IsFiniteSet(S)
  BY DEF IsOrder
<1>2. IsFiniteSet(Ahead[x]) /\ IsFiniteSet(Ahead[y])
  BY <1>1, FS_Subset
<1>3. Ahead[x] \in SUBSET Ahead[y] /\ Ahead[x] # Ahead[y]
  BY DEF IsOrder
<1>4. /\ Cardinality(Ahead[x]) <= Cardinality(Ahead[y])
      /\ Cardinality(Ahead[y]) # Cardinality(Ahead[x])
  BY <1>2, <1>3, FS_Subset
<1>5. Cardinality(Ahead[x]) \in Nat /\ Cardinality(Ahead[y]) \in Nat
  BY <1>2, FS_CardinalityType
<1> QED
  BY <1>4, <1>5

\* The sequence of a finite strict total order: each place holds one element, no element
\* holds two, and the first place is that of the element with nothing before it.
LEMMA OrderIsTotal ==
  ASSUME NEW S, NEW Ahead, IsOrder(S, Ahead)
  PROVE  /\ Cardinality(S) \in Nat
         /\ InOrder(S, Ahead) \in [1..Cardinality(S) -> S]
         /\ \A m, n \in 1..Cardinality(S) :
              InOrder(S, Ahead)[m] = InOrder(S, Ahead)[n] => m = n
         /\ \A x \in S : InOrder(S, Ahead)[1] \in {x} \cup Ahead[x]
         /\ S # {} => 1 \in 1..Cardinality(S)
<1> DEFINE size == Cardinality(S)
           place == [x \in S |-> Cardinality(Ahead[x]) + 1]
<1>1. IsFiniteSet(S) /\ size \in Nat
  BY FS_CardinalityType DEF IsOrder
<1>2. ASSUME NEW x \in S PROVE place[x] \in 1..size
  <2>1. Ahead[x] \in SUBSET S /\ x \notin Ahead[x]
    BY DEF IsOrder
  <2>2. IsFiniteSet(Ahead[x]) /\ Cardinality(Ahead[x]) <= size /\ Cardinality(Ahead[x]) # size
    BY <1>1, <2>1, FS_Subset
  <2>3. Cardinality(Ahead[x]) \in Nat
    BY <2>2, FS_CardinalityType
  <2> QED
    BY <1>1, <2>2, <2>3
<1>3. ASSUME NEW x \in S, NEW y \in S, place[x] = place[y] PROVE x = y
  <2>1. CASE x \in Ahead[y]
    BY <1>3, <2>1, FewerAhead
  <2>2. CASE y \in Ahead[x]
    BY <1>3, <2>2, FewerAhead
  <2> QED
    BY <2>1, <2>2 DEF IsOrder
<1>4. place \in Injection(S, 1..size)
  BY <1>2, <1>3 DEF Injection, IsInjective
<1>5. IsFiniteSet(1..size) /\ Cardinality(1..size) = size
  BY <1>1, FS_Interval
<1>6. place \in Surjection(S, 1..size)
  BY <1>4, <1>5, FS_Injection
<1>7. \A n \in 1..size : \E x \in S : place[x] = n
  BY <1>6 DEF Surjection
<1>8. \A n \in 1..size : \E x \in S : Cardinality(Ahead[x]) = n - 1
  <2>1. \A x \in S : Cardinality(Ahead[x]) \in Nat
    <3> TAKE x \in S
    <3>1. Ahead[x] \in SUBSET S
      BY DEF IsOrder
    <3>2. IsFiniteSet(Ahead[x])
      BY <1>1, <3>1, FS_Subset
    <3> QED
      BY <3>2, FS_CardinalityType
  <2> QED
    BY <1>7, <2>1
<1>9. /\ InOrder(S, Ahead) = [n \in 1..size |-> CHOOSE x \in S : Cardinality(Ahead[x]) = n - 1]
  BY DEF InOrder
<1>10. \A n \in 1..size : /\ InOrder(S, Ahead)[n] \in S
                          /\ Cardinality(Ahead[InOrder(S, Ahead)[n]]) = n - 1
  BY <1>8, <1>9
<1>11. \A m, n \in 1..size : InOrder(S, Ahead)[m] = InOrder(S, Ahead)[n] => m = n
  <2> TAKE m, n \in 1..size
  <2>1. m - 1 = n - 1 => m = n
    BY <1>1
  <2> QED
    BY <1>10, <2>1
<1>12. S # {} => 1 \in 1..size
  BY <1>1, <1>2
<1>13. ASSUME NEW x \in S PROVE InOrder(S, Ahead)[1] \in {x} \cup Ahead[x]
  <2>1. PICK first : first = InOrder(S, Ahead)[1]
    OBVIOUS
  <2>2. first \in S /\ Cardinality(Ahead[first]) = 0
    BY <1>10, <1>12, <2>1
  <2>3. CASE x \in Ahead[first]
    BY <2>2, <2>3, FewerAhead
  <2> QED
    BY <2>1, <2>2, <2>3 DEF IsOrder
<1> QED
  BY <1>1, <1>9, <1>10, <1>11, <1>12, <1>13

\* The positions of a region's chunks are in the order that Better gives them.
LEMMA ChunksAreOrdered ==
  ASSUME NEW list \in Retrievals, NEW region
  PROVE  LET found == {i \in DOMAIN list : list[i].region = region}
         IN  IsOrder(found, [i \in found |-> {j \in found : Better(list, j, i)}])
<1> DEFINE found == {i \in DOMAIN list : list[i].region = region}
           Ahead == [i \in found |-> {j \in found : Better(list, j, i)}]
<1>1. list \in Seq(Range(list)) /\ DOMAIN list = 1..Len(list) /\ Len(list) \in Nat
  BY RetrievalAssumption
<1>2. IsFiniteSet(found)
  <2>1. IsFiniteSet(1..Len(list)) /\ found \in SUBSET (1..Len(list))
    BY <1>1, FS_Interval
  <2> QED
    BY <2>1, FS_Subset
<1>3. \A i \in found : list[i].rank \in Int /\ i \in Int
  BY <1>1, RetrievalAssumption
<1>4. \A i \in found : i \notin Ahead[i]
  BY <1>3 DEF Better
<1>5. \A i, j \in found : i # j => i \in Ahead[j] \/ j \in Ahead[i]
  BY <1>3 DEF Better
<1>6. ASSUME NEW i \in found, NEW j \in found, i \in Ahead[j], NEW k \in Ahead[i]
      PROVE  k \in Ahead[j]
  <2>1. k \in found /\ Better(list, k, i) /\ Better(list, i, j)
    BY <1>6
  <2>2. Better(list, k, j)
    BY <1>3, <2>1 DEF Better
  <2> QED
    BY <2>1, <2>2
<1>7. Ahead \in [found -> SUBSET found]
  OBVIOUS
<1> HIDE DEF Ahead, found
<1>8. IsOrder(found, Ahead)
  BY <1>2, <1>4, <1>5, <1>6, <1>7 DEF IsOrder
<1> QED
  BY <1>8 DEF Ahead, found

\* A region's group: its chunks and no others, none of them twice, and the best one first.
LEMMA ChunksAreOwn ==
  ASSUME NEW list \in Retrievals, NEW region
  PROVE  LET items == ChunksOf(list, region)
         IN  /\ items \in Seq(DOMAIN list)
             /\ \A k \in DOMAIN items : list[items[k]].region = region
             /\ \A k, l \in DOMAIN items : items[k] = items[l] => k = l
             /\ \A i \in DOMAIN list : list[i].region = region =>
                  items # <<>> /\ 1 \in DOMAIN items /\ list[items[1]].rank <= list[i].rank
<1> DEFINE found == {i \in DOMAIN list : list[i].region = region}
           Ahead == [i \in found |-> {j \in found : Better(list, j, i)}]
           items == InOrder(found, Ahead)
<1>1. ChunksOf(list, region) = items
  BY DEF ChunksOf
<1>2. IsOrder(found, Ahead)
  BY ChunksAreOrdered
<1>3. \A i \in DOMAIN list : list[i].rank \in Int
  BY RetrievalAssumption
<1>4. \A i \in found : \A j \in Ahead[i] : list[j].rank <= list[i].rank
  BY <1>3 DEF Better
<1>5. /\ \A i \in found : i \in DOMAIN list /\ list[i].region = region
      /\ \A i \in DOMAIN list : list[i].region = region => i \in found
  OBVIOUS
<1> HIDE DEF Ahead, found
<1>6. /\ Cardinality(found) \in Nat
      /\ items \in [1..Cardinality(found) -> found]
      /\ \A m, n \in 1..Cardinality(found) : items[m] = items[n] => m = n
      /\ \A i \in found : items[1] \in {i} \cup Ahead[i]
      /\ found # {} => 1 \in 1..Cardinality(found)
  BY <1>2, OrderIsTotal
<1> HIDE DEF items
<1>7. items \in Seq(DOMAIN list) /\ DOMAIN items = 1..Cardinality(found)
  <2>1. items \in [1..Cardinality(found) -> DOMAIN list]
    BY <1>5, <1>6
  <2> QED
    BY <1>6, <2>1
<1>8. \A k \in DOMAIN items : list[items[k]].region = region
  BY <1>5, <1>6
<1>9. ASSUME NEW i \in DOMAIN list, list[i].region = region
      PROVE  items # <<>> /\ 1 \in DOMAIN items /\ list[items[1]].rank <= list[i].rank
  <2>1. i \in found /\ 1 \in DOMAIN items
    BY <1>5, <1>6, <1>9
  <2>2. items # <<>>
    BY <2>1
  <2>3. list[items[1]].rank <= list[i].rank
    BY <1>3, <1>4, <1>6, <1>9, <2>1
  <2> QED
    BY <2>1, <2>2, <2>3
<1> QED
  BY <1>1, <1>6, <1>7, <1>8, <1>9

\* The ways to go through some positions of a sequence, once each, that give its members there.
Orders(seq, P) ==
  {order \in [1..Cardinality(P) -> P] :
     /\ At(seq, P) = [n \in 1..Cardinality(P) |-> seq[order[n]]]
     /\ \A m, n \in 1..Cardinality(P) : order[m] = order[n] => m = n}

\* The members of a sequence at some of its positions: each from a position of its own.
LEMMA MembersAt ==
  ASSUME NEW seq, DOMAIN seq = 1..Len(seq), Len(seq) \in Nat, NEW P \in SUBSET DOMAIN seq
  PROVE  /\ Cardinality(P) \in Nat
         /\ Len(At(seq, P)) = Cardinality(P)
         /\ Orders(seq, P) # {}
         /\ P # {} => 1 \in 1..Cardinality(P)
         /\ P = {} => At(seq, P) = <<>>
<1> DEFINE Ahead == [i \in P |-> {j \in P : j < i}]
           order == InOrder(P, Ahead)
<1>1. IsFiniteSet(1..Len(seq)) /\ P \in SUBSET (1..Len(seq))
  BY FS_Interval
<1>2. IsFiniteSet(P)
  BY <1>1, FS_Subset
<1>3. IsOrder(P, Ahead)
  BY <1>1, <1>2 DEF IsOrder
<1>4. At(seq, P) = [n \in DOMAIN order |-> seq[order[n]]]
  BY DEF At
<1> HIDE DEF Ahead
<1>5. /\ Cardinality(P) \in Nat
      /\ order \in [1..Cardinality(P) -> P]
      /\ \A m, n \in 1..Cardinality(P) : order[m] = order[n] => m = n
      /\ P # {} => 1 \in 1..Cardinality(P)
  BY <1>3, OrderIsTotal
<1>6. P = {} => Cardinality(P) = 0
  BY FS_EmptySet
<1> HIDE DEF order
<1>7. At(seq, P) = [n \in 1..Cardinality(P) |-> seq[order[n]]]
  BY <1>4, <1>5
<1>8. At(seq, P) \in Seq(Range(seq))
  BY <1>1, <1>5, <1>7 DEF Range
<1>9. Len(At(seq, P)) = Cardinality(P)
  BY <1>5, <1>7, <1>8
<1>10. P = {} => At(seq, P) = <<>>
  BY <1>6, <1>8, <1>9
<1>11. order \in Orders(seq, P)
  BY <1>5, <1>7 DEF Orders
<1> QED
  BY <1>5, <1>9, <1>10, <1>11

\* No region is the group of two places, whether the groups are targets or documents.
LEMMA GroupsAreDistinct ==
  ASSUME targets \in TargetLists, evidence \in Retrievals
  PROVE  /\ Len(Groups) \in Nat
         /\ DOMAIN Groups = 1..Len(Groups)
         /\ \A g, h \in DOMAIN Groups : Groups[g] = Groups[h] => g = h
<1>1. CASE targets # <<>>
  BY <1>1, TargetAssumption DEF Groups
<1>2. CASE targets = <<>>
  <2> PICK list : list = evidence
    OBVIOUS
  <2> DEFINE P == {i \in DOMAIN list : \A j \in 1..(i - 1) : list[j].region # list[i].region}
             leads == At(list, P)
             size == Cardinality(P)
  <2>1. Groups = [n \in DOMAIN leads |-> leads[n].region]
    BY <1>2 DEF Groups, DocumentsOf
  <2>2. DOMAIN list = 1..Len(list) /\ Len(list) \in Nat
    BY RetrievalAssumption
  <2>3. ASSUME NEW i \in P, NEW j \in P, list[i].region = list[j].region PROVE i = j
    BY <2>2, <2>3
  <2>4. P \in SUBSET DOMAIN list
    OBVIOUS
  <2> HIDE DEF P
  <2>5. size \in Nat /\ Orders(list, P) # {}
    BY <2>2, <2>4, MembersAt
  <2>6. PICK order \in [1..size -> P] :
          /\ leads = [n \in 1..size |-> list[order[n]]]
          /\ \A m, n \in 1..size : order[m] = order[n] => m = n
    BY <2>5 DEF Orders
  <2>7. Groups = [n \in 1..size |-> list[order[n]].region]
    BY <2>1, <2>6
  <2>8. Groups \in Seq(Range(Groups)) /\ Len(Groups) = size
    BY <2>5, <2>7 DEF Range
  <2> QED
    BY <2>3, <2>5, <2>6, <2>7, <2>8
<1> QED
  BY <1>1, <1>2

\* A chunk has one place in the groups.
LEMMA PlacesAreDistinct ==
  ASSUME targets \in TargetLists, evidence \in Retrievals,
         NEW g \in DOMAIN Groups, NEW h \in DOMAIN Groups,
         NEW k \in DOMAIN Group(g), NEW l \in DOMAIN Group(h), Group(g)[k] = Group(h)[l]
  PROVE  g = h /\ k = l
<1>1. evidence[Group(g)[k]].region = Groups[g] /\ evidence[Group(h)[l]].region = Groups[h]
  BY ChunksAreOwn DEF Group
<1>2. g = h
  BY <1>1, GroupsAreDistinct
<1> QED
  BY <1>2, ChunksAreOwn DEF Group

-----------------------------------------------------------------------------
(* Nothing is packed twice. *)

\* A packed chunk has a place in a group that the group's position has passed. While the
\* targets are reserved it is the first place, in the group of a target that had its turn.
PlacedInv ==
  /\ evidence \in Retrievals /\ targets \in TargetLists
  /\ included \in Seq(DOMAIN evidence)
  /\ \A m, n \in DOMAIN included : included[m] = included[n] => m = n
  /\ phase \in {"reserve", "fill"} =>
       /\ position \in [DOMAIN Groups -> Nat \ {0}]
       /\ turn \in Nat \ {0}
       /\ \A n \in DOMAIN included : \E g \in DOMAIN Groups : \E k \in DOMAIN Group(g) :
            /\ included[n] = Group(g)[k] /\ k < position[g]
            /\ phase = "reserve" => k = 1 /\ g < turn
  /\ phase = "reserve" => targets # <<>> /\ \A g \in DOMAIN Groups : position[g] = 2

\* Init: no chunk has a place yet.
LEMMA InitPlaced == Init => PlacedInv
BY DEF Init, PlacedInv

\* What is packed depends on the question, which no later step changes.
LEMMA GroupsAreFixed ==
  ASSUME UNCHANGED question
  PROVE  /\ evidence' = evidence /\ targets' = targets /\ Groups' = Groups
         /\ \A g : Group(g)' = Group(g)
<1>1. evidence' = evidence /\ targets' = targets
  BY DEF question
<1>2. Groups' = Groups
  BY <1>1 DEF Groups
<1> QED
  BY <1>1, <1>2 DEF Group

\* One more chunk, that was not packed before.
LEMMA IncludeAnother ==
  ASSUME evidence \in Retrievals, included \in Seq(DOMAIN evidence),
         \A m, n \in DOMAIN included : included[m] = included[n] => m = n,
         NEW i \in DOMAIN evidence, Include(i), \A n \in DOMAIN included : included[n] # i,
         evidence' = evidence
  PROVE  /\ included' \in Seq(DOMAIN evidence')
         /\ \A m, n \in DOMAIN included' : included'[m] = included'[n] => m = n
         /\ \A n \in DOMAIN included' :
              included'[n] = i \/ (n \in DOMAIN included /\ included'[n] = included[n])
<1>1. included' = Append(included, i)
  BY DEF Include
<1>2. /\ Len(included) \in Nat
      /\ DOMAIN included = 1..Len(included)
      /\ DOMAIN included' = 1..(Len(included) + 1)
      /\ included'[Len(included) + 1] = i
      /\ \A n \in 1..Len(included) : included'[n] = included[n]
  BY <1>1
<1>3. \A n \in DOMAIN included' : n = Len(included) + 1 \/ n \in DOMAIN included
  BY <1>2
<1>4. included' \in Seq(DOMAIN evidence')
  BY <1>1
<1> QED
  BY <1>2, <1>3, <1>4

\* Every packed chunk comes from its own place of the groups, before the next to look at.
LEMMA PlacedStep == PackingInv /\ PlacedInv /\ [Next]_vars => PlacedInv'
<1> SUFFICES ASSUME PackingInv, PlacedInv, [Next]_vars PROVE PlacedInv'
  OBVIOUS
<1>g. /\ Len(Groups) \in Nat
      /\ DOMAIN Groups = 1..Len(Groups)
  BY GroupsAreDistinct DEF PlacedInv
<1>p. \A g \in DOMAIN Groups, h \in DOMAIN Groups :
        \A k \in DOMAIN Group(g), l \in DOMAIN Group(h) :
          Group(g)[k] = Group(h)[l] => g = h /\ k = l
  BY PlacesAreDistinct DEF PlacedInv
<1>d. \A g \in DOMAIN Groups : /\ Group(g) \in Seq(DOMAIN evidence)
                               /\ DOMAIN Group(g) = 1..Len(Group(g))
  BY ChunksAreOwn DEF Group, PlacedInv
<1>1. CASE UNCHANGED question /\ UNCHANGED included /\ phase' \notin {"reserve", "fill"}
  <2>1. evidence' = evidence /\ targets' = targets
    BY <1>1, GroupsAreFixed
  <2> QED
    BY <1>1, <2>1 DEF PlacedInv
<1>2. CASE StartPacking
  <2>1. evidence' = evidence /\ targets' = targets /\ Groups' = Groups
    BY <1>2, GroupsAreFixed DEF StartPacking
  <2>2. included = <<>> /\ included' = <<>> /\ turn' = 1
    BY <1>2 DEF StartPacking, PackingInv, Start
  <2>3. /\ position' = [g \in DOMAIN Groups |-> IF targets = <<>> THEN 1 ELSE 2]
        /\ phase' = "reserve" => targets # <<>>
    BY <1>2 DEF StartPacking
  <2> QED
    BY <2>1, <2>2, <2>3 DEF PlacedInv
<1>3. CASE Reserve
  <2>1. /\ phase = "reserve" /\ turn \in Nat \ {0} /\ turn <= Len(targets)
        /\ targets # <<>> /\ position' = position /\ UNCHANGED question
    BY <1>3 DEF Reserve, PlacedInv
  <2>2. /\ evidence' = evidence /\ targets' = targets /\ Groups' = Groups
        /\ \A g : Group(g)' = Group(g)
    BY <2>1, GroupsAreFixed
  <2>3. turn \in DOMAIN Groups
    BY <1>g, <2>1 DEF Groups
  <2>4. CASE turn' = turn + 1 /\ UNCHANGED <<phase, included, used>>
    <3>1. ASSUME NEW n \in DOMAIN included
          PROVE  \E g \in DOMAIN Groups : \E k \in DOMAIN Group(g) :
                   included[n] = Group(g)[k] /\ k < position[g] /\ k = 1 /\ g < turn'
      <4>1. PICK g \in DOMAIN Groups : \E k \in DOMAIN Group(g) :
                   included[n] = Group(g)[k] /\ k < position[g] /\ k = 1 /\ g < turn
        BY <2>1 DEF PlacedInv
      <4>2. g < turn'
        BY <1>g, <2>1, <2>4, <4>1
      <4> QED
        BY <4>1, <4>2
    <3> QED
      BY <2>1, <2>2, <2>4, <3>1 DEF PlacedInv
  <2>5. CASE Group(turn) # <<>> /\ Include(Group(turn)[1]) /\ turn' = turn + 1 /\ UNCHANGED phase
    <3>1. PICK g0, i : g0 = turn /\ i = Group(turn)[1]
      OBVIOUS
    <3>2. 1 \in DOMAIN Group(g0) /\ i = Group(g0)[1] /\ i \in DOMAIN evidence
      BY <1>d, <2>3, <2>5, <3>1
    <3>3. ASSUME NEW n \in DOMAIN included PROVE included[n] # i
      <4>1. PICK g \in DOMAIN Groups : \E k \in DOMAIN Group(g) :
                   included[n] = Group(g)[k] /\ g < turn
        BY <2>1 DEF PlacedInv
      <4> QED
        BY <1>g, <1>p, <2>1, <2>3, <3>1, <3>2, <4>1
    <3>4. /\ included' \in Seq(DOMAIN evidence')
          /\ \A m, n \in DOMAIN included' : included'[m] = included'[n] => m = n
          /\ \A n \in DOMAIN included' :
               included'[n] = i \/ (n \in DOMAIN included /\ included'[n] = included[n])
      BY <2>2, <2>5, <3>1, <3>2, <3>3, IncludeAnother DEF PlacedInv
    <3>5. position[g0] = 2 /\ g0 < turn'
      BY <2>1, <2>3, <2>5, <3>1 DEF PlacedInv
    <3>6. ASSUME NEW n \in DOMAIN included'
          PROVE  \E g \in DOMAIN Groups : \E k \in DOMAIN Group(g) :
                   included'[n] = Group(g)[k] /\ k < position[g] /\ k = 1 /\ g < turn'
      <4>1. CASE included'[n] = i
        BY <2>3, <3>1, <3>2, <3>5, <4>1
      <4>2. CASE n \in DOMAIN included /\ included'[n] = included[n]
        <5>1. PICK g \in DOMAIN Groups : \E k \in DOMAIN Group(g) :
                     included[n] = Group(g)[k] /\ k < position[g] /\ k = 1 /\ g < turn
          BY <2>1, <4>2 DEF PlacedInv
        <5>2. g < turn'
          BY <1>g, <2>1, <2>5, <5>1
        <5> QED
          BY <4>2, <5>1, <5>2
      <4> QED
        BY <3>4, <4>1, <4>2
    <3> QED
      BY <2>1, <2>2, <2>5, <3>4, <3>6 DEF PlacedInv
  <2>6. CASE phase' = "refused" /\ UNCHANGED <<turn, included, used>>
    BY <1>1, <2>1, <2>6
  <2> QED
    BY <1>3, <2>4, <2>5, <2>6 DEF Reserve
<1>4. CASE StartFilling
  <2>1. phase = "reserve" /\ phase' = "fill" /\ turn' = 1 /\ UNCHANGED <<included, position>>
    BY <1>4 DEF StartFilling
  <2>2. /\ evidence' = evidence /\ targets' = targets /\ Groups' = Groups
        /\ \A g : Group(g)' = Group(g)
    BY <1>4, GroupsAreFixed DEF StartFilling
  <2> QED
    BY <2>1, <2>2 DEF PlacedInv
<1>5. CASE Fill
  <2> DEFINE next == position[turn]
  <2>1. /\ phase = "fill" /\ phase' = "fill" /\ turn \in Nat \ {0} /\ turn' = turn + 1
        /\ position' = [position EXCEPT ![turn] = next + 1] /\ turn <= Len(Groups)
    BY <1>5 DEF Fill, PlacedInv
  <2>2. /\ evidence' = evidence /\ targets' = targets /\ Groups' = Groups
        /\ \A g : Group(g)' = Group(g)
    BY <1>5, GroupsAreFixed DEF Fill
  <2>3. turn \in DOMAIN Groups /\ position \in [DOMAIN Groups -> Nat \ {0}]
    BY <1>g, <2>1 DEF PlacedInv
  <2>4. /\ position' \in [DOMAIN Groups -> Nat \ {0}] /\ position'[turn] = next + 1
        /\ \A g \in DOMAIN Groups : position[g] <= position'[g]
    BY <2>1, <2>3
  <2>5. ASSUME NEW n \in DOMAIN included
        PROVE  \E g \in DOMAIN Groups : \E k \in DOMAIN Group(g) :
                 included[n] = Group(g)[k] /\ k < position'[g]
    <3>1. PICK g \in DOMAIN Groups : \E k \in DOMAIN Group(g) :
                 included[n] = Group(g)[k] /\ k < position[g]
      BY <2>1 DEF PlacedInv
    <3>2. DOMAIN Group(g) \subseteq Int
      BY <1>d
    <3> QED
      BY <2>3, <2>4, <3>1, <3>2
  <2>6. CASE UNCHANGED <<included, used>>
    BY <2>1, <2>2, <2>4, <2>5, <2>6 DEF PlacedInv
  <2>7. CASE next <= Len(Group(turn)) /\ Include(Group(turn)[next])
    <3>1. PICK g0, k0, i : g0 = turn /\ k0 = next /\ i = Group(turn)[next]
      OBVIOUS
    <3>2. k0 \in DOMAIN Group(g0) /\ i = Group(g0)[k0] /\ i \in DOMAIN evidence
      BY <1>d, <2>3, <2>7, <3>1
    <3>3. ASSUME NEW n \in DOMAIN included PROVE included[n] # i
      <4>1. PICK g \in DOMAIN Groups : \E k \in DOMAIN Group(g) :
                   included[n] = Group(g)[k] /\ k < position[g]
        BY <2>1 DEF PlacedInv
      <4>2. PICK k \in DOMAIN Group(g) : included[n] = Group(g)[k] /\ k < position[g]
        BY <4>1
      <4>3. g = g0 /\ k = k0 => FALSE
        BY <2>3, <3>1, <4>2
      <4> QED
        BY <1>p, <2>3, <3>1, <3>2, <4>2, <4>3
    <3>4. /\ included' \in Seq(DOMAIN evidence')
          /\ \A m, n \in DOMAIN included' : included'[m] = included'[n] => m = n
          /\ \A n \in DOMAIN included' :
               included'[n] = i \/ (n \in DOMAIN included /\ included'[n] = included[n])
      BY <2>2, <2>7, <3>1, <3>2, <3>3, IncludeAnother DEF PlacedInv
    <3>5. k0 < position'[g0] /\ g0 \in DOMAIN Groups
      BY <2>3, <2>4, <3>1
    <3>6. \A n \in DOMAIN included' : \E g \in DOMAIN Groups : \E k \in DOMAIN Group(g) :
            included'[n] = Group(g)[k] /\ k < position'[g]
      BY <2>5, <3>2, <3>4, <3>5
    <3> QED
      BY <2>1, <2>2, <2>4, <3>4, <3>6 DEF PlacedInv
  <2> QED
    BY <1>5, <2>6, <2>7 DEF Fill
<1>6. CASE NextRound
  <2>1. phase = "fill" /\ phase' = "fill" /\ turn' = 1 /\ UNCHANGED <<included, position>>
    BY <1>6 DEF NextRound
  <2>2. /\ evidence' = evidence /\ targets' = targets /\ Groups' = Groups
        /\ \A g : Group(g)' = Group(g)
    BY <1>6, GroupsAreFixed DEF NextRound
  <2> QED
    BY <2>1, <2>2 DEF PlacedInv
<1>7. CASE UNCHANGED vars
  <2>1. UNCHANGED <<phase, included, position, turn>>
    BY <1>7 DEF vars, packing
  <2>2. /\ evidence' = evidence /\ targets' = targets /\ Groups' = Groups
        /\ \A g : Group(g)' = Group(g)
    BY <1>7, GroupsAreFixed DEF vars
  <2> QED
    BY <2>1, <2>2 DEF PlacedInv
<1>8. CASE Calculate \/ PackingDone
  BY <1>8, <1>1 DEF Calculate, PackingDone, packing
<1>9. CASE Assess \/ Synthesize \/ ValidateClaim \/ Decide
  <2>1. phase \notin {"reserve", "fill"} /\ phase' \notin {"reserve", "fill"}
    BY <1>9 DEF Assess, Synthesize, ValidateClaim, Decide
  <2> QED
    BY <1>9, <2>1, <1>1 DEF Assess, Synthesize, ValidateClaim, Decide, packing
<1> QED
  BY <1>2, <1>3, <1>4, <1>5, <1>6, <1>7, <1>8, <1>9 DEF Next

\* Once the targets are served, the best chunk of each that has any is packed.
LEMMA ServedIsBest ==
  ASSUME PlacedInv, NEW g \in DOMAIN targets, Served(g),
         NEW i \in DOMAIN evidence, evidence[i].region = targets[g]
  PROVE  \E n \in DOMAIN included :
           /\ evidence[included[n]].region = targets[g]
           /\ \A j \in DOMAIN evidence : evidence[j].region = targets[g] =>
                evidence[included[n]].rank <= evidence[j].rank
<1>1. Group(g) = ChunksOf(evidence, targets[g]) /\ evidence \in Retrievals
  BY TargetAssumption DEF Group, Groups, PlacedInv
<1>2. /\ Group(g) # <<>> /\ 1 \in DOMAIN Group(g)
      /\ evidence[Group(g)[1]].region = targets[g]
      /\ \A j \in DOMAIN evidence : evidence[j].region = targets[g] =>
           evidence[Group(g)[1]].rank <= evidence[j].rank
  BY <1>1, ChunksAreOwn
<1>3. PICK n \in DOMAIN included : included[n] = Group(g)[1]
  BY <1>2 DEF Served, Holds
<1> QED
  BY <1>2, <1>3

\* evidence.py: whatever was retrieved and asked, what the model judges fits the budget,
\* holds no chunk twice, and holds the best chunk of every target that has evidence.
THEOREM PackingIsFair == Spec => []PackingKeepsTargets
<1>1. PackingInv => BudgetKept
  BY DEF PackingInv, BudgetKept
<1>2. ReservedInv => TargetsReserved
  BY DEF ReservedInv, TargetsReserved, Packed, AfterReserve, Served, Holds
<1>3. PlacedInv => PackedOnce
  <2> SUFFICES ASSUME PlacedInv, NEW m \in DOMAIN included, NEW n \in DOMAIN included,
                      evidence[included[m]].id = evidence[included[n]].id
               PROVE  m = n
    BY DEF PackedOnce
  <2>1. included[m] \in DOMAIN evidence /\ included[n] \in DOMAIN evidence
    BY DEF PlacedInv
  <2>2. included[m] = included[n]
    BY <2>1, RetrievalAssumption DEF PlacedInv
  <2> QED
    BY <2>2 DEF PlacedInv
<1>4. PlacedInv /\ ReservedInv => EveryTargetPacked
  <2> SUFFICES ASSUME PlacedInv, ReservedInv, Packed, NEW t \in Range(targets),
                      NEW i \in DOMAIN evidence, evidence[i].region = t
               PROVE  \E n \in DOMAIN included :
                        /\ evidence[included[n]].region = t
                        /\ \A j \in DOMAIN evidence :
                             evidence[j].region = t =>
                               evidence[included[n]].rank <= evidence[j].rank
    BY DEF EveryTargetPacked
  <2>1. PICK g \in DOMAIN targets : targets[g] = t
    BY DEF Range
  <2>2. Served(g)
    BY DEF ReservedInv, Packed, AfterReserve
  <2> QED
    BY <2>1, <2>2, ServedIsBest
<1> QED
  BY InitPacked, PackingStep, InitReserved, ReservedStep, InitPlaced, PlacedStep,
     <1>1, <1>2, <1>3, <1>4, PTL DEF Spec, PackingKeepsTargets

-----------------------------------------------------------------------------
(* Quotes show the value they are quoted for. *)

\* The row a table quote ends with is the first of the chunk that shows the value.
LEMMA LastRowShows ==
  ASSUME NEW claim, NEW chunk, chunk.rows \in Seq(Range(chunk.rows)), LastRow(claim, chunk) > 0
  PROVE  /\ LastRow(claim, chunk) \in 1..Len(chunk.rows)
         /\ claim.value \in Range(chunk.rows[LastRow(claim, chunk)].cells)
<1> DEFINE rows == chunk.rows
           showing == {r \in DOMAIN rows : claim.value \in Range(rows[r].cells)}
           Ahead == [r \in showing |-> {o \in showing : o < r}]
<1>1. DOMAIN rows = 1..Len(rows) /\ Len(rows) \in Nat
  OBVIOUS
<1>2. IsFiniteSet(1..Len(rows)) /\ showing \in SUBSET (1..Len(rows))
  BY <1>1, FS_Interval
<1>3. IsFiniteSet(showing)
  BY <1>2, FS_Subset
<1>4. IsOrder(showing, Ahead)
  BY <1>2, <1>3 DEF IsOrder
<1>5. /\ LastRow(claim, chunk) = IF showing = {} THEN 0
                                 ELSE CHOOSE r \in showing : \A o \in showing : r <= o
  BY DEF LastRow
<1>6. showing # {}
  BY <1>5
<1>7. \E r \in showing : \A o \in showing : r <= o
  <2> DEFINE order == InOrder(showing, Ahead)
  <2>0. \A o \in showing : Ahead[o] = {x \in showing : x < o}
    OBVIOUS
  <2> HIDE DEF Ahead
  <2>1. /\ order \in [1..Cardinality(showing) -> showing]
        /\ \A x \in showing : order[1] \in {x} \cup Ahead[x]
        /\ 1 \in 1..Cardinality(showing)
    BY <1>4, <1>6, OrderIsTotal
  <2> HIDE DEF order
  <2>2. order[1] \in showing /\ \A o \in showing : order[1] <= o
    <3>1. order[1] \in showing
      BY <2>1
    <3>2. ASSUME NEW o \in showing PROVE order[1] <= o
      <4>1. o \in Int /\ order[1] \in Int
        BY <1>2, <3>1
      <4>2. order[1] = o \/ order[1] < o
        BY <2>0, <2>1
      <4> QED
        BY <4>1, <4>2
    <3> QED
      BY <3>1, <3>2
  <2> QED
    BY <2>2
<1>8. LastRow(claim, chunk) \in showing
  BY <1>5, <1>6, <1>7
<1> QED
  BY <1>1, <1>8

\* Whatever else is asked of a quote, it shows the claim's value, and under its years.
LEMMA QuotesShow ==
  ASSUME NEW claim, NEW chunk, chunk.rows \in Seq(Range(chunk.rows)), NEW confirmed,
         NEW q \in Quotes(claim, chunk, confirmed)
  PROVE  /\ claim.value \in QuotedNumbers(chunk, q)
         /\ BoundByTheQuote(claim, chunk, q)
<1>1. CASE q \in TableQuotes(claim, chunk, confirmed)
  <2>1. LastRow(claim, chunk) > 0 /\ q = [kind |-> "table", last |-> LastRow(claim, chunk)]
    BY <1>1 DEF TableQuotes
  <2>2. /\ LastRow(claim, chunk) \in 1..Len(chunk.rows)
        /\ claim.value \in Range(chunk.rows[LastRow(claim, chunk)].cells)
    BY <2>1, LastRowShows
  <2>3. PICK last : last = LastRow(claim, chunk)
    OBVIOUS
  <2>4. q.kind = "table" /\ q.last = last /\ last \in 1..q.last
    BY <2>1, <2>2, <2>3
  <2>5. QuotedNumbers(chunk, q) = UNION {Range(chunk.rows[r].cells) : r \in 1..q.last}
    BY <2>4 DEF QuotedNumbers
  <2>6. claim.value \in QuotedNumbers(chunk, q)
    BY <2>2, <2>3, <2>4, <2>5
  <2>7. TableCellSupports(claim, chunk, last)
    BY <1>1, <2>3 DEF TableQuotes
  <2>8. BoundByTheQuote(claim, chunk, q)
    BY <2>4, <2>7 DEF BoundByTheQuote, TableCellSupports
  <2> QED
    BY <2>6, <2>8
<1>2. CASE q \in SentenceQuotes(claim, chunk)
  <2>1. PICK s \in chunk.sentences : s.value = claim.value /\ q = [kind |-> "prose", sentence |-> s]
    BY <1>2 DEF SentenceQuotes
  <2> QED
    BY <2>1 DEF QuotedNumbers, BoundByTheQuote
<1> QED
  BY <1>1, <1>2 DEF Quotes

\* Two chunks of a retrieval with one ID are one chunk.
LEMMA ChunksDiffer ==
  ASSUME evidence \in Retrievals, selected \subseteq Range(evidence),
         NEW c \in selected, NEW d \in selected, c.id = d.id
  PROVE  c = d
<1>1. PICK i \in DOMAIN evidence : evidence[i] = c
  BY DEF Range
<1>2. PICK j \in DOMAIN evidence : evidence[j] = d
  BY DEF Range
<1> QED
  BY <1>1, <1>2, RetrievalAssumption

-----------------------------------------------------------------------------
(* The draft of a comparison. *)

IsSequence(seq) == DOMAIN seq = 1..Len(seq) /\ Len(seq) \in Nat

\* What the application derives has two inputs among the claims, which state its operands.
LEMMA InputsState ==
  ASSUME NEW sources, IsSequence(sources), NEW calculation,
         Inputs(sources, calculation) # <<>>
  PROVE  \E l, r \in DOMAIN sources :
           /\ Inputs(sources, calculation) = <<sources[l], sources[r]>>
           /\ sources[l].value = calculation.operands[1]
           /\ sources[r].value = calculation.operands[2]
<1> DEFINE Stating(v) == {n \in DOMAIN sources : /\ sources[n].value = v
                                                 /\ sources[n].ids \cap calculation.ids # {}}
           L == Stating(calculation.operands[1])
           left == At(sources, L)
           R == {n \in Stating(calculation.operands[2]) : sources[n] # left[1]}
           right == At(sources, R)
<1>1. /\ left # <<>> /\ right # <<>>
      /\ Inputs(sources, calculation) = <<left[1], right[1]>>
  BY DEF Inputs
<1>2. \A l \in L : l \in DOMAIN sources /\ sources[l].value = calculation.operands[1]
  OBVIOUS
<1>3. \A r \in R : r \in DOMAIN sources /\ sources[r].value = calculation.operands[2]
  OBVIOUS
<1> HIDE DEF L, R
<1>4. \E l \in L : left[1] = sources[l]
  <2>1. L \in SUBSET DOMAIN sources
    BY <1>2
  <2>2. /\ Orders(sources, L) # {}
        /\ L # {} => 1 \in 1..Cardinality(L)
        /\ L = {} => left = <<>>
    BY <2>1, MembersAt DEF IsSequence
  <2>3. PICK order \in [1..Cardinality(L) -> L] :
          left = [n \in 1..Cardinality(L) |-> sources[order[n]]]
    BY <2>2 DEF Orders
  <2> QED
    BY <1>1, <2>2, <2>3
<1>5. \E r \in R : right[1] = sources[r]
  <2>1. R \in SUBSET DOMAIN sources
    BY <1>3
  <2>2. /\ Orders(sources, R) # {}
        /\ R # {} => 1 \in 1..Cardinality(R)
        /\ R = {} => right = <<>>
    BY <2>1, MembersAt DEF IsSequence
  <2>3. PICK order \in [1..Cardinality(R) -> R] :
          right = [n \in 1..Cardinality(R) |-> sources[order[n]]]
    BY <2>2 DEF Orders
  <2> QED
    BY <1>1, <2>2, <2>3
<1> QED
  BY <1>1, <1>2, <1>3, <1>4, <1>5

\* A number that some chunk retrieved in the turn shows.
IsRetrieved(number) == \E c \in Range(evidence) : number \in Numbers(c)

\* The calculations are differences of two numbers of the evidence.
CalculationsInv ==
  /\ IsSequence(calculations)
  /\ \A i \in DOMAIN calculations :
       LET k == calculations[i]
       IN  /\ k.operands = <<k.operands[1], k.operands[2]>>
           /\ k.result = k.operands[1] - k.operands[2]
           /\ IsRetrieved(k.operands[1]) /\ IsRetrieved(k.operands[2])

\* No two claims of a draft have one ID.
ClaimsAreDistinct == \A m, n \in DOMAIN draft : draft[m].id = draft[n].id => m = n

\* A derived claim of a prepared draft rests on two claims of the draft that are not.
RestsOnClaims(claim, drafted) ==
  \E l, r \in DOMAIN drafted :
    /\ ~drafted[l].derived /\ ~drafted[r].derived
    /\ claim.derivation.inputs = <<drafted[l].id, drafted[r].id>>
    /\ claim.derivation.operands = <<drafted[l].value, drafted[r].value>>

\* The derived claims the application adds to a draft of a comparison follow from claims in it.
LEMMA PreparedRests ==
  ASSUME CalculationsInv, NEW drafted \in Drafts
  PROVE  /\ IsSequence(Prepared(drafted))
         /\ targets # <<>> => \A n \in DOMAIN Prepared(drafted) :
              Prepared(drafted)[n].derived => RestsOnClaims(Prepared(drafted)[n], Prepared(drafted))
<1> DEFINE enriched == [i \in DOMAIN drafted |-> Enriched(drafted[i])]
<1>1. DOMAIN enriched = DOMAIN drafted /\ IsSequence(drafted)
  BY DraftAssumption DEF IsSequence
<1>2. enriched \in Seq(Range(enriched)) /\ IsSequence(enriched)
  <2>1. enriched \in [1..Len(drafted) -> Range(enriched)]
    BY <1>1 DEF IsSequence, Range
  <2> QED
    BY <1>1, <2>1 DEF IsSequence
<1>3. CASE targets = <<>>
  BY <1>2, <1>3 DEF Prepared
<1>4. CASE targets # <<>>
  <2> HIDE DEF enriched
  <2> DEFINE sources == Sources(enriched)
             all == [i \in DOMAIN calculations |->
                       LET inputs == Inputs(sources, calculations[i])
                       IN  IF inputs = <<>> THEN <<>> ELSE <<DerivedClaim(i, inputs)>>]
             P == {i \in DOMAIN calculations : all[i] # <<>>}
             made == At(all, P)
             added == [n \in DOMAIN made |-> made[n][1]]
  <2>1. Prepared(drafted) = sources \o added
    BY <1>4 DEF Prepared, WithDerived, enriched
  <2>2. /\ IsSequence(sources) /\ sources \in Seq(Range(sources))
        /\ \A n \in DOMAIN sources : ~sources[n].derived
    <3> DEFINE Q == {n \in DOMAIN enriched : ~enriched[n].derived}
    <3>1. sources = At(enriched, Q)
      BY DEF Sources
    <3>2. \A n \in Q : n \in DOMAIN enriched /\ ~enriched[n].derived
      OBVIOUS
    <3> HIDE DEF Q
    <3>3. Q \in SUBSET DOMAIN enriched
      BY <3>2
    <3>4. Cardinality(Q) \in Nat /\ Orders(enriched, Q) # {}
      BY <1>2, <3>3, MembersAt DEF IsSequence
    <3>5. PICK order \in [1..Cardinality(Q) -> Q] :
            sources = [n \in 1..Cardinality(Q) |-> enriched[order[n]]]
      BY <3>1, <3>4 DEF Orders
    <3>6. sources \in [1..Cardinality(Q) -> Range(sources)]
      BY <3>5 DEF Range
    <3>7. sources \in Seq(Range(sources))
      BY <3>4, <3>6
    <3>8. IsSequence(sources)
      BY <3>7 DEF IsSequence
    <3> QED
      BY <3>2, <3>5, <3>7, <3>8
  <2> HIDE DEF sources
  <2>3. \A i \in P : /\ i \in DOMAIN calculations /\ Inputs(sources, calculations[i]) # <<>>
                     /\ all[i] = <<DerivedClaim(i, Inputs(sources, calculations[i]))>>
    OBVIOUS
  <2>4. IsSequence(all)
    <3>1. all \in [1..Len(calculations) -> Range(all)]
      BY DEF CalculationsInv, IsSequence, Range
    <3>2. Len(calculations) \in Nat /\ DOMAIN all = 1..Len(calculations)
      BY DEF CalculationsInv, IsSequence
    <3> HIDE DEF all
    <3>3. all \in Seq(Range(all))
      BY <3>1, <3>2
    <3> QED
      BY <3>3 DEF IsSequence
  <2>5. P \in SUBSET DOMAIN all
    OBVIOUS
  <2> HIDE DEF all, P
  <2>6. Cardinality(P) \in Nat /\ Orders(all, P) # {}
    BY <2>4, <2>5, MembersAt DEF IsSequence
  <2>7. PICK order \in [1..Cardinality(P) -> P] : made = [n \in 1..Cardinality(P) |-> all[order[n]]]
    BY <2>6 DEF Orders
  <2> HIDE DEF made
  <2>8. /\ DOMAIN added = 1..Cardinality(P)
        /\ \A n \in DOMAIN added : \E i \in P :
             added[n] = DerivedClaim(i, Inputs(sources, calculations[i]))
    BY <2>3, <2>7
  <2>9. added \in Seq(Range(added))
    <3>1. added \in [1..Cardinality(P) -> Range(added)]
      BY <2>8 DEF Range
    <3> QED
      BY <2>6, <3>1
  <2> HIDE DEF added
  <2>10. /\ sources \o added \in Seq(Range(sources) \cup Range(added))
         /\ \A n \in DOMAIN sources : n \in DOMAIN (sources \o added)
                                      /\ (sources \o added)[n] = sources[n]
         /\ \A n \in DOMAIN (sources \o added) :
              n \in DOMAIN sources \/ \E k \in DOMAIN added : (sources \o added)[n] = added[k]
    <3>1. /\ sources \in Seq(Range(sources) \cup Range(added))
          /\ added \in Seq(Range(sources) \cup Range(added))
      BY <2>2, <2>9
    <3> QED
      BY <3>1
  <2>11. ASSUME NEW i \in P
         PROVE  LET claim == DerivedClaim(i, Inputs(sources, calculations[i]))
                IN  RestsOnClaims(claim, sources \o added)
    <3>1. PICK l, r \in DOMAIN sources :
            /\ Inputs(sources, calculations[i]) = <<sources[l], sources[r]>>
            /\ sources[l].value = calculations[i].operands[1]
            /\ sources[r].value = calculations[i].operands[2]
      BY <2>2, <2>3, InputsState
    <3>2. calculations[i].operands = <<sources[l].value, sources[r].value>>
      BY <2>3, <3>1 DEF CalculationsInv
    <3>3. /\ DerivedClaim(i, Inputs(sources, calculations[i])).derivation.inputs
               = <<sources[l].id, sources[r].id>>
          /\ DerivedClaim(i, Inputs(sources, calculations[i])).derivation.operands
               = calculations[i].operands
      BY <3>1 DEF DerivedClaim
    <3>4. PICK claim : claim = DerivedClaim(i, Inputs(sources, calculations[i]))
      OBVIOUS
    <3>5. /\ claim.derivation.inputs = <<sources[l].id, sources[r].id>>
          /\ claim.derivation.operands = <<sources[l].value, sources[r].value>>
      BY <3>2, <3>3, <3>4
    <3>6. /\ l \in DOMAIN (sources \o added) /\ (sources \o added)[l] = sources[l]
          /\ r \in DOMAIN (sources \o added) /\ (sources \o added)[r] = sources[r]
          /\ ~sources[l].derived /\ ~sources[r].derived
      BY <2>2, <2>10
    <3>7. RestsOnClaims(claim, sources \o added)
      BY <3>5, <3>6 DEF RestsOnClaims
    <3> QED
      BY <3>4, <3>7
  <2>12. IsSequence(sources \o added)
    BY <2>10 DEF IsSequence
  <2>13. ASSUME NEW n \in DOMAIN (sources \o added), (sources \o added)[n].derived
         PROVE  RestsOnClaims((sources \o added)[n], sources \o added)
    <3>1. n \notin DOMAIN sources
      BY <2>2, <2>10, <2>13
    <3>2. PICK k \in DOMAIN added : (sources \o added)[n] = added[k]
      BY <2>10, <3>1
    <3> QED
      BY <2>8, <2>11, <3>2
  <2> QED
    BY <2>1, <2>12, <2>13
<1> QED
  BY <1>3, <1>4

-----------------------------------------------------------------------------
(* The validation, claim by claim. *)

\* A source claim's citation: a chunk of the turn that may support it, and whose quote does
\* show its value under its years, unless the quote was made for another claim of the same ID.
Cites(claim, x) ==
  /\ x.chunk \in claim.ids
  /\ \E c \in selected :
       /\ c.id = x.chunk /\ c.sound /\ ~c.subgroup
       /\ TableYearVerdict(claim, c) # "contradicted"
       /\ SourcesAreDistinct => /\ claim.value \in QuotedNumbers(c, x.quote)
                                /\ BoundByTheQuote(claim, c, x.quote)

\* The claims that a derived claim rests on.
InputsOf(claim) == {i \in DOMAIN claims : claims[i].claim.id \in Range(claim.derivation.inputs)}

IsDifference(claim) ==
  /\ claim.value = claim.derivation.operands[1] - claim.derivation.operands[2]
  /\ \A o \in Range(claim.derivation.operands) : IsRetrieved(o)

\* A derived claim cites what its inputs cite, and each of its inputs was there before it.
CitesInputs(claim, citations) ==
  /\ \A id \in Range(claim.derivation.inputs) : \E i \in InputsOf(claim) : claims[i].claim.id = id
  /\ \A i \in InputsOf(claim) : claims[i].citations # {}
  /\ citations = UNION {claims[i].citations : i \in InputsOf(claim)}

\* The draft is checked in its order, and nothing of a check outlives it but an answer.
OrderInv ==
  /\ evidence \in Retrievals
  /\ selected \subseteq Range(evidence)
  /\ phase \in {"validate", "answered"} => IsSequence(draft) /\ Len(claims) <= Len(draft)
  /\ phase \notin {"validate", "answered"} => claims = <<>> /\ pruned = {} /\ errors = {}
  /\ phase = "answered" => Len(claims) = Len(draft) /\ errors = {}
  /\ \E S : claims \in Seq(S)
  /\ \A i \in DOMAIN claims : claims[i].claim = draft[i]

DraftInv ==
  phase \in {"validate", "answered"} /\ targets # <<>> =>
    \A n \in DOMAIN draft : draft[n].derived => RestsOnClaims(draft[n], draft)

\* What has been cited so far. A citation bears the ID of a source claim that was checked.
CitedInv ==
  \A i \in DOMAIN claims : \A x \in claims[i].citations :
    /\ \E j \in DOMAIN claims : claims[j].claim.id = x.claim /\ ~claims[j].claim.derived
    /\ ~IsDerived(claims[i].claim) => Cites(claims[i].claim, x)

\* What a claim lost, it lost to other chunks.
PrunedInv ==
  \A p \in pruned : \E i \in DOMAIN claims :
    /\ claims[i].claim.id = p[1] /\ p[2] \in claims[i].claim.ids
    /\ claims[i].citations # {} /\ \A x \in claims[i].citations : x.chunk # p[2]

\* As long as there is no error.
DerivedInv ==
  errors = {} => \A i \in DOMAIN claims : IsDerived(claims[i].claim) =>
    /\ IsDifference(claims[i].claim)
    /\ ClaimsAreDistinct => CitesInputs(claims[i].claim, claims[i].citations)

\* An answer has no claim without a citation, and no two source claims of one ID.
AnswerInv ==
  phase = "answered" => /\ \A i \in DOMAIN claims : claims[i].citations # {}
                        /\ SourcesAreDistinct

ValidationInv ==
  OrderInv /\ CalculationsInv /\ DraftInv /\ CitedInv /\ PrunedInv /\ DerivedInv /\ AnswerInv

\* Init: nothing is drafted or checked yet.
LEMMA InitValidation == Init => ValidationInv
<1> SUFFICES ASSUME Init PROVE ValidationInv
  OBVIOUS
<1>1. /\ claims \in Seq({}) /\ DOMAIN claims = {}
      /\ Len(calculations) = 0 /\ DOMAIN calculations = 1..0
  BY DEF Init
<1> QED
  BY <1>1 DEF Init, ValidationInv, OrderInv, CalculationsInv, IsSequence, DraftInv, CitedInv,
              PrunedInv, DerivedInv, AnswerInv

\* The state of a validation.
validation == <<evidence, targets, calculations, selected, draft, verified, claims, pruned, errors>>

\* What has been cited is a matter of that state alone.
LEMMA ReportsStay ==
  ASSUME ValidationInv, UNCHANGED validation
  PROVE  CitedInv' /\ PrunedInv' /\ DerivedInv'
<1>1. /\ selected' = selected /\ draft' = draft /\ verified' = verified
      /\ claims' = claims /\ pruned' = pruned /\ errors' = errors /\ evidence' = evidence
  BY DEF validation
<1>2. ClaimsAreDistinct' = ClaimsAreDistinct /\ SourcesAreDistinct' = SourcesAreDistinct
  BY <1>1 DEF ClaimsAreDistinct, SourcesAreDistinct
<1>3. /\ \A claim, x : Cites(claim, x)' = Cites(claim, x)
      /\ \A claim : IsDifference(claim)' = IsDifference(claim)
  BY <1>1, <1>2 DEF Cites, TableYearVerdict, IsDifference, IsRetrieved
<1>4. \A claim : InputsOf(claim)' = InputsOf(claim)
  BY <1>1 DEF InputsOf
<1>5. \A claim, x : CitesInputs(claim, x)' = CitesInputs(claim, x)
  BY <1>1, <1>4 DEF CitesInputs
<1>6. CitedInv'
  BY <1>1, <1>3 DEF ValidationInv, CitedInv
<1>7. PrunedInv'
  BY <1>1 DEF ValidationInv, PrunedInv
<1>8. DerivedInv'
  BY <1>1, <1>2, <1>3, <1>5 DEF ValidationInv, DerivedInv
<1> QED
  BY <1>6, <1>7, <1>8

\* The invariant reads that state and whether the validation is under way or over.
LEMMA ValidationStays ==
  ASSUME ValidationInv, UNCHANGED validation,
         phase' \in {"validate", "answered"} <=> phase \in {"validate", "answered"},
         phase' = "answered" => phase = "answered"
  PROVE  ValidationInv'
<1>1. /\ evidence' = evidence /\ targets' = targets /\ calculations' = calculations
      /\ selected' = selected /\ draft' = draft /\ claims' = claims /\ pruned' = pruned
      /\ errors' = errors
  BY DEF validation
<1>2. OrderInv' /\ CalculationsInv' /\ DraftInv' /\ AnswerInv'
  BY <1>1 DEF ValidationInv, OrderInv, CalculationsInv, IsRetrieved, DraftInv, AnswerInv,
              SourcesAreDistinct
<1> QED
  BY <1>2, ReportsStay DEF ValidationInv

\* What is kept for a claim ID is what a claim of that ID cites.
LEMMA CitationsAreOfClaims ==
  ASSUME NEW S, claims \in Seq(S), NEW CONSTANT id, CitationsOf(id) # {}
  PROVE  \E j \in DOMAIN claims : claims[j].claim.id = id /\ CitationsOf(id) = claims[j].citations
<1> DEFINE P == {i \in DOMAIN claims : claims[i].claim.id = id}
           named == At(claims, P)
<1>1. named # <<>> /\ CitationsOf(id) = named[Len(named)].citations
  BY DEF CitationsOf
<1>2. \A j \in P : j \in DOMAIN claims /\ claims[j].claim.id = id
  OBVIOUS
<1> HIDE DEF P
<1>3. P \in SUBSET DOMAIN claims /\ IsSequence(claims)
  BY <1>2 DEF IsSequence
<1>4. /\ Cardinality(P) \in Nat /\ Len(named) = Cardinality(P)
      /\ Orders(claims, P) # {}
      /\ P = {} => named = <<>>
      /\ P # {} => 1 \in 1..Cardinality(P)
  BY <1>3, MembersAt DEF IsSequence
<1>5. PICK order : order \in Orders(claims, P)
  BY <1>4
<1>6. /\ order \in [1..Cardinality(P) -> P]
      /\ named = [n \in 1..Cardinality(P) |-> claims[order[n]]]
  BY <1>5 DEF Orders
<1> HIDE DEF named
<1>7. Len(named) \in 1..Cardinality(P)
  BY <1>1, <1>4
<1>8. named[Len(named)] = claims[order[Len(named)]] /\ order[Len(named)] \in P
  BY <1>6, <1>7
<1> QED
  BY <1>1, <1>2, <1>8

\* A calculation matched with a claim is one of the application's.
LEMMA MatchedIsCalculated ==
  ASSUME CalculationsInv, NEW CONSTANT claim, NEW k \in Matching(claim)
  PROVE  \E i \in DOMAIN calculations : k = calculations[i]
<1> DEFINE P == {i \in DOMAIN calculations : claim.derivation.operands = calculations[i].operands}
           Q == {i \in DOMAIN calculations : calculations[i].ids \subseteq claim.ids}
           same == At(calculations, P)
           near == At(calculations, Q)
<1>1. (same # <<>> /\ k = same[1]) \/ (near # <<>> /\ k = near[1])
  BY DEF Matching
<1>2. P \in SUBSET DOMAIN calculations /\ Q \in SUBSET DOMAIN calculations
  OBVIOUS
<1> HIDE DEF P, Q
<1>3. /\ Orders(calculations, P) # {}
      /\ P # {} => 1 \in 1..Cardinality(P)
      /\ P = {} => same = <<>>
  BY <1>2, MembersAt DEF CalculationsInv, IsSequence
<1>4. /\ Orders(calculations, Q) # {}
      /\ Q # {} => 1 \in 1..Cardinality(Q)
      /\ Q = {} => near = <<>>
  BY <1>2, MembersAt DEF CalculationsInv, IsSequence
<1>5. ASSUME same # <<>> PROVE \E i \in DOMAIN calculations : same[1] = calculations[i]
  <2>1. PICK order : order \in Orders(calculations, P)
    BY <1>3
  <2>2. /\ order \in [1..Cardinality(P) -> P]
        /\ same = [n \in 1..Cardinality(P) |-> calculations[order[n]]]
    BY <2>1 DEF Orders
  <2>3. order[1] \in P /\ same[1] = calculations[order[1]]
    BY <1>3, <1>5, <2>2
  <2> QED
    BY <1>2, <2>3
<1>6. ASSUME near # <<>> PROVE \E i \in DOMAIN calculations : near[1] = calculations[i]
  <2>1. PICK order : order \in Orders(calculations, Q)
    BY <1>4
  <2>2. /\ order \in [1..Cardinality(Q) -> Q]
        /\ near = [n \in 1..Cardinality(Q) |-> calculations[order[n]]]
    BY <2>1 DEF Orders
  <2>3. order[1] \in Q /\ near[1] = calculations[order[1]]
    BY <1>4, <1>6, <2>2
  <2> QED
    BY <1>2, <2>3
<1> QED
  BY <1>1, <1>5, <1>6

\* One more claim is checked: the place of the validation.
Checked(v) ==
  /\ phase = "validate" /\ phase' = "validate"
  /\ Len(claims) < Len(draft) /\ v.claim = draft[Len(claims) + 1]
  /\ claims' = Append(claims, v)
  /\ UNCHANGED <<evidence, targets, calculations, selected, draft, verified>>

\* One more checked claim: the order of the draft and the kinds of its claims.
LEMMA CheckedGrows ==
  ASSUME ValidationInv, NEW CONSTANT v, Checked(v)
  PROVE  /\ Len(claims) \in Nat /\ DOMAIN claims = 1..Len(claims)
         /\ DOMAIN claims' = 1..(Len(claims) + 1) /\ Len(claims') = Len(claims) + 1
         /\ claims'[Len(claims) + 1] = v
         /\ \A i \in DOMAIN claims : i \in DOMAIN claims' /\ claims'[i] = claims[i]
         /\ \A i \in DOMAIN claims' : i = Len(claims) + 1 \/ i \in DOMAIN claims
         /\ OrderInv' /\ CalculationsInv' /\ DraftInv' /\ AnswerInv'
<1>1. PICK S : claims \in Seq(S)
  BY DEF ValidationInv, OrderInv
<1>2. claims \in Seq(S \cup {v}) /\ v \in S \cup {v} /\ claims' = Append(claims, v)
  BY <1>1 DEF Checked
<1>3. /\ Len(claims) \in Nat /\ DOMAIN claims = 1..Len(claims)
      /\ DOMAIN claims' = 1..(Len(claims) + 1) /\ Len(claims') = Len(claims) + 1
      /\ claims'[Len(claims) + 1] = v
      /\ claims' \in Seq(S \cup {v})
  BY <1>2
<1>4. \A i \in DOMAIN claims : i \in DOMAIN claims' /\ claims'[i] = claims[i]
  BY <1>2, <1>3
<1>5. \A i \in DOMAIN claims' : i = Len(claims) + 1 \/ i \in DOMAIN claims
  BY <1>3
<1>6. OrderInv'
  <2>1. /\ evidence' \in Retrievals /\ selected' \subseteq Range(evidence')
        /\ IsSequence(draft) /\ draft' = draft
    BY DEF Checked, ValidationInv, OrderInv
  <2>2. IsSequence(draft') /\ Len(claims') <= Len(draft')
    BY <1>3, <2>1 DEF Checked, IsSequence
  <2>3. \A i \in DOMAIN claims' : claims'[i].claim = draft'[i]
    BY <1>3, <1>4, <1>5, <2>1 DEF Checked, ValidationInv, OrderInv
  <2>4. \E U : claims' \in Seq(U)
    BY <1>3
  <2> QED
    BY <2>1, <2>2, <2>3, <2>4 DEF Checked, OrderInv
<1>7. CalculationsInv' /\ DraftInv' /\ AnswerInv'
  BY DEF Checked, ValidationInv, CalculationsInv, IsRetrieved, DraftInv, AnswerInv
<1> QED
  BY <1>3, <1>4, <1>5, <1>6, <1>7

\* When the claims of the draft differ, no claim checked before has the ID of this one; when
\* its source claims do, that is so among them.
LEMMA IdIsNew ==
  ASSUME ValidationInv, NEW CONSTANT v, Checked(v), NEW CONSTANT i \in DOMAIN claims,
         \/ ClaimsAreDistinct
         \/ SourcesAreDistinct /\ ~claims[i].claim.derived /\ ~v.claim.derived
  PROVE  claims[i].claim.id # v.claim.id
<1>1. /\ Len(claims) \in Nat /\ DOMAIN claims = 1..Len(claims)
  BY CheckedGrows
<1>2. IsSequence(draft) /\ Len(claims) < Len(draft) /\ v.claim = draft[Len(claims) + 1]
  BY DEF Checked, ValidationInv, OrderInv
<1>3. i \in DOMAIN draft /\ Len(claims) + 1 \in DOMAIN draft /\ i # Len(claims) + 1
  BY <1>1, <1>2 DEF IsSequence
<1>4. claims[i].claim = draft[i]
  BY DEF ValidationInv, OrderInv
<1> QED
  BY <1>2, <1>3, <1>4 DEF ClaimsAreDistinct, SourcesAreDistinct

\* What a derived claim rests on is there when it is checked, and does not grow.
LEMMA InputsStay ==
  ASSUME ValidationInv, NEW CONSTANT v, Checked(v), ClaimsAreDistinct,
         NEW CONSTANT d, NEW CONSTANT K, CitesInputs(d, K)
  PROVE  CitesInputs(d, K)'
<1>1. /\ \A i \in DOMAIN claims : i \in DOMAIN claims' /\ claims'[i] = claims[i]
      /\ \A i \in DOMAIN claims' : i = Len(claims) + 1 \/ i \in DOMAIN claims
      /\ claims'[Len(claims) + 1] = v
  BY CheckedGrows
<1>2. v.claim.id \notin Range(d.derivation.inputs)
  BY IdIsNew DEF CitesInputs, InputsOf
<1>3. InputsOf(d)' = InputsOf(d)
  BY <1>1, <1>2 DEF InputsOf
<1>4. \A i \in InputsOf(d) : claims'[i] = claims[i]
  BY <1>1 DEF InputsOf
<1> QED
  BY <1>3, <1>4 DEF CitesInputs

\* The claims checked before keep what they have.
LEMMA CheckedKeeps ==
  ASSUME ValidationInv, NEW CONSTANT v, Checked(v)
  PROVE  /\ ClaimsAreDistinct' = ClaimsAreDistinct
         /\ \A claim, x : Cites(claim, x)' = Cites(claim, x)
         /\ \A claim : IsDifference(claim)' = IsDifference(claim)
         /\ \A p \in pruned : \E i \in DOMAIN claims' :
              /\ claims'[i].claim.id = p[1] /\ p[2] \in claims'[i].claim.ids
              /\ claims'[i].citations # {} /\ \A x \in claims'[i].citations : x.chunk # p[2]
         /\ \A i \in DOMAIN claims : \A x \in claims[i].citations :
              /\ \E j \in DOMAIN claims' : claims'[j].claim.id = x.claim /\ ~claims'[j].claim.derived
              /\ ~IsDerived(claims[i].claim) => Cites(claims[i].claim, x)'
         /\ errors = {} => \A i \in DOMAIN claims : IsDerived(claims[i].claim) =>
              /\ IsDifference(claims[i].claim)
              /\ ClaimsAreDistinct => CitesInputs(claims[i].claim, claims[i].citations)'
<1>1. selected' = selected /\ draft' = draft /\ verified' = verified /\ evidence' = evidence
  BY DEF Checked
<1>2. ClaimsAreDistinct' = ClaimsAreDistinct /\ SourcesAreDistinct' = SourcesAreDistinct
  BY <1>1 DEF ClaimsAreDistinct, SourcesAreDistinct
<1>3. /\ \A claim, x : Cites(claim, x)' = Cites(claim, x)
      /\ \A claim : IsDifference(claim)' = IsDifference(claim)
  BY <1>1, <1>2 DEF Cites, TableYearVerdict, IsDifference, IsRetrieved
<1>4. \A i \in DOMAIN claims : i \in DOMAIN claims' /\ claims'[i] = claims[i]
  BY CheckedGrows
<1>5. \A p \in pruned : \E i \in DOMAIN claims' :
        /\ claims'[i].claim.id = p[1] /\ p[2] \in claims'[i].claim.ids
        /\ claims'[i].citations # {} /\ \A x \in claims'[i].citations : x.chunk # p[2]
  BY <1>4 DEF ValidationInv, PrunedInv
<1>6. ASSUME NEW i \in DOMAIN claims, NEW x \in claims[i].citations
      PROVE  /\ \E j \in DOMAIN claims' : claims'[j].claim.id = x.claim /\ ~claims'[j].claim.derived
             /\ ~IsDerived(claims[i].claim) => Cites(claims[i].claim, x)'
  <2>1. /\ \E j \in DOMAIN claims : claims[j].claim.id = x.claim /\ ~claims[j].claim.derived
        /\ ~IsDerived(claims[i].claim) => Cites(claims[i].claim, x)
    BY DEF ValidationInv, CitedInv
  <2>2. PICK claim : claim = claims[i].claim
    OBVIOUS
  <2>3. ~IsDerived(claim) => Cites(claim, x)'
    BY <1>3, <2>1, <2>2
  <2> QED
    BY <1>4, <2>1, <2>2, <2>3
<1>7. ASSUME errors = {}, NEW i \in DOMAIN claims, IsDerived(claims[i].claim)
      PROVE  /\ IsDifference(claims[i].claim)
             /\ ClaimsAreDistinct => CitesInputs(claims[i].claim, claims[i].citations)'
  <2>1. /\ IsDifference(claims[i].claim)
        /\ ClaimsAreDistinct => CitesInputs(claims[i].claim, claims[i].citations)
    BY <1>7 DEF ValidationInv, DerivedInv
  <2>2. PICK d, K : d = claims[i].claim /\ K = claims[i].citations
    OBVIOUS
  <2>3. ClaimsAreDistinct => CitesInputs(d, K)'
    BY <2>1, <2>2, InputsStay
  <2>4. claims[i].claim = d /\ claims[i].citations = K
    BY <2>2
  <2> QED
    BY <1>4, <2>1, <2>3, <2>4
<1> QED
  BY <1>2, <1>3, <1>5, <1>6, <1>7

\* A source claim is checked.
LEMMA SourceIsCited ==
  ASSUME ValidationInv, NEW CONSTANT claim, ~IsDerived(claim), CheckSource(claim),
         phase = "validate", Len(claims) < Len(draft), claim = draft[Len(claims) + 1],
         UNCHANGED <<phase, evidence, targets, calculations, selected, draft, verified>>
  PROVE  ValidationInv'
<1> DEFINE Confirmed(c) == TableYearVerdict(claim, c) = "confirmed"
           named == {c \in selected : c.id \in claim.ids}
           usable == {c \in named : c.sound}
           ofYear == {c \in usable : ~c.subgroup /\ TableYearVerdict(claim, c) # "contradicted"}
           QuotesOf(c) == Quotes(claim, c, TableYearVerdict(claim, c) = "confirmed")
           cited == {c \in ofYear : QuotesOf(c) # {}}
           unsupported == {c \in usable : c.subgroup} \cup (ofYear \ cited)
           citations == {Citation(claim, c, QuotesOf(c)) : c \in cited}
<1>1. /\ claims' = Append(claims, [claim |-> claim, citations |-> citations])
      /\ pruned' = pruned \cup (IF cited = {} THEN {} ELSE {<<claim.id, c.id>> : c \in unsupported})
      /\ errors' = {} => errors = {}
  BY DEF CheckSource
<1>2. ASSUME NEW c \in cited
      PROVE  /\ c \in selected /\ c.id \in claim.ids /\ c.sound /\ ~c.subgroup
             /\ TableYearVerdict(claim, c) # "contradicted" /\ QuotesOf(c) # {}
  OBVIOUS
<1>3. \A c \in unsupported : c \in selected /\ c.id \in claim.ids /\ c \notin cited
  OBVIOUS
<1>c. citations = {Citation(claim, c, QuotesOf(c)) : c \in cited}
  OBVIOUS
<1> HIDE DEF citations, cited, unsupported
<1>4. PICK K, v : K = citations /\ v = [claim |-> claim, citations |-> K]
  OBVIOUS
<1>5. Checked(v) /\ v.claim = claim /\ v.citations = K
  BY <1>1, <1>4 DEF Checked
<1>6. ASSUME NEW c \in cited
      PROVE  /\ Citation(claim, c, QuotesOf(c)).claim = claim.id
             /\ Citation(claim, c, QuotesOf(c)).chunk = c.id
             /\ SourcesAreDistinct => Citation(claim, c, QuotesOf(c)).quote \in QuotesOf(c)
  <2> DEFINE known == {x \in UNION {claims[i].citations : i \in DOMAIN claims} :
                         x.claim = claim.id /\ x.chunk = c.id}
  <2>1. CASE known = {}
    <3>1. Citation(claim, c, QuotesOf(c))
            = [claim |-> claim.id, chunk |-> c.id, quote |-> CHOOSE q \in QuotesOf(c) : TRUE]
      BY <2>1 DEF Citation
    <3>2. (CHOOSE q \in QuotesOf(c) : TRUE) \in QuotesOf(c)
      BY <1>2
    <3> HIDE DEF QuotesOf
    <3> QED
      BY <3>1, <3>2
  <2>2. CASE known # {}
    <3>1. Citation(claim, c, QuotesOf(c)) \in known
      BY <2>2 DEF Citation
    <3>2. ~SourcesAreDistinct
      <4>1. PICK i \in DOMAIN claims : \E x \in claims[i].citations : x.claim = claim.id
        BY <2>2
      <4>2. PICK j \in DOMAIN claims : claims[j].claim.id = claim.id /\ ~claims[j].claim.derived
        BY <4>1 DEF ValidationInv, CitedInv
      <4>3. ~claim.derived
        BY DEF IsDerived
      <4> QED
        BY <1>5, <4>2, <4>3, IdIsNew
    <3> QED
      BY <3>1, <3>2
  <2> QED
    BY <2>1, <2>2
<1>7. ASSUME NEW x \in K PROVE x.claim = claim.id /\ Cites(claim, x)
  <2>1. PICK c \in cited : x = Citation(claim, c, QuotesOf(c))
    BY <1>4, <1>c
  <2>2. x.claim = claim.id /\ x.chunk = c.id /\ (SourcesAreDistinct => x.quote \in QuotesOf(c))
    BY <1>6, <2>1
  <2>3. /\ c \in selected /\ c.id \in claim.ids /\ c.sound /\ ~c.subgroup
        /\ TableYearVerdict(claim, c) # "contradicted"
    BY <1>2
  <2>4. c.rows \in Seq(Range(c.rows))
    <3>1. PICK i \in DOMAIN evidence : evidence[i] = c
      BY <2>3 DEF ValidationInv, OrderInv, Range
    <3> QED
      BY <3>1, RetrievalAssumption DEF ValidationInv, OrderInv
  <2>5. SourcesAreDistinct => /\ claim.value \in QuotedNumbers(c, x.quote)
                             /\ BoundByTheQuote(claim, c, x.quote)
    BY <2>2, <2>4, QuotesShow
  <2> QED
    BY <2>2, <2>3, <2>5 DEF Cites
<1>8. cited # {} => K # {} /\ \A x \in K : \E c \in cited : x.chunk = c.id
  BY <1>4, <1>6, <1>c
<1> DEFINE n0 == Len(claims) + 1
<1>9. /\ OrderInv' /\ CalculationsInv' /\ DraftInv' /\ AnswerInv'
      /\ n0 \in DOMAIN claims' /\ claims'[n0] = v
      /\ \A i \in DOMAIN claims : i \in DOMAIN claims' /\ claims'[i] = claims[i]
      /\ \A i \in DOMAIN claims' : i = n0 \/ i \in DOMAIN claims
  BY <1>5, CheckedGrows
<1> HIDE DEF n0
<1>10. CitedInv'
  <2>1. ASSUME NEW i \in DOMAIN claims', NEW x \in claims'[i].citations
        PROVE  /\ \E j \in DOMAIN claims' : claims'[j].claim.id = x.claim /\ ~claims'[j].claim.derived
               /\ ~IsDerived(claims'[i].claim) => Cites(claims[i].claim, x)'
    <3>1. CASE i = n0
      <4>1. x \in K /\ claims'[n0].claim = claim
        BY <1>5, <1>9, <2>1, <3>1
      <4>2. x.claim = claim.id /\ Cites(claim, x)'
        BY <1>5, <1>7, <4>1, CheckedKeeps
      <4>3. ~claim.derived
        BY DEF IsDerived
      <4> QED
        BY <1>9, <3>1, <4>1, <4>2, <4>3
    <3>2. CASE i \in DOMAIN claims
      <4>1. x \in claims[i].citations /\ claims'[i] = claims[i]
        BY <1>9, <2>1, <3>2
      <4>2. /\ \E j \in DOMAIN claims' : claims'[j].claim.id = x.claim /\ ~claims'[j].claim.derived
            /\ ~IsDerived(claims[i].claim) => Cites(claims[i].claim, x)'
        BY <1>5, <3>2, <4>1, CheckedKeeps
      <4> QED
        BY <4>1, <4>2
    <3> QED
      BY <1>9, <3>1, <3>2
  <2> QED
    BY <2>1 DEF CitedInv
<1>11. PrunedInv'
  <2>1. ASSUME NEW p \in pruned', p \notin pruned
        PROVE  \E i \in DOMAIN claims' :
                 /\ claims'[i].claim.id = p[1] /\ p[2] \in claims'[i].claim.ids
                 /\ claims'[i].citations # {} /\ \A x \in claims'[i].citations : x.chunk # p[2]
    <3>1. PICK d \in unsupported : cited # {} /\ p = <<claim.id, d.id>>
      BY <1>1, <2>1
    <3>2. claims'[n0].claim = claim /\ claims'[n0].citations = K /\ p[1] = claim.id /\ p[2] = d.id
      BY <1>5, <1>9, <3>1
    <3>3. \A x \in K : x.chunk # d.id
      <4>1. ASSUME NEW c \in cited PROVE c.id # d.id
        BY <1>2, <1>3, ChunksDiffer DEF ValidationInv, OrderInv
      <4> QED
        BY <1>8, <3>1, <4>1
    <3>4. d.id \in claim.ids
      BY <1>3
    <3> QED
      BY <1>8, <1>9, <3>1, <3>2, <3>3, <3>4
  <2>2. ASSUME NEW p \in pruned
        PROVE  \E i \in DOMAIN claims' :
                 /\ claims'[i].claim.id = p[1] /\ p[2] \in claims'[i].claim.ids
                 /\ claims'[i].citations # {} /\ \A x \in claims'[i].citations : x.chunk # p[2]
    BY <1>5, CheckedKeeps
  <2> QED
    BY <2>1, <2>2 DEF PrunedInv
<1>12. DerivedInv'
  <2>1. ASSUME errors' = {}, NEW i \in DOMAIN claims', IsDerived(claims'[i].claim)
        PROVE  /\ IsDifference(claims[i].claim)'
               /\ ClaimsAreDistinct' => CitesInputs(claims[i].claim, claims[i].citations)'
    <3>1. i # n0
      BY <1>5, <1>9, <2>1
    <3>2. i \in DOMAIN claims /\ claims'[i] = claims[i] /\ errors = {}
      BY <1>1, <1>9, <2>1, <3>1
    <3>3. /\ IsDifference(claims[i].claim)
          /\ ClaimsAreDistinct => CitesInputs(claims[i].claim, claims[i].citations)'
      BY <1>5, <2>1, <3>2, CheckedKeeps
    <3>4. /\ ClaimsAreDistinct' = ClaimsAreDistinct
          /\ \A d : IsDifference(d)' = IsDifference(d)
      BY <1>5, CheckedKeeps
    <3>5. PICK d : d = claims[i].claim
      OBVIOUS
    <3>6. IsDifference(d)' /\ claims'[i].claim = d
      BY <3>2, <3>3, <3>4, <3>5
    <3> QED
      BY <3>2, <3>3, <3>4, <3>6
  <2> QED
    BY <2>1 DEF DerivedInv
<1> QED
  BY <1>9, <1>10, <1>11, <1>12 DEF ValidationInv

\* A derived claim is checked.
LEMMA DerivedIsCited ==
  ASSUME ValidationInv, NEW CONSTANT claim, IsDerived(claim), CheckDerived(claim),
         phase = "validate", Len(claims) < Len(draft), claim = draft[Len(claims) + 1],
         UNCHANGED <<phase, evidence, targets, calculations, selected, draft, verified>>
  PROVE  ValidationInv'
<1> DEFINE ids == Range(claim.derivation.inputs)
           n0 == Len(claims) + 1
<1>0. PICK S : claims \in Seq(S)
  BY DEF ValidationInv, OrderInv
<1>1. PICK K : K = UNION {CitationsOf(id) : id \in ids}
  OBVIOUS
<1>2. PICK v : v = [claim |-> claim, citations |-> K]
  OBVIOUS
<1>3. /\ Checked(v) /\ v.claim = claim /\ v.citations = K
      /\ pruned' = pruned /\ errors' = errors \cup DerivedErrors(claim)
  BY <1>1, <1>2 DEF Checked, CheckDerived
<1>4. /\ OrderInv' /\ CalculationsInv' /\ DraftInv' /\ AnswerInv'
      /\ n0 \in DOMAIN claims' /\ claims'[n0] = v
      /\ \A i \in DOMAIN claims : i \in DOMAIN claims' /\ claims'[i] = claims[i]
      /\ \A i \in DOMAIN claims' : i = n0 \/ i \in DOMAIN claims
  BY <1>3, CheckedGrows
<1> HIDE DEF n0
<1>5. \A id \in ids : CitationsOf(id) # {} =>
        \E j \in DOMAIN claims : claims[j].claim.id = id /\ CitationsOf(id) = claims[j].citations
  BY <1>0, CitationsAreOfClaims
<1>6. CitedInv'
  <2>1. ASSUME NEW i \in DOMAIN claims', NEW x \in claims'[i].citations
        PROVE  /\ \E j \in DOMAIN claims' : claims'[j].claim.id = x.claim /\ ~claims'[j].claim.derived
               /\ ~IsDerived(claims'[i].claim) => Cites(claims[i].claim, x)'
    <3>1. CASE i = n0
      <4>1. x \in K /\ claims'[i].claim = claim
        BY <1>3, <1>4, <2>1, <3>1
      <4>2. PICK id \in ids : x \in CitationsOf(id)
        BY <1>1, <4>1
      <4>3. PICK j \in DOMAIN claims : x \in claims[j].citations
        BY <1>5, <4>2
      <4>4. \E k \in DOMAIN claims' : claims'[k].claim.id = x.claim /\ ~claims'[k].claim.derived
        BY <1>3, <4>3, CheckedKeeps
      <4> QED
        BY <4>1, <4>4
    <3>2. CASE i \in DOMAIN claims
      <4>1. x \in claims[i].citations /\ claims'[i] = claims[i]
        BY <1>4, <2>1, <3>2
      <4>2. /\ \E j \in DOMAIN claims' : claims'[j].claim.id = x.claim /\ ~claims'[j].claim.derived
            /\ ~IsDerived(claims[i].claim) => Cites(claims[i].claim, x)'
        BY <1>3, <3>2, <4>1, CheckedKeeps
      <4> QED
        BY <4>1, <4>2
    <3> QED
      BY <1>4, <3>1, <3>2
  <2> QED
    BY <2>1 DEF CitedInv
<1>7. PrunedInv'
  BY <1>3, CheckedKeeps DEF PrunedInv
<1>8. ASSUME errors' = {}
      PROVE  IsDifference(claim) /\ (ClaimsAreDistinct => CitesInputs(claim, K))
  <2>1. KeepsCalculation(claim) /\ \A id \in ids : CitationsOf(id) # {}
    BY <1>3, <1>8 DEF DerivedErrors, Codes
  <2>2. IsDifference(claim)
    <3>1. PICK k \in Matching(claim) :
            claim.derivation.operands = k.operands /\ claim.value = k.result
      BY <2>1 DEF KeepsCalculation
    <3>2. CalculationsInv /\ \E i \in DOMAIN calculations : k = calculations[i]
      BY MatchedIsCalculated DEF ValidationInv
    <3>3. /\ k.operands = <<k.operands[1], k.operands[2]>>
          /\ k.result = k.operands[1] - k.operands[2]
          /\ IsRetrieved(k.operands[1]) /\ IsRetrieved(k.operands[2])
      BY <3>2 DEF CalculationsInv
    <3>4. Range(k.operands) = {k.operands[1], k.operands[2]}
      <4>1. \A a, b : Range(<<a, b>>) = {a, b}
        BY DEF Range
      <4> QED
        BY <3>3, <4>1
    <3> QED
      BY <3>1, <3>3, <3>4 DEF IsDifference
  <2>3. ASSUME ClaimsAreDistinct PROVE CitesInputs(claim, K)
    <3>1. ASSUME NEW i \in DOMAIN claims, NEW j \in DOMAIN claims,
                 claims[i].claim.id = claims[j].claim.id
          PROVE  i = j
      <4>1. IsSequence(draft) /\ DOMAIN claims \subseteq DOMAIN draft
        BY <1>0 DEF ValidationInv, OrderInv, IsSequence
      <4>2. claims[i].claim = draft[i] /\ claims[j].claim = draft[j]
        BY DEF ValidationInv, OrderInv
      <4> QED
        BY <2>3, <3>1, <4>1, <4>2 DEF ClaimsAreDistinct
    <3>2. \A i \in InputsOf(claim) : /\ i \in DOMAIN claims /\ claims[i].claim.id \in ids
                                     /\ claims[i].citations = CitationsOf(claims[i].claim.id)
                                     /\ claims[i].citations # {}
      <4> TAKE i \in InputsOf(claim)
      <4>1. i \in DOMAIN claims /\ claims[i].claim.id \in ids
        BY DEF InputsOf
      <4>2. PICK id \in ids : id = claims[i].claim.id
        BY <4>1
      <4>3. PICK j \in DOMAIN claims : /\ claims[j].claim.id = id
                                       /\ CitationsOf(id) = claims[j].citations
        BY <1>5, <2>1
      <4>4. i = j
        BY <3>1, <4>1, <4>2, <4>3
      <4> QED
        BY <2>1, <4>1, <4>2, <4>3, <4>4
    <3>3. ASSUME NEW id \in ids
          PROVE  \E i \in InputsOf(claim) : /\ claims[i].claim.id = id
                                            /\ claims[i].citations = CitationsOf(id)
      BY <1>5, <2>1 DEF InputsOf
    <3>4. K = UNION {claims[i].citations : i \in InputsOf(claim)}
      BY <1>1, <3>2, <3>3
    <3> QED
      BY <3>2, <3>3, <3>4 DEF CitesInputs
  <2> QED
    BY <2>2, <2>3
<1>9. DerivedInv'
  <2>1. ASSUME errors' = {}, NEW i \in DOMAIN claims', IsDerived(claims'[i].claim)
        PROVE  /\ IsDifference(claims[i].claim)'
               /\ ClaimsAreDistinct' => CitesInputs(claims[i].claim, claims[i].citations)'
    <3>0. /\ ClaimsAreDistinct' = ClaimsAreDistinct
          /\ \A d : IsDifference(d)' = IsDifference(d)
      BY <1>3, CheckedKeeps
    <3>1. CASE i = n0
      <4>1. claims'[i].claim = claim /\ claims'[i].citations = K
        BY <1>3, <1>4, <3>1
      <4>2. ClaimsAreDistinct => CitesInputs(claim, K)'
        BY <1>3, <1>8, <2>1, InputsStay
      <4>3. IsDifference(claim)'
        BY <1>8, <2>1, <3>0
      <4> QED
        BY <3>0, <4>1, <4>2, <4>3
    <3>2. CASE i \in DOMAIN claims
      <4>1. claims'[i] = claims[i] /\ errors = {}
        BY <1>3, <1>4, <2>1, <3>2
      <4>2. /\ IsDifference(claims[i].claim)
            /\ ClaimsAreDistinct => CitesInputs(claims[i].claim, claims[i].citations)'
        BY <1>3, <2>1, <3>2, <4>1, CheckedKeeps
      <4>3. PICK d : d = claims[i].claim
        OBVIOUS
      <4>4. IsDifference(d)' /\ claims'[i].claim = d
        BY <3>0, <4>1, <4>2, <4>3
      <4> QED
        BY <3>0, <4>1, <4>2, <4>4
    <3> QED
      BY <1>4, <3>1, <3>2
  <2> QED
    BY <2>1 DEF DerivedInv
<1> QED
  BY <1>4, <1>6, <1>7, <1>9 DEF ValidationInv

\* The calculations of the tools are differences of two numbers of the evidence.
LEMMA CalculateValidates ==
  ASSUME ValidationInv, Calculate
  PROVE  ValidationInv'
<1>1. /\ phase = "calculate" /\ phase' = "pack"
      /\ UNCHANGED <<evidence, targets, selected, draft, verified, claims, pruned, errors>>
      /\ claims = <<>> /\ pruned = {} /\ errors = {}
  BY DEF Calculate, question, checking, ValidationInv, OrderInv
<1>2. CalculationsInv'
  <2>1. PICK requests \in (IF targets = <<>> THEN {<<>>} ELSE Requests) :
          calculations' =
            LET kept == At(requests, {i \in DOMAIN requests : ValidCalculation(requests[i])})
            IN  [i \in DOMAIN kept |->
                  [operands |-> kept[i].operands, ids |-> kept[i].ids,
                   result |-> kept[i].operands[1] - kept[i].operands[2]]]
    BY DEF Calculate
  <2> DEFINE P == {i \in DOMAIN requests : ValidCalculation(requests[i])}
             kept == At(requests, P)
  <2>2. IsSequence(requests)
    BY RequestAssumption DEF IsSequence
  <2>3. \A i \in P : /\ i \in DOMAIN requests
                     /\ requests[i].operands = <<requests[i].operands[1], requests[i].operands[2]>>
                     /\ IsRetrieved(requests[i].operands[1])
                     /\ IsRetrieved(requests[i].operands[2])
    <3> TAKE i \in P
    <3>1. i \in DOMAIN requests /\ Len(requests[i].operands) = 2
      BY DEF ValidCalculation
    <3>2. requests[i].operands \in Seq(Range(requests[i].operands))
      BY <3>1, RequestAssumption
    <3>3. \A o \in Range(requests[i].operands) : IsRetrieved(o)
      BY DEF ValidCalculation, IsRetrieved
    <3>4. /\ requests[i].operands[1] \in Range(requests[i].operands)
          /\ requests[i].operands[2] \in Range(requests[i].operands)
      BY <3>1, <3>2 DEF Range
    <3> QED
      BY <3>1, <3>2, <3>3, <3>4
  <2>4. calculations' =
          [i \in DOMAIN kept |-> [operands |-> kept[i].operands, ids |-> kept[i].ids,
                                  result |-> kept[i].operands[1] - kept[i].operands[2]]]
    BY <2>1
  <2> HIDE DEF P
  <2>5. P \in SUBSET DOMAIN requests
    BY <2>3
  <2>6. Cardinality(P) \in Nat /\ Orders(requests, P) # {}
    BY <2>2, <2>5, MembersAt DEF IsSequence
  <2>7. PICK order : order \in Orders(requests, P)
    BY <2>6
  <2>8. /\ order \in [1..Cardinality(P) -> P]
        /\ kept = [n \in 1..Cardinality(P) |-> requests[order[n]]]
    BY <2>7 DEF Orders
  <2> HIDE DEF kept
  <2>9. /\ DOMAIN calculations' = 1..Cardinality(P)
        /\ \A n \in 1..Cardinality(P) :
             /\ kept[n].operands = <<kept[n].operands[1], kept[n].operands[2]>>
             /\ IsRetrieved(kept[n].operands[1]) /\ IsRetrieved(kept[n].operands[2])
    BY <2>3, <2>4, <2>8
  <2>10. IsSequence(calculations')
    <3>1. calculations' \in [1..Cardinality(P) -> Range(calculations')]
      BY <2>4, <2>9 DEF Range
    <3>2. calculations' \in Seq(Range(calculations'))
      BY <2>6, <3>1
    <3> QED
      BY <3>2 DEF IsSequence
  <2>11. \A n \in DOMAIN calculations' :
           /\ calculations'[n].operands = kept[n].operands
           /\ calculations'[n].result = kept[n].operands[1] - kept[n].operands[2]
    BY <2>4
  <2>12. \A n \in DOMAIN calculations' : \A m \in {1, 2} :
           \E c \in Range(evidence') : calculations'[n].operands[m] \in Numbers(c)
    BY <1>1, <2>9, <2>11 DEF IsRetrieved
  <2>13. \A n \in DOMAIN calculations' :
           /\ calculations'[n].operands
                = <<calculations'[n].operands[1], calculations'[n].operands[2]>>
           /\ calculations'[n].result = calculations'[n].operands[1] - calculations'[n].operands[2]
    BY <2>9, <2>11
  <2> QED
    BY <2>10, <2>12, <2>13 DEF CalculationsInv, IsRetrieved
<1>3. OrderInv' /\ DraftInv' /\ CitedInv' /\ PrunedInv' /\ DerivedInv' /\ AnswerInv'
  BY <1>1 DEF ValidationInv, OrderInv, DraftInv, CitedInv, PrunedInv, DerivedInv, AnswerInv
<1> QED
  BY <1>2, <1>3 DEF ValidationInv

\* Every step of the assessment, the draft, the validation and its repair keeps all of it.
LEMMA ValidationStep == ValidationInv /\ [Next]_vars => ValidationInv'
<1> SUFFICES ASSUME ValidationInv, [Next]_vars PROVE ValidationInv'
  OBVIOUS
<1>1. CASE Calculate
  BY <1>1, CalculateValidates
<1>2. CASE StartPacking \/ Reserve \/ StartFilling \/ Fill \/ NextRound \/ PackingDone
  <2>1. phase \notin {"validate", "answered"} /\ phase' \notin {"validate", "answered"}
    BY <1>2 DEF StartPacking, Reserve, StartFilling, Fill, NextRound, PackingDone
  <2>2. UNCHANGED validation
    BY <1>2 DEF StartPacking, Reserve, StartFilling, Fill, NextRound, PackingDone, validation,
                question, checking
  <2> QED
    BY <2>1, <2>2, ValidationStays
<1>3. CASE Assess
  <2>1. /\ phase = "assess" /\ phase' \in {"synthesize", "refused"}
        /\ selected' \subseteq Range(evidence)
        /\ UNCHANGED <<evidence, targets, calculations, draft, verified, claims, pruned, errors>>
    BY <1>3 DEF Assess, question, checking, ValidationInv, OrderInv
  <2>2. claims = <<>> /\ pruned = {} /\ errors = {}
    BY <2>1 DEF ValidationInv, OrderInv
  <2> QED
    BY <2>1, <2>2 DEF ValidationInv, OrderInv, CalculationsInv, IsRetrieved, DraftInv, CitedInv,
                      PrunedInv, DerivedInv, AnswerInv
<1>4. CASE Synthesize
  <2>1. /\ phase = "synthesize" /\ phase' = "validate"
        /\ UNCHANGED <<evidence, targets, calculations, selected, claims, pruned, errors>>
    BY <1>4 DEF Synthesize, question, checking
  <2>2. claims = <<>> /\ pruned = {} /\ errors = {} /\ Len(claims) = 0
    BY <2>1 DEF ValidationInv, OrderInv
  <2>3. PICK drafted \in Drafts : draft' = Prepared(drafted)
    BY <1>4 DEF Synthesize
  <2>4. /\ IsSequence(draft')
        /\ targets # <<>> =>
             \A n \in DOMAIN draft' : draft'[n].derived => RestsOnClaims(draft'[n], draft')
    BY <2>3, PreparedRests DEF ValidationInv
  <2>5. OrderInv' /\ CalculationsInv' /\ CitedInv' /\ PrunedInv' /\ DerivedInv' /\ AnswerInv'
    BY <2>1, <2>2, <2>4 DEF ValidationInv, OrderInv, CalculationsInv, IsRetrieved, CitedInv,
                            PrunedInv, DerivedInv, AnswerInv, IsSequence
  <2>6. DraftInv'
    BY <2>1, <2>4 DEF DraftInv
  <2> QED
    BY <2>5, <2>6 DEF ValidationInv
<1>5. CASE ValidateClaim
  <2>1. PICK claim : claim = draft[Len(claims) + 1]
    OBVIOUS
  <2>2. /\ phase = "validate" /\ Len(claims) < Len(draft)
        /\ IF IsDerived(claim) THEN CheckDerived(claim) ELSE CheckSource(claim)
        /\ UNCHANGED <<phase, evidence, targets, calculations, selected, draft, verified>>
    BY <1>5, <2>1 DEF ValidateClaim, question
  <2> QED
    BY <2>1, <2>2, SourceIsCited, DerivedIsCited
<1>6. CASE Decide
  <2>1. /\ phase = "validate" /\ Len(claims) = Len(draft)
        /\ UNCHANGED <<evidence, targets, calculations, selected>>
    BY <1>6 DEF Decide, question
  <2>2. CASE /\ errors \cup ResponseErrors
                  \cup Codes("INCOMPLETE_SUPPORT_ASSESSMENT", ~SourcesAreDistinct) = {}
             /\ phase' = "answered"
             /\ UNCHANGED <<draft, retries, verified, checking>>
    <3>1. UNCHANGED validation
      BY <2>1, <2>2 DEF validation, checking
    <3>2. /\ errors = {} /\ \A i \in DOMAIN claims : claims[i].citations # {}
          /\ SourcesAreDistinct
      BY <2>2 DEF ResponseErrors, Codes
    <3> DEFINE Same == /\ evidence' = evidence /\ targets' = targets
                       /\ calculations' = calculations /\ selected' = selected
                       /\ draft' = draft /\ verified' = verified
                       /\ claims' = claims /\ pruned' = pruned /\ errors' = errors
    <3>3. Same
      BY <3>1 DEF validation
    <3>4. OrderInv' /\ CalculationsInv' /\ DraftInv' /\ AnswerInv'
      BY <2>1, <2>2, <3>2, <3>3 DEF ValidationInv, OrderInv, CalculationsInv, IsRetrieved,
                                    DraftInv, AnswerInv, SourcesAreDistinct
    <3>5. CitedInv' /\ PrunedInv' /\ DerivedInv'
      BY <3>1, ReportsStay
    <3> QED
      BY <3>4, <3>5 DEF ValidationInv
  <2>3. CASE /\ phase' = IF retries = 0 THEN "synthesize" ELSE "refused"
             /\ claims' = <<>> /\ pruned' = {} /\ errors' = {}
    <3>1. phase' \notin {"validate", "answered"}
      BY <2>3
    <3> QED
      BY <2>1, <2>3, <3>1 DEF ValidationInv, OrderInv, CalculationsInv, IsRetrieved, DraftInv,
                              CitedInv, PrunedInv, DerivedInv, AnswerInv
  <2> QED
    BY <1>6, <2>2, <2>3 DEF Decide
<1>7. CASE UNCHANGED vars
  <2>1. UNCHANGED validation /\ phase' = phase
    BY <1>7 DEF vars, validation, question, checking
  <2> QED
    BY <2>1, ValidationStays
<1> QED
  BY <1>1, <1>2, <1>3, <1>4, <1>5, <1>6, <1>7 DEF Next

\* An answer is a draft whose claims were all checked without an error.
LEMMA ValidationInvariant == Spec => []ValidationInv
BY InitValidation, ValidationStep, PTL DEF Spec

\* The chunk of a citation is the one of that ID.
LEMMA ChunkIsOne ==
  ASSUME ValidationInv, NEW citation, NEW c \in selected, c.id = citation.chunk
  PROVE  ChunkOf(citation) = c
<1>1. \A d \in selected : d.id = citation.chunk => d = c
  BY ChunksDiffer DEF ValidationInv, OrderInv
<1> QED
  BY <1>1 DEF ChunkOf

\* citations.py: whatever was retrieved, selected, drafted and repaired, every claim of an
\* answer is cited, each citation of a source claim is a sound chunk of the turn whose quote
\* shows the claim's value, and a chunk was pruned only where others support the claim.
THEOREM CitationsAlwaysSupport == Spec => []CitationsSupport
<1>1. ASSUME ValidationInv PROVE CitationsSupport
  <2>1. SUFFICES ASSUME Answered
                 PROVE  /\ \A v \in Validated :
                             /\ v.citations # {}
                             /\ ~IsDerived(v.claim) => \A citation \in v.citations :
                                  /\ citation.chunk \in v.claim.ids
                                  /\ \E c \in selected :
                                       c.id = citation.chunk /\ c.sound /\ ~c.subgroup
                                  /\ v.claim.value \in
                                       QuotedNumbers(ChunkOf(citation), citation.quote)
                        /\ \A p \in pruned : \E v \in Validated :
                             /\ v.claim.id = p[1] /\ p[2] \in v.claim.ids
                             /\ v.citations # {}
                             /\ \A citation \in v.citations : citation.chunk # p[2]
    BY DEF CitationsSupport
  <2>2. ASSUME NEW v \in Validated, NEW citation \in v.citations, ~IsDerived(v.claim)
        PROVE  /\ citation.chunk \in v.claim.ids
               /\ \E c \in selected : c.id = citation.chunk /\ c.sound /\ ~c.subgroup
               /\ v.claim.value \in QuotedNumbers(ChunkOf(citation), citation.quote)
    <3>1. PICK i \in DOMAIN claims : v = claims[i]
      BY DEF Validated
    <3>2. Cites(v.claim, citation)
      BY <1>1, <2>2, <3>1 DEF ValidationInv, CitedInv
    <3>3. PICK c \in selected :
            /\ c.id = citation.chunk /\ c.sound /\ ~c.subgroup
            /\ v.claim.value \in QuotedNumbers(c, citation.quote)
      BY <1>1, <2>1, <3>2 DEF Cites, ValidationInv, AnswerInv, Answered
    <3>4. ChunkOf(citation) = c
      BY <1>1, <3>3, ChunkIsOne
    <3> QED
      BY <3>2, <3>3, <3>4 DEF Cites
  <2>3. \A v \in Validated : v.citations # {}
    BY <1>1, <2>1 DEF ValidationInv, AnswerInv, Validated, Answered
  <2>4. \A p \in pruned : \E v \in Validated :
          /\ v.claim.id = p[1] /\ p[2] \in v.claim.ids
          /\ v.citations # {} /\ \A citation \in v.citations : citation.chunk # p[2]
    BY <1>1 DEF ValidationInv, PrunedInv, Validated
  <2> QED
    BY <2>2, <2>3, <2>4
<1> QED
  BY <1>1, ValidationInvariant, PTL

\* A claim that the table store does not contradict is of a column it may mean.
LEMMA VerdictBinds ==
  ASSUME NEW claim, NEW chunk, TableYearVerdict(claim, chunk) # "contradicted"
  PROVE  BoundByTheStore(claim, chunk)
<1>1. SUFFICES ASSUME verified, Unnamed \notin {claim.region, claim.metric},
                      claim.year # NoYear \/ \A y, z \in claim.said : y = z,
                      HoldingColumns(claim, chunk) # {}
               PROVE  \E c \in HoldingColumns(claim, chunk) :
                        /\ Columns[c].year \in {NoYear} \cup ClaimedYears(claim)
                        /\ Columns[c].scope = IF claim.scope = Unnamed THEN "total" ELSE claim.scope
                        /\ Columns[c].metric = claim.metric
  BY DEF BoundByTheStore
<1> DEFINE holding == HoldingColumns(claim, chunk)
           residence == IF claim.scope = Unnamed THEN "total" ELSE claim.scope
           matching == {c \in holding : /\ Columns[c].scope = residence
                                        /\ Columns[c].metric = claim.metric}
<1>2. holding = {c \in DOMAIN Columns : \E r \in DOMAIN chunk.rows :
                   chunk.rows[r].own /\ chunk.rows[r].cells[c] = claim.value}
  BY DEF HoldingColumns
<1>3. TableYearVerdict(claim, chunk) =
        IF Unnamed \in {claim.region, claim.metric} \/ ~verified \/ holding = {} THEN "unknown"
        ELSE IF matching = {} THEN "contradicted"
        ELSE IF \E c \in matching : Columns[c].year = NoYear THEN "unknown"
        ELSE IF claim.year # NoYear /\ claim.said \notin {{}, {claim.year}} THEN "contradicted"
        ELSE IF HasWantedYear(claim, matching) THEN "confirmed" ELSE "contradicted"
  BY <1>2 DEF TableYearVerdict
<1>4. holding # {} /\ Unnamed \notin {claim.region, claim.metric}
  BY <1>1
<1> HIDE DEF holding
<1>5. (\E c \in matching : Columns[c].year = NoYear) \/ HasWantedYear(claim, matching)
  BY <1>1, <1>3, <1>4
<1>6. ASSUME HasWantedYear(claim, matching)
       PROVE  \E c \in matching : Columns[c].year \in ClaimedYears(claim)
  <2>1. CASE claim.year # NoYear
    <3>1. \E c \in matching : Columns[c].year = claim.year
      BY <1>6, <2>1 DEF HasWantedYear
    <3>2. ClaimedYears(claim) = {claim.year}
      BY <2>1 DEF ClaimedYears, ExpectedYears
    <3> QED
      BY <3>1, <3>2
  <2>2. CASE claim.year = NoYear /\ claim.said = {}
    <3>1. Cardinality(claim.said) # 1
      BY <2>2, FS_EmptySet
    <3>2. \E c \in matching : Columns[c].year = CorpusDefaultYear
      BY <1>6, <2>2, <3>1 DEF HasWantedYear
    <3>3. ClaimedYears(claim) = {CorpusDefaultYear}
      BY <2>2 DEF ClaimedYears, ExpectedYears
    <3> QED
      BY <3>2, <3>3
  <2>3. CASE claim.year = NoYear /\ claim.said # {}
    <3>1. PICK y : claim.said = {y}
      BY <1>1, <2>3
    <3>2. Cardinality(claim.said) = 1 /\ (CHOOSE z \in claim.said : TRUE) = y
      BY <3>1, FS_Singleton
    <3>3. \E c \in matching : Columns[c].year = y
      BY <1>6, <2>3, <3>2 DEF HasWantedYear
    <3>4. ClaimedYears(claim) = {y}
      BY <2>3, <3>1 DEF ClaimedYears, ExpectedYears
    <3> QED
      BY <3>3, <3>4
  <2> QED
    BY <2>1, <2>2, <2>3
<1>7. PICK c \in matching : Columns[c].year \in {NoYear} \cup ClaimedYears(claim)
  BY <1>5, <1>6
<1> QED
  BY <1>7 DEF holding

\* years.py, quotes.py: whatever was drafted and whatever the table store answered, a usable
\* store finds the value of a bound claim in a column of its measure, residence and year, and no
\* quoted table shows it only under other years.
THEOREM YearsAreColumns == Spec => []YearIsColumn
<1>1. ASSUME ValidationInv PROVE YearIsColumn
  <2>1. SUFFICES ASSUME Answered, NEW v \in Validated, ~IsDerived(v.claim),
                        NEW citation \in v.citations
                 PROVE  /\ BoundByTheStore(v.claim, ChunkOf(citation))
                        /\ BoundByTheQuote(v.claim, ChunkOf(citation), citation.quote)
    BY DEF YearIsColumn
  <2>2. PICK i \in DOMAIN claims : v = claims[i]
    BY DEF Validated
  <2>3. Cites(v.claim, citation) /\ SourcesAreDistinct
    BY <1>1, <2>1, <2>2 DEF ValidationInv, CitedInv, AnswerInv, Answered
  <2>4. PICK chunk \in selected : /\ chunk.id = citation.chunk
                                  /\ TableYearVerdict(v.claim, chunk) # "contradicted"
                                  /\ BoundByTheQuote(v.claim, chunk, citation.quote)
    BY <2>3 DEF Cites
  <2>5. ChunkOf(citation) = chunk
    BY <1>1, <2>4, ChunkIsOne
  <2> QED
    BY <2>4, <2>5, VerdictBinds
<1> QED
  BY <1>1, ValidationInvariant, PTL

\* calculations.py: every derived claim of an answer states the difference of two numbers of
\* the evidence and cites exactly what its inputs cite, unless its ID is taken; in a comparison
\* the inputs are source claims of the answer that state its operands, and a quote it cites
\* shows each operand such a claim takes from a chunk.
THEOREM DerivedClaimsRest == Spec => []DerivedRestsOnInputs
<1>1. ASSUME ValidationInv PROVE DerivedRestsOnInputs
  <2> DEFINE In(v) == {w \in Validated : w.claim.id \in Range(v.claim.derivation.inputs)}
  <2>1. SUFFICES ASSUME Answered, NEW v \in Validated, IsDerived(v.claim)
                 PROVE  /\ IsDifference(v.claim)
                        /\ DerivedIdsAreOwn =>
                             /\ v.citations = UNION {w.citations : w \in In(v)}
                             /\ \A w \in In(v) : w.citations # {}
                             /\ targets # <<>> /\ v.claim.derived =>
                                  /\ Range(v.claim.derivation.operands) =
                                       {w.claim.value : w \in In(v)}
                                  /\ \A w \in In(v) :
                                       /\ ~w.claim.derived
                                       /\ ~IsDerived(w.claim) => \E x \in v.citations :
                                            w.claim.value \in QuotedNumbers(ChunkOf(x), x.quote)
    BY DEF DerivedRestsOnInputs, IsDifference, IsRetrieved
  <2>2. PICK n \in DOMAIN claims : v = claims[n]
    BY DEF Validated
  <2>3. /\ IsDifference(v.claim)
        /\ ClaimsAreDistinct => CitesInputs(v.claim, v.citations)
    BY <1>1, <2>1, <2>2 DEF ValidationInv, DerivedInv, OrderInv, Answered
  <2>4. \A w \in In(v) : \E i \in InputsOf(v.claim) : w = claims[i]
    BY DEF Validated, InputsOf
  <2>5. \A i \in InputsOf(v.claim) : claims[i] \in In(v)
    BY DEF Validated, InputsOf
  <2>6. PICK S : claims \in Seq(S)
    BY <1>1 DEF ValidationInv, OrderInv
  <2>7. /\ IsSequence(draft) /\ DOMAIN claims = DOMAIN draft
        /\ \A i \in DOMAIN claims : claims[i].claim = draft[i]
    BY <1>1, <2>1, <2>6 DEF ValidationInv, OrderInv, Answered, IsSequence
  <2>8. ASSUME ClaimsAreDistinct, targets # <<>>, v.claim.derived
        PROVE  /\ Range(v.claim.derivation.operands) = {w.claim.value : w \in In(v)}
               /\ \A w \in In(v) : ~w.claim.derived
    <3>1. RestsOnClaims(draft[n], draft) /\ v.claim = draft[n]
      BY <1>1, <2>1, <2>2, <2>7, <2>8 DEF ValidationInv, DraftInv, Answered
    <3>2. PICK l, r \in DOMAIN draft :
            /\ ~draft[l].derived /\ ~draft[r].derived
            /\ v.claim.derivation.inputs = <<draft[l].id, draft[r].id>>
            /\ v.claim.derivation.operands = <<draft[l].value, draft[r].value>>
      BY <3>1 DEF RestsOnClaims
    <3>3. /\ Range(v.claim.derivation.inputs) = {draft[l].id, draft[r].id}
          /\ Range(v.claim.derivation.operands) = {draft[l].value, draft[r].value}
      BY <3>2 DEF Range
    <3>4. InputsOf(v.claim) = {l, r}
      BY <2>7, <2>8, <3>2, <3>3 DEF InputsOf, ClaimsAreDistinct
    <3>5. In(v) = {claims[l], claims[r]}
      BY <2>4, <2>5, <3>4
    <3>6. claims[l].claim = draft[l] /\ claims[r].claim = draft[r]
      BY <2>7, <3>2
    <3> QED
      BY <3>2, <3>3, <3>5, <3>6
  <2>9. ASSUME ClaimsAreDistinct
        PROVE  /\ v.citations = UNION {w.citations : w \in In(v)}
               /\ \A w \in In(v) : w.citations # {}
    <3>1. /\ \A i \in InputsOf(v.claim) : claims[i].citations # {}
          /\ v.citations = UNION {claims[i].citations : i \in InputsOf(v.claim)}
      BY <2>3, <2>9 DEF CitesInputs
    <3> HIDE DEF In
    <3> QED
      BY <2>4, <2>5, <3>1
  <2>10. ASSUME ClaimsAreDistinct, NEW w \in In(v), ~IsDerived(w.claim)
         PROVE  \E x \in v.citations : w.claim.value \in QuotedNumbers(ChunkOf(x), x.quote)
    <3>1. PICK i \in DOMAIN claims : w = claims[i]
      BY <2>4 DEF InputsOf
    <3>2. PICK x \in w.citations : x \in v.citations
      BY <2>9, <2>10
    <3>3. Cites(w.claim, x) /\ SourcesAreDistinct
      BY <1>1, <2>1, <2>10, <3>1, <3>2 DEF ValidationInv, CitedInv, AnswerInv, Answered
    <3>4. PICK c \in selected : c.id = x.chunk /\ w.claim.value \in QuotedNumbers(c, x.quote)
      BY <3>3 DEF Cites
    <3>5. ChunkOf(x) = c
      BY <1>1, <3>4, ChunkIsOne
    <3> QED
      BY <3>2, <3>4, <3>5
  <2>11. DerivedIdsAreOwn => ClaimsAreDistinct
    BY <1>1, <2>1 DEF DerivedIdsAreOwn, ClaimsAreDistinct, SourcesAreDistinct, ValidationInv,
                      AnswerInv, Answered
  <2> HIDE DEF In
  <2> QED
    BY <2>3, <2>8, <2>9, <2>10, <2>11
<1> QED
  BY <1>1, ValidationInvariant, PTL

=============================================================================
