----------------------------- MODULE MCAnswers -----------------------------
(* Small evidence lists and drafts for TLC: two regions, three table columns. *)
EXTENDS Answers

MCColumns == <<[year |-> 2011, scope |-> "total", metric |-> "rate"],
               [year |-> 2001, scope |-> "total", metric |-> "rate"],
               [year |-> 2011, scope |-> "rural", metric |-> "rate"]>>

Row(own, cells) == [own |-> own, cells |-> cells]

Shape(id, region, rows, prints, sentences) ==
  [id |-> id, region |-> region, rows |-> rows, prints |-> prints, sentences |-> sentences,
   title |-> {"total"}, size |-> 2, rank |-> 1, sound |-> TRUE, subgroup |-> FALSE]

Whole(id, region) == Shape(id, region, <<Row(TRUE, <<2, 1, 1>>)>>, {"years", "scopes"}, {})
\* A later fragment repeats the first header line only; a district's row comes first.
Fragment(id, region) ==
  Shape(id, region, <<Row(FALSE, <<1, 3, 3>>), Row(TRUE, <<2, 1, 3>>)>>, {"scopes"}, {})
Prose(id, region) ==
  [Shape(id, region, <<>>, {}, {[value |-> 2, years |-> {}], [value |-> 1, years |-> {2001}]})
     EXCEPT !.size = 1, !.rank = 2]
Subgroup(id, region) == [Whole(id, region) EXCEPT !.subgroup = TRUE, !.size = 3]
Excluded(id, region) == [Whole(id, region) EXCEPT !.sound = FALSE]

MCRetrievals ==
  {<<x, y>> : x \in {Whole("a", "A"), Fragment("a", "A")}, y \in {Whole("b", "B"), Prose("b", "B")}}
    \cup {<<Whole("a", "A"), [Whole("b", "B") EXCEPT !.size = 4]>>}
    \cup {<<x, y, z>> : x \in {Whole("a", "A"), Fragment("a", "A")}, y \in {Fragment("b", "B")},
                        z \in {Prose("c", "A"), Subgroup("c", "A"), Excluded("c", "A"), Prose("c", "C")}}

MCTargetLists == {<<>>, <<"A", "B">>}
MCYearSets == {{}, {2001}}

Claim(id, value, year, said, scope, ids) ==
  [id |-> id, value |-> value, year |-> year, said |-> said, region |-> Unnamed, scope |-> scope,
   metric |-> "rate", ids |-> ids, derived |-> FALSE, derivation |-> NoDerivation]

MCRequests == {<<>>, <<[operands |-> <<2, 1>>, ids |-> {"a", "b"}]>>,
               \* 7 is no number of the evidence.
               <<[operands |-> <<7, 1>>, ids |-> {"a", "b"}]>>,
               <<[operands |-> <<1, 2>>, ids |-> {"a", "b"}], [operands |-> <<2, 2>>, ids |-> {"a", "b"}]>>}

\* The model may state a derivation of its own, on claims that do not state its operands.
Authored == [Claim(9, 1, 0, {}, Unnamed, {"a", "b"}) EXCEPT
               !.derivation = [operands |-> <<2, 1>>, result |-> 1, inputs |-> <<1, 2>>]]

Pair(v, y, s, p, ids, w) ==
  <<Claim(1, v, y, s, p, ids), Claim(2, w, 0, {}, Unnamed, {"b"})>>

MCDrafts ==
  {Pair(v, y, s, Unnamed, ids, w) : v \in {1, 2}, y \in {0, 2001, 2011}, s \in {{}, {2001}},
     ids \in {{"a"}, {"a", "c"}, {"a", "b"}}, w \in {1, 2}}
    \cup {Pair(v, y, {}, "rural", {"a", "c"}, 1) : v \in {1, 2, 3}, y \in {0, 2011}}
    \cup {Pair(v, 0, {}, Unnamed, {"a"}, w) \o <<extra>> : v \in {1, 2}, w \in {1, 2},
            extra \in {Authored, [Authored EXCEPT !.derived = TRUE],
                       [Authored EXCEPT !.derivation.result = 2], Claim(3, 2, 0, {}, Unnamed, {"a"})}}
    \cup {Pair(2, 0, {}, Unnamed, {"a"}, 1) \o
            <<[Authored EXCEPT !.value = 6, !.derivation.operands = <<7, 1>>, !.derivation.result = 6]>>}
    \* A claim of no metric or of one no column has, and one that takes the ID of a derived claim.
    \cup {[d EXCEPT ![1].metric = m] : m \in {Unnamed, "count"},
            d \in {Pair(v, y, {}, Unnamed, {"a"}, 1) : v \in {1, 2}, y \in {0, 2011}}}
    \cup {[Pair(v, 0, {}, Unnamed, {"a"}, 1) EXCEPT ![1].id = 101] : v \in {1, 2}}
    \* Two claims of one ID, and a claim that names two years in its text.
    \cup {<<Claim(1, v, 0, {}, Unnamed, ids), Claim(1, w, 0, {}, Unnamed, {"b"})>> :
            v, w \in {1, 2}, ids \in {{"a"}, {"b"}}}
    \cup {Pair(v, 0, {1991, 2001}, Unnamed, {"a"}, 1) : v \in {1, 2}}
=============================================================================
