----------------------------- MODULE MCDataset -----------------------------
(* Small documents and requests for TLC: two entities or two regions, three columns a year, of *)
(* residences or of the sexes.                                                                 *)
EXTENDS Dataset

Header(cells) == [is |-> "header", cells |-> cells, label |-> None]
Data(label, cells) == [is |-> "data", cells |-> <<0>> \o cells, label |-> label]

Top == Header(<<{"district"}, {"literacy", "2011"}, {}, {}>>)
TopOfTwoYears == Header(<<{"district"}, {"literacy", "2011"}, {}, {}, {"2001"}, {}, {}>>)
TopOfPairs == Header(<<{"district"}, {"literacy", "2011"}, {}, {"2001"}, {}>>)
Index == Header(<<{"statement"}, {"literacy"}, {}, {}>>)
TopOfTotal == Header(<<{"district"}, {"literacy", "2011", "total"}, {}, {}>>)
Sub == Header(<<{}, {"total"}, {"rural"}, {"urban"}>>)
SubOfSexes == Header(<<{}, {"persons"}, {"male"}, {"female"}>>)

Of(year, residence, group) ==
  [year |-> year, residence |-> residence, group |-> group, unit |-> "percent"]
NoColumn == Of(None, None, None)
Three(year) == [n \in 1..3 |-> Of(year, Residences[n], None)]
Sexes(residence) == [n \in 1..3 |-> Of("2011", residence, <<"persons", "male", "female">>[n])]
Fragment(id, region, table, lines, means) ==
  [id |-> id, region |-> region, table |-> table, section |-> table, title |-> {}, of |-> {},
   trusted |-> TRUE, contents |-> FALSE, says |-> {"percent", "persons"}, lines |-> lines,
   means |-> <<NoColumn>> \o means, width |-> Len(means) + 1]

First(id, region, rows_) == Fragment(id, region, "t", <<Top, Sub>> \o rows_, Three("2011"))
Later(id, region, rows_) == Fragment(id, region, "t", <<Top>> \o rows_, Three("2011"))
TwoYears(id, region, rows_) ==
  Fragment(id, region, "u", <<TopOfTwoYears>> \o rows_, Three("2011") \o Three("2001"))
Pairs(id, region, rows_) ==
  Fragment(id, region, "v", <<TopOfPairs>> \o rows_,
           <<Of("2011", "total", None), Of("2011", "urban", None), Of("2001", "total", None),
             Of("2001", "urban", None)>>)
\* A table of persons, males and females: of no residence, or of the total in all three columns.
FirstOfSexes(id, region, rows_) ==
  Fragment(id, region, "p", <<Top, SubOfSexes>> \o rows_, Sexes(None))
LaterOfSexes(id, region, rows_) == Fragment(id, region, "p", <<Top>> \o rows_, Sexes(None))
TotalOfSexes(id, region, rows_) ==
  Fragment(id, region, "p", <<TopOfTotal, SubOfSexes>> \o rows_, Sexes("total"))
\* The same entities' table of a subgroup, which only the title in a chunk of its own tells.
OfTribes(chunk) == [chunk EXCEPT !.table = "s", !.section = "s", !.of = {"tribes"}]
Title(words, region) ==
  [Fragment("c0", region, "s", <<>>, <<>>) EXCEPT !.title = words, !.says = {}]

a == Data("a", <<1, 3, 2>>)
b == Data("b", <<2, 1, 1>>)
Region == Data("A", <<2, 2, 3>>)
Other == Data("B", <<3, 1, 2>>)

Whole == <<First("c1", "A", <<Region, a, b>>)>>
Tribal ==
  <<First("c1", "A", <<a, Region>>), OfTribes(Later("c2", "A", <<a, b>>)),
    Title({"literacy", "tribes"}, "A")>>

TribalRegion ==
  <<First("c1", "A", <<Region>>), OfTribes(Later("c2", "A", <<Data("A", <<1, 3, 1>>)>>)),
    Title({"literacy", "tribes"}, "A")>>

\* The table of the districts: whole, split, of two years, in pairs; next to others that list them.
Ranked ==
  {Whole, Tribal,
   <<First("c1", "A", <<Region, a>>), Later("c2", "A", <<b>>)>>,
   <<TwoYears("c1", "A", <<Data("a", <<1, 3, 2, 2, 2, 3>>), Data("b", <<2, 1, 3, 3, 1, 1>>)>>)>>,
   <<Pairs("c1", "A", <<Data("a", <<1, 2, 3, 1>>), Data("b", <<2, 1, 1, 3>>)>>)>>,
   <<First("c1", "A", <<a, b>>),
     [Fragment("c2", "A", "contents", <<Index, Data("page", <<1, 2, 3>>)>>,
              <<NoColumn, NoColumn, NoColumn>>)
        EXCEPT !.contents = TRUE]>>,
   <<First("c1", "A", <<Region>>)>>,
   <<First("c1", "A", <<a, b>>), [Later("c2", "A", <<a>>) EXCEPT !.trusted = FALSE]>>}

\* The same with columns of the sexes.
Sexed ==
  {<<FirstOfSexes("c1", "A", <<Region, a>>), LaterOfSexes("c2", "A", <<b>>)>>,
   <<TotalOfSexes("c1", "A", <<a, b>>)>>}

Compared ==
  {<<First("c1", "A", <<Region, a>>), First("c2", "B", <<Other>>)>>,
   <<Later("c1", "A", <<Region>>), [Later("c2", "B", <<Other>>) EXCEPT !.says = {"percent"}]>>,
   <<FirstOfSexes("c1", "A", <<Region>>), LaterOfSexes("c2", "B", <<Other>>)>>}

Given ==
  [metric |-> {"literacy"}, year |-> None, population |-> {}, residence |-> None, regions |-> {},
   rank |-> FALSE, direction |-> "max"]
Ranking == [Given EXCEPT !.rank = TRUE]

Ask(given, words, regions, document, records) ==
  [given |-> given, words |-> words, regions |-> regions, document |-> document,
   records |-> records, metric |-> {"literacy"}, year |-> None]

\* The records of the districts' lines in Whole.
Lines == <<[chunk |-> 1, line |-> 4], [chunk |-> 1, line |-> 5]>>
Unitless == <<[Whole[1] EXCEPT !.means = [c \in DOMAIN @ |-> [@[c] EXCEPT !.unit = None]]]>>
WholeOfSexes == <<FirstOfSexes("c1", "A", <<Region, a, b>>)>>

MCRequests ==
  {Ask(<<[Ranking EXCEPT !.residence = "rural", !.direction = d]>>, w, {"A"}, e, <<>>) :
     w \in {{"total"}, {"rural"}}, d \in {"max", "min"}, e \in Ranked}
  \cup {Ask(<<[Ranking EXCEPT !.metric = m, !.population = p]>>, {}, {"A"}, e, <<>>) :
          m \in {{"literacy"}, {"literacy", "tribes"}}, p \in {{"total"}, {"male"}, {"tribes"}},
          e \in {Whole, Tribal}}
  \cup {Ask(<<[Ranking EXCEPT !.population = p]>>, w, {"A"}, e, <<>>) :
          p \in {{}, {"male"}}, w \in {{}, {"rural"}}, e \in Sexed}
  \cup {Ask(<<[Ranking EXCEPT !.year = y]>>, {}, {"A"}, Whole, Lines) :
          y \in {None, "2001"}}
  \cup {Ask(<<[Ranking EXCEPT !.population = p]>>, w, {"A"}, WholeOfSexes, Lines) :
          p \in {{}, {"male"}}, w \in {{}, {"rural"}}}
  \cup {Ask(<<Ranking>>, {}, {"A"}, Unitless, Lines)}
  \cup {Ask(<<[Given EXCEPT !.population = p]>>, {}, {"A"}, TribalRegion, <<>>) :
          p \in {{"tribes"}, {"tribes", "male"}, {"male", "female"}}}
  \cup {Ask(<<>>, {"persons"}, {"A"}, TribalRegion, <<>>),
        [Ask(<<>>, {}, {"A"}, <<TwoYears("c1", "A", <<Data("A", <<1, 3, 2, 2, 2, 3>>)>>)>>, <<>>)
           EXCEPT !.year = "2001"]}
  \cup {Ask(g, w, r, e, <<>>) :
          g \in {<<>>, <<[Given EXCEPT !.year = "2011", !.residence = "rural",
                                       !.population = {"total", "persons"}]>>},
          w \in {{}, {"rural"}, {"total", "rural"}}, r \in {{"A"}, {"A", "B"}}, e \in Compared}
  \cup {Ask(<<Ranking>>, {"total", "rural"}, {"A"}, Whole, <<>>),
        Ask(<<Ranking>>, {"rural", "urban"}, {"A"}, Whole, Lines)}

Proposal(label, value, id, residence, series) ==
  [label |-> label, value |-> value, id |-> id, residence |-> residence, series |-> series,
   unit |-> "percent", year |-> None, population |-> {}]

MCProposed ==
  {Proposal(label, value, id, residence, series) :
     label \in {"a", "b", "A", "B", "page"}, value \in 1..3, id \in {"c1", "c2", Garbled},
     residence \in {None, "rural"}, series \in {None, "total"}}
  \cup {[Proposal(label, value, "c1", None, None) EXCEPT !.unit = u] :
          label \in {"a", "A"}, value \in 1..3, u \in {None, "persons"}}
  \cup {[Proposal("a", value, "c1", None, None) EXCEPT !.year = "2001"] : value \in 1..3}
  \cup {[Proposal("a", value, "c1", None, None) EXCEPT !.population = {"female"}] : value \in 1..3}
=============================================================================
