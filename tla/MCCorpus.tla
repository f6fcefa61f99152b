------------------------------ MODULE MCCorpus ------------------------------
(* Small documents for TLC: two or three pages of statement tables and paragraphs. *)
EXTENDS Corpus

Title(subgroups, year) == [subgroups |-> subgroups, year |-> year, short |-> TRUE]
Untitled == Title({}, Blank)
OfAll == Title({}, "2011")
OfTribes == Title({"tribes"}, "2011")

Text(kind, says, number, titled, title, level) ==
  [kind |-> kind, says |-> says, number |-> number, titled |-> titled, title |-> title,
   level |-> level, lines |-> <<>>, of |-> None, means |-> <<>>]

Heading(title, level) == Text("heading", "title", None, FALSE, title, level)
Statement(n, title) == Text("heading", "statement", n, TRUE, title, 2)
StatementAlone(n) == Text("para", "statement", n, FALSE, Untitled, 0)
TitleLine(title) == Text("para", "title", None, FALSE, title, 0)
Graph == Text("para", "graph", None, FALSE, Untitled, 0)
Prose(n) == Text("para", "text", n, FALSE, Untitled, 0)

Line(is, cells, bare, label, aggregate) ==
  [is |-> is, cells |-> cells, bare |-> bare, label |-> label, aggregate |-> aggregate]
HeadLine(cells) == Line("sub", cells, FALSE, Blank, FALSE)
\* A second header row of years has bare numbers: later fragments do not repeat it.
YearsLine(cells) == Line("sub", cells, TRUE, Blank, FALSE)
Numbers == Line("numbers", <<"1", "2", "3">>, TRUE, Blank, FALSE)
Row(label, a, b) == Line("data", <<label, a, b>>, TRUE, label, FALSE)
Sum == Line("data", <<"region", "9", "9">>, TRUE, "region", TRUE)
Broken == Line("data", <<"d", "1">>, TRUE, "d", FALSE)

Means(year, residence, subgroups, metric) ==
  [year |-> year, residence |-> residence, subgroups |-> subgroups, metric |-> metric]

Table(of, lines, b, c) ==
  [Text("table", "table", None, FALSE, Untitled, 0) EXCEPT
     !.lines = lines, !.of = of, !.means = <<b, b, c>>]

\* Three shapes of header: by year, by residence, and two metrics of which one names its year.
ByYear(of, subgroups, rows) ==
  Table(of, <<HeadLine(<<"district", "literacy", "">>), YearsLine(<<"", "2001", "2011">>), Numbers>> \o rows,
        Means("2001", None, subgroups, {"literacy"}), Means("2011", None, subgroups, {"literacy"}))
ByResidence(of, title, rows) ==
  Table(of, <<HeadLine(<<"district", "literacy", "">>), HeadLine(<<"", "total", "rural">>), Numbers>> \o rows,
        Means(title.year, "total", title.subgroups, {"literacy"}),
        Means(title.year, "rural", title.subgroups, {"literacy"}))
TwoMetrics(of, title, rows) ==
  Table(of, <<HeadLine(<<"district", "literacy", "work">>), YearsLine(<<"", "2001", "">>), Numbers>> \o rows,
        Means("2001", None, title.subgroups, {"literacy"}),
        Means(title.year, None, title.subgroups, {"work"}))
OneOfTwoWords(of, title, rows) ==
  Table(of, <<HeadLine(<<"district", "literacy", "">>), HeadLine(<<"", "rate", "rural">>), Numbers>> \o rows,
        Means(title.year, None, title.subgroups, {"literacy", "rate"}),
        Means(title.year, "rural", title.subgroups, {"literacy"}))

a == Row("a", "1", "2")
b == Row("b", "3", "4")
c == Row("c", "5", "6")
Rows == <<a, b, Sum>>

FirstPages ==
  {<<Heading(OfAll, 1), Statement("5", OfAll), ByResidence("5", OfAll, rows), Prose("p")>> : rows \in {Rows, <<a, b, c, Sum>>}}
    \cup {<<Statement("5", Untitled), ByYear("5", {}, <<a, b>>), Graph, ByYear("x", {}, <<a>>)>>,
          <<StatementAlone("5"), TitleLine(OfTribes), ByYear("5", {"tribes"}, <<a, b, Sum>>)>>,
          <<Prose("p"), Statement("5", OfAll), TwoMetrics("5", OfAll, <<a, b>>)>>,
          <<Statement("5", OfAll), ByResidence("5", OfAll, <<a, b>>), Prose("p"), ByResidence("5", OfAll, <<a>>)>>,
          <<Heading(OfAll, 3), ByResidence("5", OfAll, <<a, b, Broken>>), Heading(Untitled, 2), Prose("p")>>,
          <<Prose("p"), Prose("q"), Prose("r"), Prose("s"), Prose("t")>>}

\* A table goes on without a heading, or under its statement repeated whole; another follows; the
\* same table is printed once more, with the same values or with others.
SecondPages ==
  {<<>>, <<ByResidence("5", OfAll, <<c>>)>>, <<ByYear("5", {"tribes"}, <<c>>), Prose("q")>>,
   <<Statement("5", OfAll), ByResidence("5b", OfAll, Rows)>>,
   <<Statement("6", OfAll), ByResidence("6", OfAll, <<a, c>>)>>,
   <<Statement("6", OfTribes), ByResidence("6", OfTribes, <<b, c, Sum>>)>>,
   <<Statement("8", OfAll), OneOfTwoWords("8", OfAll, <<a, c>>)>>,
   <<Heading(OfAll, 1), TwoMetrics("7", OfAll, <<a, Row("b", "3", ""), c>>)>>}

\* Not regular: a title too long to be read, a heading that repeats the statement without its title.
Irregular ==
  {<<Statement("6", [OfTribes EXCEPT !.short = FALSE]), ByYear("6", {"tribes"}, <<b, c>>)>>,
   <<StatementAlone("5"), TitleLine(Untitled), ByYear("5", {"tribes"}, <<c, a>>)>>}

\* A graph's table has no column numbers: it is indexed, whole when it has no number, and not parsed.
Words(n) == HeadLine(<<n, "work", "">>)
ThirdPage == <<Prose("z"), Graph, [Table("z", <<Words("1st"), Words("2nd"), Words("3rd"), Words("4th"), Words("5th")>>, None, None) EXCEPT !.means = <<>>]>>

Of(p, blocks) == [of |-> p, blocks |-> blocks]

Markdown(kind, texts) ==
  [kind |-> kind, texts |-> texts, declared |-> 3, skipped |-> {}, converted |-> Len(texts),
   marks |-> <<>>, best |-> <<>>]

Document(pdf, markdown) ==
  [pdf |-> pdf, markdown |-> markdown, decisions |-> <<>>, transcriptions |-> <<>>,
   override |-> FALSE, regular |-> TRUE]

\* A table continues the table it is a part of, or is printed under a heading of its own.
Fits(first, second) ==
  /\ second = <<ByResidence("5", OfAll, <<c>>)>> =>
       first[Len(first) - 1].kind = "table" /\ first[Len(first) - 1].of = "5"
       /\ first[Len(first) - 1].lines[1] = second[1].lines[1] /\ first[Len(first) - 1].lines[2] = second[1].lines[2]
  /\ second = <<ByYear("5", {"tribes"}, <<c>>), Prose("q")>> =>
       first[Len(first)].kind = "table" /\ first[Len(first)].means[2].subgroups = {"tribes"}

Pdf(first, second) == <<Of(1, first), Of(2, second), Of(3, ThirdPage)>>

Whole(pdf) ==
  LET three == Markdown("converter", pdf)
      skips == [three EXCEPT !.texts = <<pdf[1], pdf[3]>>, !.skipped = {2}, !.converted = 2]
  IN  {three, Markdown("none", <<>>), skips,
       [three EXCEPT !.skipped = {2}], [three EXCEPT !.converted = 2], [three EXCEPT !.declared = 4],
       [skips EXCEPT !.skipped = {4}], [skips EXCEPT !.skipped = {}],
       [skips EXCEPT !.skipped = {1}],
       [Markdown("markers", pdf) EXCEPT !.marks = <<1, 2, 3>>],
       [Markdown("markers", pdf) EXCEPT !.marks = <<1, 1, 3>>],
       [Markdown("markers", pdf) EXCEPT !.marks = <<0, 1, 2>>],
       [Markdown("markers", <<pdf[1], pdf[3]>>) EXCEPT !.marks = <<1, 3>>],
       [Markdown("unmarked", pdf) EXCEPT !.best = <<1, 2, 3>>],
       [Markdown("unmarked", pdf) EXCEPT !.best = <<1, 0, 3>>]}

Plain(pdf) == Document(pdf, Markdown("converter", pdf))

MCDocuments ==
  LET pdfs == {Pdf(first, second) : first \in FirstPages, second \in SecondPages}
      fitting == {pdf \in pdfs : Fits(pdf[1].blocks, pdf[2].blocks)}
      one == CHOOSE pdf \in fitting : pdf[2].blocks = <<Statement("6", OfTribes), ByResidence("6", OfTribes, <<b, c, Sum>>)>>
  IN  {Plain(pdf) : pdf \in fitting}
      \cup {Document(one, md) : md \in Whole(one)}
      \cup {[Document(one, md) EXCEPT !.override = TRUE] : md \in Whole(one)}
      \cup {[Plain(one) EXCEPT !.decisions = d, !.transcriptions = t] :
              d \in {<<>>, (2 :> "excluded_unverified_visual"), (4 :> "excluded_blank")},
              t \in {<<>>, (2 :> Of(2, <<Prose("read by hand")>>)), (1 :> one[1])}}
      \cup {[Plain(Pdf(first, second)) EXCEPT !.regular = FALSE] :
              first \in FirstPages, second \in Irregular}

MCWanted ==
  {[metric |-> {m}, year |-> y, residence |-> r, subgroups |-> s] :
     m \in {"literacy", "work"}, y \in {"2001", "2011"}, r \in {None, "total", "rural"}, s \in {{}, {"tribes"}}}
=============================================================================
