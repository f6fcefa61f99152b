------------------------------- MODULE Corpus -------------------------------
(***************************************************************************)
(* One document from its Markdown to a table column: pages are mapped to   *)
(* the PDF, split into blocks and chunks, the statement tables are         *)
(* extracted and their rows bound to chunks, and one column is selected.   *)
(*                                                                         *)
(* Text is reduced to blocks. A table is its header lines, whose cells are *)
(* words or blank, the line of column numbers and its data lines; sizes    *)
(* are counted in lines. The ground truth (which page a text really is of) *)
(* is carried along and read by the properties only.                       *)
(***************************************************************************)
EXTENDS Integers, Sequences, FiniteSets, SequencesExt

CONSTANTS
  Documents,  \* the documents ingested: see MCCorpus
  Wanted,     \* the columns a request may ask for
  MaxLines    \* max_characters of a chunk, in lines

Years == {"2001", "2011"}
Residences == {"total", "rural"}
Subgroups == {"tribes"}
Indexed == {"indexed_provided_markdown", "indexed_pymupdf4llm_fallback", "approved_manual_transcription"}
Statuses == Indexed \cup {"excluded_blank", "excluded_unverified_visual", "failed_page_mapping"}
Blank == ""
NoTitle == [subgroups |-> {}, year |-> Blank, short |-> FALSE]
None == "none"

VARIABLES
  phase, doc,                   \* the document; phase says which step is next
  mapped, pages,                \* the Markdown of each page, and the pages mapped so far
  at, path, buffer, chunks,     \* the chunker
  context, current, tables,     \* the extraction: statement, title, table in progress
  selection                     \* the selected column

mapping == <<mapped, pages>>
chunker == <<path, buffer, chunks>>
extraction == <<context, current, tables>>
vars == <<phase, doc, mapping, at, chunker, extraction, selection>>

Fail == phase' = "failed"

-----------------------------------------------------------------------------
(* Pages. A text is [of |-> the page it is really of, blocks |-> its blocks]. *)

PageCount == Len(doc.pdf)
PageNumbers == 1..PageCount

\* The converter's blocks are given to the pages it does not list as skipped, in order;
\* its counts must agree with the PDF, with the list and with the blocks.
ConverterAgrees(md) ==
  /\ md.declared = PageCount
  /\ md.skipped \subseteq PageNumbers
  /\ md.converted = PageCount - Cardinality(md.skipped)
  /\ Len(md.texts) = md.converted

\* A mutant: the skipped pages are counted and not left out.
ConverterPagesInOrder(md) == [p \in DOMAIN md.texts |-> md.texts[p]]

ConverterPages(md) ==
  LET kept == SetToSortSeq(PageNumbers \ md.skipped, <)
  IN  [p \in Range(kept) |-> md.texts[CHOOSE i \in DOMAIN kept : kept[i] = p]]

\* Markers name their pages; a page marked twice or outside the PDF is a problem.
MarkedPages(md) ==
  [p \in {md.marks[i] : i \in DOMAIN md.marks} \cap PageNumbers |->
     md.texts[CHOOSE i \in DOMAIN md.marks : md.marks[i] = p]]
MarkersAgree(md) == IsInjective(md.marks) /\ Range(md.marks) \subseteq PageNumbers

\* Unmarked text goes to the page it matches, when one page matches confidently.
Aligned(md) ==
  [p \in {md.best[i] : i \in DOMAIN md.best} \ {0} |->
     md.texts[CHOOSE i \in DOMAIN md.best : md.best[i] = p]]
AllAligned(md) == 0 \notin Range(md.best)

Resolved(md) ==
  CASE md.kind = "markers" -> MarkersAgree(md)
    [] md.kind = "unmarked" -> AllAligned(md)
    [] OTHER -> TRUE

MarkdownPages(md) ==
  CASE md.kind = "converter" -> ConverterPages(md)
    [] md.kind = "markers" -> MarkedPages(md)
    [] md.kind = "unmarked" -> Aligned(md)
    [] OTHER -> <<>>

\* A document that cannot be mapped still gives every page its status.
NoText(p) == [of |-> p, blocks |-> <<>>]
FailedPages ==
  [p \in PageNumbers |->
     [number |-> p, text |-> NoText(p),
      status |-> IF p \in DOMAIN doc.transcriptions THEN "approved_manual_transcription"
                 ELSE IF p \in DOMAIN doc.decisions THEN doc.decisions[p]
                 ELSE "failed_page_mapping"]]

\* The Markdown as a whole: refused, set aside under review, or mapped.
MapMarkdown ==
  /\ phase = "map" /\ pages = <<>> /\ mapped = <<>>
  /\ LET md == doc.markdown
     IN  IF \/ ~(DOMAIN doc.decisions \cup DOMAIN doc.transcriptions \subseteq PageNumbers)
            \/ md.kind = "converter" /\ ~ConverterAgrees(md)
            \/ ~Resolved(md) /\ ~doc.override
         THEN Fail /\ pages' = FailedPages /\ UNCHANGED mapped
         ELSE /\ mapped' = IF Resolved(md) THEN MarkdownPages(md) ELSE <<>>
              /\ phase' = "pages" /\ UNCHANGED pages
  /\ UNCHANGED <<doc, at, chunker, extraction, selection>>

\* A reviewed transcription or exclusion comes first, then the Markdown, then the PDF itself.
MappedPage(p) ==
  LET Page(status, text) == [number |-> p, status |-> status, text |-> text]
  IN  IF p \in DOMAIN doc.transcriptions
        THEN Page("approved_manual_transcription", doc.transcriptions[p])
      ELSE IF p \in DOMAIN doc.decisions THEN Page(doc.decisions[p], NoText(p))
      ELSE IF p \in DOMAIN mapped /\ mapped[p].blocks # <<>>
        THEN Page("indexed_provided_markdown", mapped[p])
      ELSE IF doc.pdf[p].blocks # <<>> THEN Page("indexed_pymupdf4llm_fallback", doc.pdf[p])
      ELSE Page("failed_page_mapping", NoText(p))

MapPage ==
  /\ phase = "pages" /\ Len(pages) < PageCount
  /\ pages' = Append(pages, MappedPage(Len(pages) + 1))
  /\ UNCHANGED <<phase, doc, mapped, at, chunker, extraction, selection>>

PagesMapped ==
  /\ phase = "pages" /\ Len(pages) = PageCount
  /\ phase' = "chunk"
  /\ UNCHANGED <<doc, mapping, at, chunker, extraction, selection>>

-----------------------------------------------------------------------------
(* Chunks. at = <<page, block>> is the block that is next. *)

\* A page that is not indexed has no text, so that validate_page_for_chunking stops nothing.
Page == pages[at[1]]
AtBlock == at[1] <= Len(pages) /\ at[2] <= Len(Page.text.blocks)
AtPageEnd == at[1] <= Len(pages) /\ at[2] > Len(Page.text.blocks)
Block == Page.text.blocks[at[2]]
NextBlock == at' = <<at[1], at[2] + 1>>
NextPage == at' = <<at[1] + 1, 1>>
IsIndexed == Page.status \in Indexed

Chunk(body) == [page |-> Page.number, path |-> path, body |-> body]

\* The header a fragment repeats: the lines before the first one with a bare number.
HeaderCount(lines) ==
  LET numeric == {i \in DOMAIN lines : lines[i].bare}
  IN  IF numeric = {} THEN Len(lines) ELSE (CHOOSE i \in numeric : \A j \in numeric : i <= j) - 1

\* The fragments of a table: the header, then as many rows as fit, at least one.
TableParts(lines) ==
  LET head == HeaderCount(lines)
      header == SubSeq(lines, 1, head)
      parts[n \in head..Len(lines)] ==   \* finished fragments and the one in progress
        IF n = head THEN <<header>>
        ELSE LET done == parts[n - 1]
                 open == done[Len(done)]
             IN  IF Len(open) + 1 > MaxLines /\ Len(open) > head
                 THEN Append(done, Append(header, lines[n]))
                 ELSE [done EXCEPT ![Len(done)] = Append(open, lines[n])]
  IN  IF Len(lines) <= MaxLines THEN <<lines>> ELSE parts[Len(lines)]

\* Paragraphs are joined into parts of at most MaxLines sentences; a part may start with
\* the overlap of the one before, which adds no sentence.
ProseParts(sentences) ==
  [i \in 1..((Len(sentences) + MaxLines - 1) \div MaxLines) |->
     SubSeq(sentences, (i - 1) * MaxLines + 1, IF i * MaxLines < Len(sentences) THEN i * MaxLines ELSE Len(sentences))]

Emitted(bodies) == [i \in DOMAIN bodies |-> Chunk(bodies[i])]
WithProse == chunks \o Emitted(ProseParts(buffer))

ChunkHeading ==
  /\ phase = "chunk" /\ AtBlock /\ IsIndexed /\ Block.kind = "heading"
  /\ chunks' = WithProse /\ buffer' = <<>>
  /\ path' = Append(SubSeq(path, 1, IF Block.level - 1 < Len(path) THEN Block.level - 1 ELSE Len(path)), Block)
  /\ NextBlock
  /\ UNCHANGED <<phase, doc, mapping, extraction, selection>>

ChunkTable ==
  /\ phase = "chunk" /\ AtBlock /\ IsIndexed /\ Block.kind = "table"
  /\ chunks' = WithProse \o Emitted(TableParts(Block.lines)) /\ buffer' = <<>>
  /\ NextBlock
  /\ UNCHANGED <<phase, doc, mapping, path, extraction, selection>>

ChunkParagraph ==
  /\ phase = "chunk" /\ AtBlock /\ IsIndexed /\ Block.kind = "para"
  /\ buffer' = Append(buffer, Block)
  /\ NextBlock
  /\ UNCHANGED <<phase, doc, mapping, path, chunks, extraction, selection>>

\* A mutant: the paragraphs at the end of a page wait for the next one.
ChunkPageEndUnflushed ==
  /\ phase = "chunk" /\ AtPageEnd /\ NextPage
  /\ UNCHANGED <<phase, doc, mapping, chunker, extraction, selection>>

ChunkPageEnd ==
  /\ phase = "chunk" /\ AtPageEnd
  /\ chunks' = WithProse /\ buffer' = <<>>
  /\ NextPage
  /\ UNCHANGED <<phase, doc, mapping, path, extraction, selection>>

Chunked ==
  /\ phase = "chunk" /\ at[1] > Len(pages)
  /\ phase' = "extract" /\ at' = <<1, 1>>
  /\ UNCHANGED <<doc, mapping, chunker, extraction, selection>>

-----------------------------------------------------------------------------
(* Tables: the header of the whole table, and each row bound to the chunk that holds it. *)

NumberLine(lines) ==
  LET numbers == {i \in DOMAIN lines : lines[i].is = "numbers"}
  IN  IF numbers = {} THEN 0 ELSE CHOOSE i \in numbers : \A j \in numbers : i <= j

\* A mutant: a blank header cell continues the one to its left whatever is above.
HeaderPathsFilled(lines, width) ==
  LET value(r) == [c \in 1..width |->
        LET left == {d \in 1..c : lines[r].cells[d] # Blank}
        IN  IF left = {} THEN Blank ELSE lines[r].cells[CHOOSE d \in left : \A e \in left : e <= d]]
  IN  [c \in 1..width |-> SelectSeq([r \in DOMAIN lines |-> value(r)[c]], LAMBDA word : word # Blank)]

\* A blank header cell continues the cell to its left, under the same parents only.
HeaderPaths(lines, width) ==
  LET filled[r \in 0..Len(lines)] ==
        IF r = 0 THEN [c \in 1..width |-> <<>>]
        ELSE LET above == filled[r - 1]
                 value[c \in 1..width] ==
                   IF lines[r].cells[c] = Blank /\ c > 1 /\ above[c] = above[c - 1]
                   THEN value[c - 1] ELSE lines[r].cells[c]
             IN  [c \in 1..width |-> Append(above[c], value[c])]
      NotBlank(word) == word # Blank
  IN  [c \in 1..width |-> SelectSeq(filled[Len(lines)][c], NotBlank)]

Only(S, default) == IF Cardinality(S) = 1 THEN CHOOSE x \in S : TRUE ELSE default

\* The dimensions a header path names; without a year the column takes the title's.
ColumnOf(words, title) ==
  LET named == Range(words)
      years == named \cap Years
      said == SelectSeq(words, LAMBDA word : word \in Residences)
  IN  [year |-> IF years = {} THEN title.year ELSE Only(years, Blank),
       residence |-> IF said = <<>> THEN None ELSE Last(said),
       subgroups |-> named \cap Subgroups,
       metric |-> named \ (Years \cup Residences \cup Subgroups)]

\* The chunks of a page that hold a line.
Holding(page, line) ==
  {i \in DOMAIN chunks : chunks[i].page = page /\ line \in Range(chunks[i].body)}

BoundRow(line) ==
  [line |-> line, page |-> Page.number, chunk |-> Only(Holding(Page.number, line), 0)]

ParsedTable(block) ==
  LET n == NumberLine(block.lines)
      width == Len(block.lines[n].cells)
      title == IF context.statement # None THEN context.title ELSE context.heading
      data == SubSeq(block.lines, n + 1, Len(block.lines))
      whole == SelectSeq(data, LAMBDA line : Len(line.cells) = width)
      paths == HeaderPaths(SubSeq(block.lines, 1, n - 1), width)
  IN  [statement |-> context.statement, title |-> title, paths |-> paths,
       columns |-> [c \in 2..width |-> ColumnOf(paths[c], title)],
       rows |-> [i \in DOMAIN whole |-> BoundRow(whole[i])],
       malformed |-> Len(data) - Len(whole)]

\* The same statement's table carried on, on this page or another.
Continues(table) ==
  /\ current # 0 /\ context.statement # None
  /\ tables[current].statement = context.statement
  /\ tables[current].paths = table.paths

ExtractTable ==
  /\ phase = "extract" /\ AtBlock /\ Block.kind = "table"
  /\ context' = [context EXCEPT !.awaiting = FALSE]
  /\ IF NumberLine(Block.lines) = 0
     THEN UNCHANGED <<current, tables>>
     ELSE LET table == ParsedTable(Block)
          IN  IF Continues(table)
              THEN /\ tables' = [tables EXCEPT
                        ![current].rows = @ \o table.rows,
                        ![current].malformed = @ + table.malformed]
                   /\ UNCHANGED current
              ELSE /\ tables' = Append(tables, table)
                   /\ current' = Len(tables) + 1
  /\ NextBlock
  /\ UNCHANGED <<phase, doc, mapping, chunker, selection>>

NoContext == [statement |-> None, title |-> NoTitle, awaiting |-> FALSE, heading |-> NoTitle]

\* What a heading or a paragraph says of the tables that follow.
ExtractText ==
  /\ phase = "extract" /\ AtBlock /\ Block.kind # "table"
  /\ LET short == Block.title.short
         inline == Block.says = "statement" /\ Block.titled
     IN  IF short /\ Block.says = "statement"
         THEN /\ context' = [context EXCEPT !.statement = Block.number,
                    !.title = IF inline THEN Block.title ELSE NoTitle, !.awaiting = ~inline]
              /\ current' = 0
         ELSE IF context.awaiting /\ short
         THEN /\ context' = [context EXCEPT !.title = Block.title, !.awaiting = FALSE]
              /\ UNCHANGED current
         ELSE IF Block.kind = "heading" \/ Block.says = "graph"
         THEN /\ context' = [NoContext EXCEPT !.heading =
                    IF Block.kind = "heading" THEN Block.title ELSE NoTitle]
              /\ current' = 0
         ELSE UNCHANGED <<context, current>>
  /\ NextBlock
  /\ UNCHANGED <<phase, doc, mapping, chunker, tables, selection>>

ExtractPageEnd ==
  /\ phase = "extract" /\ AtPageEnd
  /\ NextPage
  /\ UNCHANGED <<phase, doc, mapping, chunker, extraction, selection>>

Extracted ==
  /\ phase = "extract" /\ at[1] > Len(pages)
  /\ phase' = "select"
  /\ UNCHANGED <<doc, mapping, at, chunker, extraction, selection>>

-----------------------------------------------------------------------------
(* Selection: the one column a request means, or a refusal. *)

ResidenceAgrees(column, want) ==
  IF column.residence = None THEN want.residence \in {None, "total"}
  ELSE column.residence = IF want.residence = None THEN "total" ELSE want.residence

\* The columns, as <<table, column>>, whose dimensions agree and whose metric holds the words.
Agreeing(want) ==
  {tc \in UNION {{t} \X DOMAIN tables[t].columns : t \in DOMAIN tables} :
     LET column == tables[tc[1]].columns[tc[2]]
     IN  /\ column.metric # {} /\ column.year = want.year
         /\ tables[tc[1]].title.subgroups \cup column.subgroups = want.subgroups
         /\ want.metric \subseteq column.metric
         /\ ResidenceAgrees(column, want)}

Candidates(want) ==
  LET exact == {tc \in Agreeing(want) : tables[tc[1]].columns[tc[2]].metric = want.metric}
  IN  IF exact # {} THEN exact ELSE Agreeing(want)

Entities(t) == SelectSeq(tables[t].rows, LAMBDA row : ~row.line.aggregate)

\* Every entity has a value and a chunk to cite, and there are two at least.
Complete(tc) ==
  /\ tables[tc[1]].malformed = 0
  /\ Len(Entities(tc[1])) >= 2
  /\ \A i \in DOMAIN Entities(tc[1]) :
       LET row == Entities(tc[1])[i] IN row.chunk # 0 /\ row.line.cells[tc[2]] # Blank

Values(tc) ==
  LET rows == Entities(tc[1])
  IN  [i \in DOMAIN rows |-> <<rows[i].line.label, rows[i].line.cells[tc[2]]>>]

\* Several columns are one only when they hold the same values.
Selectable(want) ==
  LET found == Candidates(want)
  IN  /\ found # {}
      /\ \A tc \in found : Complete(tc)
      /\ \A a, b \in found :
           /\ tables[a[1]].columns[a[2]].metric = tables[b[1]].columns[b[2]].metric
           /\ Values(a) = Values(b)

FirstOf(found) ==
  CHOOSE a \in found : \A b \in found : a[1] < b[1] \/ (a[1] = b[1] /\ a[2] <= b[2])

SelectColumn ==
  /\ phase = "select"
  /\ \E want \in Wanted :
       /\ selection' = [want |-> want,
            column |-> IF Selectable(want) THEN FirstOf(Candidates(want)) ELSE <<0, 0>>]
  /\ phase' = "done"
  /\ UNCHANGED <<doc, mapping, at, chunker, extraction>>

Init ==
  /\ phase = "map" /\ doc \in Documents
  /\ mapped = <<>> /\ pages = <<>>
  /\ at = <<1, 1>> /\ path = <<>> /\ buffer = <<>> /\ chunks = <<>>
  /\ context = NoContext /\ current = 0 /\ tables = <<>>
  /\ selection = <<>>

Next ==
  \/ MapMarkdown \/ MapPage \/ PagesMapped
  \/ ChunkHeading \/ ChunkTable \/ ChunkParagraph \/ ChunkPageEnd \/ Chunked
  \/ ExtractTable \/ ExtractText \/ ExtractPageEnd \/ Extracted
  \/ SelectColumn

Spec == Init /\ [][Next]_vars
-----------------------------------------------------------------------------
(* Properties. *)

Mapped == phase \notin {"map", "pages", "failed"}
HasChunks == phase \in {"extract", "select", "done"}

\* The converter left out only the pages it lists as skipped, and kept the order.
ConverterIsHonest(md) ==
  /\ \A i \in DOMAIN md.texts : md.texts[i].of \notin md.skipped
  /\ \A i, j \in DOMAIN md.texts : i < j => md.texts[i].of < md.texts[j].of

\* Every page of the PDF has exactly one status, and has text exactly when the status says it is
\* indexed; a document that fails has statuses and no text. Blocks are given to pages by counting
\* alone: when the converter lists what it skipped, the counts that are compared are enough for
\* every text to be indexed under the page it is of (parse_converter_page_sequence).
CoverageIsExact ==
  phase \notin {"map", "pages"} =>
    /\ Len(pages) = PageCount \/ phase = "failed"
    /\ \A p \in DOMAIN pages :
         /\ pages[p].number = p /\ pages[p].status \in Statuses
         /\ Mapped => (pages[p].text.blocks # <<>> <=> pages[p].status \in Indexed)
         /\ pages[p].status = "indexed_provided_markdown"
              /\ (doc.markdown.kind = "converter" => ConverterIsHonest(doc.markdown))
              => pages[p].text.of = p

Blocks(p) == Range(pages[p].text.blocks)
TableLines(p) == UNION {Range(b.lines) : b \in {x \in Blocks(p) : x.kind = "table"}}
Body(p) == TableLines(p) \cup {b \in Blocks(p) : b.kind = "para"}

\* The lines above the first one with a bare number: all a fragment can know of its columns.
Above(block) == {block.lines[i] : i \in {j \in DOMAIN block.lines : \A k \in 1..j : ~block.lines[k].bare}}

\* What is indexed under a page is that page's text, whole: each paragraph and each table line is
\* in a chunk of its page, no chunk has anything of another page or is larger than the limit
\* unless it is a header and one row, and a fragment that has a row of a table repeats the
\* header above it (chunk_pages, _table_parts).
ChunksCarryThePage ==
  HasChunks =>
    /\ buffer = <<>>
    /\ \A p \in DOMAIN pages :
         Body(p) = UNION {Range(chunks[i].body) : i \in {j \in DOMAIN chunks : chunks[j].page = p}}
    /\ \A i \in DOMAIN chunks :
         LET page == pages[chunks[i].page]
             body == chunks[i].body
         IN  /\ page.status \in Indexed
             /\ Range(body) \cap TableLines(page.number) # {} =>
                  \E b \in {x \in Blocks(page.number) : x.kind = "table"} :
                    /\ Above(b) \subseteq Range(body) /\ Range(body) \subseteq Range(b.lines)
                    /\ Len(body) <= MaxLines \/ Len(body) <= Cardinality(Above(b)) + 1

Printed(p, line) ==
  Cardinality({bl \in UNION {{b} \X DOMAIN pages[p].text.blocks[b].lines : b \in
                   {x \in DOMAIN pages[p].text.blocks : pages[p].text.blocks[x].kind = "table"}} :
                 pages[p].text.blocks[bl[1]].lines[bl[2]] = line})

\* The tables are parsed from the page and the chunks are cut from it, by two pieces of code: a
\* row that its page prints once is bound to the one chunk that shows it, wherever the table was
\* split, and a row that is printed twice is bound to none (extraction.py, chunking.py).
RowsAreCitable ==
  HasChunks =>
    \A t \in DOMAIN tables : \A i \in DOMAIN tables[t].rows :
      LET row == tables[t].rows[i]
      IN  IF Printed(row.page, row.line) = 1
          THEN row.chunk # 0 /\ chunks[row.chunk].page = row.page /\ row.line \in Range(chunks[row.chunk].body)
          ELSE row.chunk # 0 => Printed(row.page, row.line) = 1

\* From the page to what is cited: nothing of a page is lost, moved to another one or bound to a
\* chunk that does not show it.
PagesReachTheirChunks == ChunksCarryThePage /\ RowsAreCitable

\* What is printed, read off the document by the reader of the model and not by its code: a table
\* block says which printed table it is a part of, and what each of its columns means.
TableBlocks == UNION {{b \in Blocks(p) : b.kind = "table"} : p \in DOMAIN pages}
DataOf(printed) ==
  {line \in UNION {Range(b.lines) : b \in {x \in TableBlocks : x.of = printed}} :
     line.is = "data" /\ ~line.aggregate}
HomeOf(row) == CHOOSE b \in Blocks(row.page) : b.kind = "table" /\ row.line \in Range(b.lines)
Meant(meaning, want) ==
  /\ meaning.year = want.year /\ meaning.subgroups = want.subgroups
  /\ want.metric \subseteq meaning.metric
  /\ ResidenceAgrees(meaning, want)
Shown(printed, c) == {<<line.label, line.cells[c]>> : line \in DataOf(printed)}

\* A column that is selected is the one the request means: every row has that year, residence and
\* population, the rows are all those of the printed table, also those on its later pages, and
\* no other table prints other values under the very same description (select_column). This is
\* so for regular documents: titles short enough to be read as such, and repeated whole or not at
\* all where a table goes on.
SelectionIsTheOnlyOne ==
  doc.regular /\ phase = "done" /\ selection.column # <<0, 0>> =>
    LET t == selection.column[1]
        c == selection.column[2]
        rows == Range(Entities(t))
        printed == {HomeOf(row).of : row \in rows}
    IN  /\ \A row \in rows : Meant(HomeOf(row).means[c], selection.want)
        /\ \E one \in printed : printed = {one} /\ {row.line : row \in rows} = DataOf(one)
        /\ \A b \in TableBlocks : \A d \in DOMAIN b.means \ {1} :
             Meant(b.means[d], selection.want) /\ b.means[d].metric = selection.want.metric =>
               Shown(b.of, d) = UNION {Shown(one, c) : one \in printed}
=============================================================================
