------------------------------ MODULE Chunking ------------------------------
(* Cutting a record into the chunks the search index holds:                 *)
(* services/record_parser.py (the rows of a ledger) and                     *)
(* ai/features/retrieval/chunking.py.  A text is its length, a line what    *)
(* the title patterns see in it; the limits are small, as the algorithms    *)
(* only compare lengths with them.                                          *)
EXTENDS Naturals, Integers, Sequences, FiniteSets, SequencesExt

CONSTANTS
  CHUNK_MAX_CHARS,      \* longest chunk (1000 in the code)
  CHUNK_OVERLAP_CHARS,  \* what a window may repeat of the one before it (150)
  TITLE_MAX_CHARS,      \* longest line that may be a title (30)
  Sheets,               \* the ledgers tried: sequences of [name, rows]
  Documents             \* the documents tried: sequences of pages of lines

VARIABLE cut   \* the record being indexed and the chunks it was cut into

Uncut == [what |-> "none", input |-> <<>>, chunks |-> <<>>]
ChunkInit == cut = Uncut

NoSheet == "none"   \* a CSV row's label has no sheet
NoLabel == "?"      \* a sheet whose row labels cannot be read back
NoTitle == 0

Total(sizes) == FoldLeft(+, 0, sizes)
CeilDiv(a, b) == (a + b - 1) \div b

(* _joined_length: the lengths of the lines and the line breaks between.    *)
joined_length(sizes) == Total(sizes) + Len(sizes) - 1

---------------------------------------------------------------------------
(* _table_blocks: blank rows are skipped, the first row that is not blank   *)
(* names the columns, every later one is a block that keeps its row number. *)
table_blocks(sheet) ==
  LET filled == SelectSeq([n \in DOMAIN sheet.rows |-> n], LAMBDA n : sheet.rows[n] > 0)
      body   == IF filled = <<>> THEN <<>> ELSE Tail(filled)
  IN [k \in DOMAIN body |->
        [sheet |-> sheet.name, number |-> body[k], size |-> sheet.rows[body[k]]]]

(* _parse_xlsx: the blocks of the sheets, one sheet after the other.        *)
parse_sheets(sheets) == FlattenSeq([s \in DOMAIN sheets |-> table_blocks(sheets[s])])

(* _parse_row: a label that cannot be read leaves the block on its own.     *)
parse_row(block) == block.sheet # NoLabel

RowSizes(rows) == [i \in DOMAIN rows |-> rows[i].size]

\* Fault: a group is closed only after the row that exceeds the limit.
ClosesLate(group, row, target) ==
  group # <<>> /\ joined_length(RowSizes(group)) > CHUNK_MAX_CHARS

(* A group is closed when it has reached its share of the whole or the next *)
(* row would exceed the limit.  `target` is total / parts, compared without *)
(* rounding.                                                                *)
closes(group, row, target) ==
  /\ group # <<>>
  /\ \/ joined_length(RowSizes(group)) * target.parts >= target.total
     \/ joined_length(RowSizes(group)) + 1 + row.size > CHUNK_MAX_CHARS

(* _split_evenly *)
split_evenly(rows) ==
  LET total  == joined_length(RowSizes(rows))
      target == [total |-> total, parts |-> CeilDiv(total, CHUNK_MAX_CHARS)]
      add(acc, row) ==
        IF closes(acc.current, row, target)
        THEN [groups |-> Append(acc.groups, acc.current), current |-> <<row>>]
        ELSE [acc EXCEPT !.current = Append(@, row)]
      done == FoldLeft(add, [groups |-> <<>>, current |-> <<>>], rows)
  IN Append(done.groups, done.current)

(* Rows stay in one run while they are of the same sheet.                   *)
same_run(run, row) == Last(run).sheet = row.sheet

(* chunk_ledger *)
chunk_ledger(blocks) ==
  LET close(acc) == IF acc.run = <<>> THEN acc.chunks ELSE acc.chunks \o split_evenly(acc.run)
      add(acc, i) ==
        LET row == blocks[i] @@ [index |-> i]
            ends == acc.run # <<>> /\ ~(parse_row(row) /\ same_run(acc.run, row))
            kept == IF ends THEN [chunks |-> close(acc), run |-> <<>>] ELSE acc
        IN IF parse_row(row)
           THEN [kept EXCEPT !.run = Append(@, row)]
           ELSE [kept EXCEPT !.chunks = Append(@, <<row>>)]
  IN close(FoldLeft(add, [chunks |-> <<>>, run |-> <<>>], [i \in DOMAIN blocks |-> i]))

---------------------------------------------------------------------------
(* A line: [kind, number, sentences], the lengths of its sentences.         *)
LineSize(line) == joined_length(line.sentences)

(* _is_numbered_title: a short numbered line.                               *)
is_numbered_title(line) == line.kind = "numbered" /\ LineSize(line) <= TITLE_MAX_CHARS

(* One more line of a page: the sections so far and what the reading has    *)
(* carried over, also from the pages before (_Reading).                     *)
read_line(acc, i, line) ==
  LET section(title, body) == [title |-> title, lines |-> <<i>>, has_body |-> body]
      open(title, body) == [acc EXCEPT !.sections = Append(@, section(title, body))]
      continue == [acc EXCEPT !.sections[Len(acc.sections)].lines = Append(@, i),
                              !.sections[Len(acc.sections)].has_body = TRUE]
      untitled == acc.sections # <<>> /\ Last(acc.sections).title = NoTitle
  IN CASE line.kind = "chapter" ->
            [open(i, FALSE) EXCEPT !.in_article = FALSE, !.last_number = 0]
       [] line.kind = "article" -> [open(i, FALSE) EXCEPT !.in_article = TRUE]
       [] line.kind = "article_body" -> [open(i, TRUE) EXCEPT !.in_article = TRUE]
       [] ~acc.in_article /\ is_numbered_title(line) ->
            IF line.number > acc.last_number
            THEN [open(i, FALSE) EXCEPT !.last_number = line.number]
            ELSE IF untitled THEN continue ELSE open(NoTitle, TRUE)
       [] OTHER -> IF acc.sections # <<>> THEN continue ELSE open(NoTitle, TRUE)

(* _sections: the page's sections; a short first line of the document is    *)
(* its title.                                                               *)
sections(page, reading, first_page) ==
  LET read == FoldLeft(LAMBDA acc, i : read_line(acc, i, page[i]),
                       [reading EXCEPT !.sections = <<>>], [i \in DOMAIN page |-> i])
      first == read.sections[1]
      heading == first_page /\ first.title = NoTitle /\ Len(first.lines) = 1
  IN IF heading
     THEN [read EXCEPT !.sections[1].has_body = LineSize(page[first.lines[1]]) > TITLE_MAX_CHARS]
     ELSE read

(* _attach_titles: a section of titles only goes in front of the next one.  *)
attach_titles(found) ==
  LET add(acc, s) ==
        IF s.has_body
        THEN [groups |-> Append(acc.groups, [title |-> s.title, lines |-> acc.pending \o s.lines]),
              pending |-> <<>>]
        ELSE [acc EXCEPT !.pending = @ \o s.lines]
      done == FoldLeft(add, [groups |-> <<>>, pending |-> <<>>], found)
  IN IF done.pending = <<>> THEN done.groups
     ELSE Append(done.groups, [title |-> Last(found).title, lines |-> done.pending])

(* The parts of a sentence that are at most the limit long.                 *)
parts(s, size) ==
  [k \in 1..CeilDiv(size, CHUNK_MAX_CHARS) |->
     [sentence |-> s, from |-> (k - 1) * CHUNK_MAX_CHARS,
      size |-> IF k * CHUNK_MAX_CHARS <= size THEN CHUNK_MAX_CHARS
               ELSE size - (k - 1) * CHUNK_MAX_CHARS]]

PieceSize(piece) == joined_length([k \in DOMAIN piece.parts |-> piece.parts[k].size])

(* _fit_lines: a line that is too long is cut after sentences, a sentence   *)
(* that is too long by length.                                              *)
fit_line(i, line) ==
  LET whole == FlattenSeq([s \in DOMAIN line.sentences |-> parts(s, line.sentences[s])])
      piece(ps) == [line |-> i, parts |-> ps]
      add(acc, p) ==
        IF acc.piece # <<>> /\ PieceSize(piece(acc.piece)) + 1 + p.size > CHUNK_MAX_CHARS
        THEN [out |-> Append(acc.out, piece(acc.piece)), piece |-> <<p>>]
        ELSE [acc EXCEPT !.piece = Append(@, p)]
      done == FoldLeft(add, [out |-> <<>>, piece |-> <<>>], whole)
  IN IF LineSize(line) <= CHUNK_MAX_CHARS
     THEN <<piece([s \in DOMAIN line.sentences |->
                     [sentence |-> s, from |-> 0, size |-> line.sentences[s]]])>>
     ELSE Append(done.out, piece(done.piece))

fit_lines(page, lines) == FlattenSeq([k \in DOMAIN lines |-> fit_line(lines[k], page[lines[k]])])

WindowSize(pieces) == joined_length([k \in DOMAIN pieces |-> PieceSize(pieces[k])])

(* _overlap: the longest end of the window within the limit, without its    *)
(* first line.                                                              *)
overlap(pieces) ==
  LET fits(k) == WindowSize(SubSeq(pieces, k, Len(pieces))) <= CHUNK_OVERLAP_CHARS
      from == {k \in 2..Len(pieces) : \A j \in k..Len(pieces) : fits(j)}
  IN IF from = {} THEN <<>>
     ELSE SubSeq(pieces, CHOOSE k \in from : \A j \in from : k <= j, Len(pieces))

(* _windows *)
windows(pieces) ==
  LET exceeds(current, p) == WindowSize(Append(current, p)) > CHUNK_MAX_CHARS
      add(acc, p) ==
        LET again == overlap(acc.current)
        IN IF acc.current # <<>> /\ exceeds(acc.current, p)
           THEN [out |-> Append(acc.out, acc.current),
                 current |-> Append(IF exceeds(again, p) THEN <<>> ELSE again, p)]
           ELSE [acc EXCEPT !.current = Append(@, p)]
      done == FoldLeft(add, [out |-> <<>>, current |-> <<>>], pieces)
  IN Append(done.out, done.current)

(* chunk_document: per page, the sections with their titles, cut into       *)
(* windows; the reading goes on from page to page.                          *)
chunk_document(pages) ==
  LET start == [sections |-> <<>>, in_article |-> FALSE, last_number |-> 0]
      page_chunks(n, found) ==
        LET groups == attach_titles(found)
        IN [g \in DOMAIN groups |->
              [page |-> n, title |-> groups[g].title, lines |-> groups[g].lines,
               windows |-> windows(fit_lines(pages[n], groups[g].lines))]]
      add(acc, n) ==
        LET read == sections(pages[n], acc.reading, n = 1)
        IN [reading |-> read, chunks |-> acc.chunks \o page_chunks(n, read.sections)]
  IN FoldLeft(add, [reading |-> start, chunks |-> <<>>], [n \in DOMAIN pages |-> n]).chunks

---------------------------------------------------------------------------
(* index_record_chunks: a CSV or XLSX file is a ledger, anything else a     *)
(* document; a record without blocks is refused.                            *)
index_ledger ==
  /\ cut = Uncut
  /\ \E sheets \in Sheets :
    /\ parse_sheets(sheets) # <<>>
    /\ cut' = [what |-> "ledger", input |-> parse_sheets(sheets),
               chunks |-> chunk_ledger(parse_sheets(sheets))]

index_document ==
  /\ cut = Uncut
  /\ \E pages \in Documents :
    cut' = [what |-> "document", input |-> pages, chunks |-> chunk_document(pages)]

ChunkNext == index_ledger \/ index_document

---------------------------------------------------------------------------
LedgerIsWhole(blocks, chunks) ==
  /\ FlattenSeq(chunks) = [i \in DOMAIN blocks |-> blocks[i] @@ [index |-> i]]
  /\ \A c \in DOMAIN chunks :
       LET rows == chunks[c]
       IN /\ \A i \in DOMAIN rows : rows[i].sheet = rows[1].sheet
          /\ Len(rows) > 1 => joined_length(RowSizes(rows)) <= CHUNK_MAX_CHARS
          /\ rows[1].sheet = NoLabel => Len(rows) = 1

(* The windows of one section are stretches of its pieces: they start at    *)
(* the first piece, end at the last, leave none out, each goes on past the  *)
(* one before and repeats at most the overlap.                              *)
WindowsCover(pieces, ws) ==
  LET at(w) == CHOOSE k \in DOMAIN pieces : pieces[k] = w[1]
      end(w) == at(w) + Len(w) - 1
  IN /\ \A k \in DOMAIN ws : /\ ws[k] = SubSeq(pieces, at(ws[k]), end(ws[k]))
                             /\ WindowSize(ws[k]) <= CHUNK_MAX_CHARS
     /\ at(ws[1]) = 1 /\ end(Last(ws)) = Len(pieces)
     /\ \A k \in 1..(Len(ws) - 1) :
          /\ at(ws[k]) < at(ws[k + 1]) /\ end(ws[k]) < end(ws[k + 1])
          /\ at(ws[k + 1]) <= end(ws[k]) + 1
          /\ WindowSize(SubSeq(pieces, at(ws[k + 1]), end(ws[k]))) <= CHUNK_OVERLAP_CHARS

DocumentIsWhole(pages, chunks) ==
  /\ \A n \in DOMAIN pages :
       LET of_page == SelectSeq(chunks, LAMBDA c : c.page = n)
       IN FlattenSeq([k \in DOMAIN of_page |-> of_page[k].lines]) = [i \in DOMAIN pages[n] |-> i]
  /\ \A c \in DOMAIN chunks :
       LET chunk == chunks[c]
       IN /\ chunk.title # NoTitle => Contains(chunk.lines, chunk.title)
          /\ WindowsCover(fit_lines(pages[chunk.page], chunk.lines), chunk.windows)

(* Cutting loses and misplaces nothing (chunk_ledger, chunk_document):      *)
(* every row and every line of the record is in the chunks, in its order;   *)
(* a chunk of a ledger has rows of one sheet only, so that its label is     *)
(* true, and exceeds the limit only when it is a single row; the windows of *)
(* a document's section never exceed the limit, always move on, and repeat  *)
(* no more than the overlap; a title labels a chunk that contains it.       *)
ChunksCoverTheRecord ==
  /\ cut.what = "ledger" => LedgerIsWhole(cut.input, cut.chunks)
  /\ cut.what = "document" => DocumentIsWhole(cut.input, cut.chunks)
=============================================================================
