----------------------------- MODULE RowTerminal -------------------------------
(***************************************************************************)
(* zchunkedrows' commands of a terminal session: pages of rows with a      *)
(* cursor that stays while rows are added and chunks deleted, the columns  *)
(* of a row, and lists of chunks and of the ids in one.  A log has its     *)
(* first chunk that is left, the rows of a chunk, and the rows in order; a *)
(* row is found by its position, from 1.  Rows whose match text cannot be  *)
(* read are in ChunkedRows.                                                *)
(***************************************************************************)
EXTENDS Integers, Sequences, FiniteSets, SequencesExt

PageRows == 2  \* 40 in the code
HalfRange == 4 \* the numbers of 32 bits

At(log, n) == [chunk |-> log.bottom + (n - 1) \div log.perChunk, index |-> (n - 1) % log.perChunk]
PositionOf(log, chunk, index) == (chunk - log.bottom) * log.perChunk + index + 1
TopOf(log) == At(log, Len(log.rows))
CannotRead(log, n) == n > Len(log.rows) \/ log.rows[n].bad

(* Iterate, over rows that stay: where it starts, or 0 if it tells an      *)
(* error, and the positions that it reads from there.                      *)
StartOf(log, chunk, index, forward) ==
    LET top == TopOf(log)
    IN IF index >= log.perChunk THEN 0
       ELSE IF chunk = -1 /\ forward THEN IF index < 0 THEN 0 ELSE PositionOf(log, log.bottom, index)
       ELSE IF chunk = -1 THEN IF index = -1 THEN Len(log.rows) ELSE PositionOf(log, top.chunk, index)
       ELSE IF chunk > top.chunk \/ chunk < log.bottom \/ index < 0 \/ (chunk = top.chunk /\ index > top.index) THEN 0
       ELSE PositionOf(log, chunk, index)
ReadFrom(log, start, forward) ==
    IF ~forward THEN [k \in 1..start |-> start - k + 1]
    ELSE IF start > Len(log.rows) THEN <<start>>
    ELSE [k \in 1..(Len(log.rows) - start + 1) |-> start + k - 1]

\* Rows that cannot be read are shown too, and count, but only another row ends the page.
PageOf(log, read, match) ==
    LET wanted == {k \in DOMAIN read : CannotRead(log, read[k]) \/ match \in log.rows[read[k]].texts}
        Before(k) == Cardinality({j \in wanted : j <= k})
        ends == {k \in wanted : Before(k) >= PageRows /\ ~CannotRead(log, read[k])}
        last == IF ends = {} THEN Len(read) ELSE CHOOSE k \in ends : \A j \in ends : k <= j
        picked == {k \in wanted : k <= last}
    IN [i \in 1..Cardinality(picked) |-> read[CHOOSE k \in picked : Before(k) = i]]

(* Command_rows: a chunk that is given is begun at its first row, or -1 at *)
(* the last row of all; a session's first page goes backward from there.   *)
Aimed(cursor, ask) ==
    LET start == IF ask.chunk # <<>> THEN [chunk |-> ask.chunk[1], index |-> IF ask.chunk[1] = -1 THEN -1 ELSE 0, forward |-> ask.chunk[1] # -1]
                 ELSE IF ~cursor.shown THEN [chunk |-> -1, index |-> -1, forward |-> FALSE]
                 ELSE [chunk |-> cursor.chunk, index |-> cursor.index, forward |-> TRUE]
    IN IF ask.index = <<>> THEN start ELSE [start EXCEPT !.index = ask.index[1]]
MovedTo(cursor, place) == [cursor EXCEPT !.chunk = place.chunk, !.index = place.index]
Command_rows(cursor, ask, log) ==
    LET aim == Aimed(cursor, ask)
        begun == [MovedTo(cursor, aim) EXCEPT !.shown = @ \/ ask.chunk = <<>>]
        start == IF log.rows = <<>> THEN 0 ELSE StartOf(log, aim.chunk, aim.index, aim.forward)
        page == IF start = 0 THEN <<>> ELSE PageOf(log, ReadFrom(log, start, aim.forward), ask.match)
    IN [page |-> page, error |-> log.rows # <<>> /\ start = 0,
        cursor |-> IF page = <<>> THEN begun ELSE MovedTo(begun, At(log, page[Len(page)]))]
NewCursor == [chunk |-> 0, index |-> 0, shown |-> FALSE]
Command_cc(cursor) == [cursor EXCEPT !.chunk = -1, !.index = -1]

(* The heading of the rows and the cells of one; the last has the error,   *)
(* and no heading.  A number of 32 bits is read without its sign.          *)
SetTermColumn(columns, col) ==
    LET same == {i \in DOMAIN columns : columns[i].offset = col.offset}
    IN IF same = {} THEN Append(columns, col) ELSE [columns EXCEPT ![CHOOSE i \in same : \A j \in same : i <= j] = col]
SetTermColumns(cols) == FoldLeft(SetTermColumn, <<>>, cols)
If(condition, cell) == IF condition THEN <<cell>> ELSE <<>>
outputRowsTableHeader(opts, columns) ==
    <<"chunk", "index">> \o If(opts.ids, "id") \o If(opts.ordered, IF opts.isTime THEN "time" ELSE "orderer")
    \o [i \in DOMAIN columns |-> columns[i].header] \o If(opts.matches, "text")
NumberAt(row, col) ==
    IF col.is32 THEN row.numbers[col.offset] % HalfRange ELSE row.numbers[col.offset]
CellOf(row, col) ==
    LET n == NumberAt(row, col)
    IN IF col.isTime THEN [is |-> "time", n |-> n]
       ELSE IF n \in col.named THEN [is |-> "name", n |-> n]
       ELSE IF n = 0 THEN [is |-> "blank", n |-> 0] ELSE [is |-> "number", n |-> n]
outputRow(opts, columns, place, row) ==
    LET shown(is, n) == [is |-> is, n |-> n]
    IN <<shown("number", place.chunk), shown("number", place.index)>> \o If(opts.ids, shown("number", row.id))
       \o If(opts.ordered, shown(IF opts.isTime THEN "time" ELSE "number", row.order))
       \o [i \in DOMAIN columns |-> CellOf(row, columns[i])] \o If(opts.matches, shown("text", row.id))
       \o <<IF row.bad THEN shown("error", 0) ELSE shown("blank", 0)>>

(* Command_row, where ids grow: the row is shown if its id is there.       *)
Command_row(log, id) == {n \in DOMAIN log.rows : ~log.rows[n].bad /\ log.rows[n].id = id}

(* Command_chunk: an id that doesn't follow the one before it is shown,    *)
(* after the row before it if that one wasn't.  The first and last row are *)
(* shown, and those that cannot be read.                                   *)
Told(id, before) ==
    IF id = before THEN [status |-> "duplicate", ids |-> 0]
    ELSE IF id < before THEN [status |-> "below", ids |-> 0]
    ELSE IF before # -1 /\ id > before + 1 THEN [status |-> "skipped", ids |-> id - before - 1]
    ELSE [status |-> "", ids |-> 0]
ListLine(i, told) == [row |-> i, status |-> told.status, ids |-> told.ids]
Fine == [status |-> "", ids |-> 0]
ListRow(st, i, rows) ==
    LET told == Told(rows[i].id, st.lastID)
        fine == If(st.prevOK # 0, ListLine(st.prevOK, Fine))
    IN IF rows[i].bad THEN [st EXCEPT !.lines = Append(@, ListLine(i, [status |-> "error", ids |-> 0]))]
       ELSE IF told.status # "" THEN [lines |-> st.lines \o fine \o <<ListLine(i, told)>>, prevOK |-> 0, lastID |-> rows[i].id]
       ELSE IF i \in {1, Len(rows)} THEN [lines |-> Append(st.lines, ListLine(i, Fine)), prevOK |-> 0, lastID |-> rows[i].id]
       ELSE [st EXCEPT !.prevOK = i, !.lastID = rows[i].id]
Command_chunk(rows) ==
    FoldLeft(LAMBDA st, i : ListRow(st, i, rows), [lines |-> <<>>, prevOK |-> 0, lastID |-> -1], [i \in DOMAIN rows |-> i]).lines

(* Chunks: the first and last id of each, in red if there are more or      *)
(* fewer ids than rows.  What cannot be read is 0.                         *)
ChunkRows(log, chunk) ==
    LET from == PositionOf(log, chunk, 0)
        to == from + log.perChunk - 1
    IN SubSeq(log.rows, from, IF to < Len(log.rows) THEN to ELSE Len(log.rows))
ReadID(row, readable) == IF readable /\ ~row.bad THEN row.id ELSE 0
ChunkLine(log, chunk) ==
    LET rows == ChunkRows(log, chunk)
        first == ReadID(rows[1], TRUE)
        last == ReadID(rows[Len(rows)], ~rows[1].bad)
    IN [chunk |-> chunk, rows |-> Len(rows), first |-> first, last |-> last,
        short |-> Len(rows) # log.perChunk /\ chunk # TopOf(log).chunk, red |-> last - first + 1 # Len(rows)]
Chunks(log) == [i \in 1..(TopOf(log).chunk - log.bottom + 1) |-> ChunkLine(log, log.bottom + i - 1)]
-----------------------------------------------------------------------------
(* Laws *)

IsGood(log, n) == ~CannotRead(log, n)
AskFor(match) == [chunk |-> <<>>, index |-> <<>>, match |-> match]
AskChunk(chunk, match) == [AskFor(match) EXCEPT !.chunk = <<chunk>>]
RECURSIVE PagesFrom(_, _, _, _)
PagesFrom(cursor, match, log, n) ==
    LET got == Command_rows(cursor, AskFor(match), log)
    IN IF n = 0 THEN {} ELSE ToSet(got.page) \union PagesFrom(got.cursor, match, log, n - 1)

\* zcr-term_server.go:101, Command_rows: paging on from a chunk shows every row that matches from
\* there to the last one, none that doesn't, and no page but the last has fewer rows than there
\* is room for.
PagesLeaveNothingOut(log, chunk, match) ==
    LET first == Command_rows([NewCursor EXCEPT !.shown = TRUE], AskChunk(chunk, match), log)
        from == PositionOf(log, chunk, 0)
        all == ToSet(first.page) \union PagesFrom(first.cursor, match, log, Len(log.rows))
        wanted == {n \in from..Len(log.rows) : log.rows[n].bad \/ match \in log.rows[n].texts}
    IN log.rows # <<>> /\ chunk \in log.bottom..TopOf(log).chunk =>
          /\ all = wanted
          /\ Len(first.page) >= (IF Cardinality(wanted) < PageRows THEN Cardinality(wanted) ELSE PageRows)
          /\ \A k \in DOMAIN first.page : k > 1 => first.page[k - 1] < first.page[k]
          /\ first.page # <<>> /\ Len(first.page) < Cardinality(wanted) => IsGood(log, first.page[Len(first.page)])

\* zcr-term_server.go:138, lastChunkIndex and lastIndex: after rows were added and chunks deleted the
\* next page begins with the row that was shown last, or tells an error if its chunk is gone.
CursorKeepsItsRow(before, after, ask, match) ==
    LET first == Command_rows(NewCursor, ask, before)
        place == first.cursor
        next == Command_rows([place EXCEPT !.shown = TRUE], AskFor(match), after)
        row == before.rows[first.page[Len(first.page)]]
    IN first.page # <<>> /\ first.page[Len(first.page)] <= Len(before.rows) =>
          /\ next.error <=> place.chunk < after.bottom
          /\ ~next.error /\ (row.bad \/ match \in row.texts) => next.page # <<>> /\ after.rows[next.page[1]] = row
          /\ next.error => next.cursor = [place EXCEPT !.shown = TRUE]

\* zcr-term_server.go:106: a page begins with the row that is asked for, a session's first with the
\* last row, an error is told for a row that isn't there, and there is room for PageRows rows that
\* can be read.  After cc a session that has been shown its first page must give a chunk.
PageIsAsked(log, ask) ==
    LET got == Command_rows(NewCursor, ask, log)
        chunk == IF ask.chunk = <<>> THEN -1 ELSE ask.chunk[1]
        index == IF ask.index # <<>> THEN ask.index[1] ELSE IF chunk = -1 THEN -1 ELSE 0
        isThere == \E n \in DOMAIN log.rows : At(log, n) = [chunk |-> chunk, index |-> index]
    IN log.rows # <<>> =>
          /\ chunk = -1 => (got.error <=> index >= log.perChunk)
          /\ chunk # -1 => (got.error <=> ~isThere)
          /\ index = -1 /\ ask.match = "" => got.page[1] = Len(log.rows)
          /\ isThere /\ ask.match = "" => At(log, got.page[1]) = [chunk |-> chunk, index |-> index]
          /\ Cardinality({k \in DOMAIN got.page : IsGood(log, got.page[k])}) <= PageRows
          /\ Len(got.page) > PageRows => CannotRead(log, got.page[PageRows])
          /\ got.cursor.shown <=> ask.chunk = <<>>
          /\ got.cursor.shown <=> Command_rows(Command_cc(got.cursor), AskFor(""), log).error

\* zcr-term_server.go:46, SetTermColumn: there is one column of an offset, the one set last, and
\* every heading is over the cell it is about.
CellsAreUnderHeadings(opts, cols, row, place) ==
    LET columns == SetTermColumns(cols)
        headings == outputRowsTableHeader(opts, columns)
        cells == outputRow(opts, columns, place, row)
    IN /\ \A i, j \in DOMAIN columns : columns[i].offset = columns[j].offset => i = j
       /\ {c.offset : c \in ToSet(columns)} = {c.offset : c \in ToSet(cols)}
       /\ cols # <<>> => cols[Len(cols)] \in ToSet(columns)
       /\ Len(cells) = Len(headings) + 1
       /\ \A i \in DOMAIN headings :
             /\ headings[i] = "id" => cells[i] = [is |-> "number", n |-> row.id]
             /\ headings[i] = "time" => cells[i] = [is |-> "time", n |-> row.order]
             /\ headings[i] = "text" => cells[i].is = "text"
             /\ \A c \in ToSet(columns) : headings[i] = c.header =>
                   (cells[i].n - row.numbers[c.offset]) % (IF c.is32 THEN HalfRange ELSE HalfRange * HalfRange) = 0

\* zcr-term_server.go:345, "including missing ids": in a chunk whose ids grow, those that are shown
\* as skipped are as many as are missing between the first row and the last.  Every row that cannot
\* be read is shown; of the others lines come in order, and before an id that is told comes the row
\* that was read before it.
MissingAreTold(rows) ==
    LET lines == Command_chunk(rows)
        read == SelectSeq(lines, LAMBDA line : line.status # "error")
        skipped == FoldLeft(LAMBDA sum, line : sum + line.ids, 0, lines)
        grow == \A i \in DOMAIN rows : ~rows[i].bad /\ (i > 1 => rows[i].id >= rows[i - 1].id)
        repeated == Cardinality({k \in DOMAIN lines : lines[k].status = "duplicate"})
    IN /\ grow /\ rows # <<>> => rows[Len(rows)].id - rows[1].id + 1 = Len(rows) + skipped - repeated
       /\ \A k \in DOMAIN read : k > 1 => read[k - 1].row < read[k].row
       /\ \A k \in DOMAIN read : read[k].status # "" =>
             k > 1 /\ \A i \in (read[k - 1].row + 1)..(read[k].row - 1) : rows[i].bad
       /\ \A i \in {1, Len(rows)} \cap DOMAIN rows : ~rows[i].bad => \E k \in DOMAIN read : read[k].row = i
       /\ {i \in DOMAIN rows : rows[i].bad} = {lines[k].row : k \in {j \in DOMAIN lines : lines[j].status = "error"}}

\* zcr-term_server.go:278, Chunks: with ids that grow by one or more, a chunk whose ends can be read is red if
\* and only if an id is missing in it, and together the chunks have every row once.
ChunksTellTheirRange(log) ==
    log.rows # <<>> =>
       LET all == Chunks(log)
           Ids(c) == {row.id : row \in ToSet(ChunkRows(log, c))}
       IN /\ FoldLeft(LAMBDA sum, line : sum + line.rows, 0, all) = Len(log.rows)
          /\ \A i \in DOMAIN all : ~all[i].short
          /\ \A i \in DOMAIN all : all[i].first # 0 /\ all[i].last # 0 =>
                (all[i].red <=> \E id \in all[i].first..all[i].last : id \notin Ids(all[i].chunk))
          /\ \A row \in ToSet(log.rows) : ~row.bad =>
                \E n \in Command_row(log, row.id) : log.rows[n] = row
================================================================================
