----------------------------- MODULE ChunkedRows -----------------------------
(***************************************************************************)
(* zchunkedrows.ChunkedRows: rows of a fixed size in numbered chunks, with *)
(* an aux and a match line for every row.  A chunk is three files, and Add *)
(* appends to them one after the other under the lock: match, aux, rows.   *)
(* DeleteChunksOlderThan and Iterate take no lock.  The process may crash  *)
(* between any two steps and load what it finds in the directory.          *)
(*                                                                         *)
(* A row is two bytes, so that one can be written in part, and a line is a *)
(* byte of text and the end character.                                     *)
(***************************************************************************)
EXTENDS Integers, Sequences, FiniteSets, FiniteSetsExt, SequencesExt

CONSTANTS
    RowsPerChunk,  \* opts.RowsPerChunk
    Adders,        \* goroutines that call Add
    Readers,       \* goroutines that call Iterate
    IterateCalls,  \* the arguments Iterate is called with
    Cases          \* how many rows there are at first, how often Add is called (a bound),
                   \* and what else may happen in a behaviour

Faults == {"crash", "open", "writeLine", "writeRow", "delete"}
NoOne == "nobody"

ASSUME ChunkAssumption ==
    /\ RowsPerChunk \in Nat \ {0}
    /\ NoOne \notin Adders
    /\ IsFiniteSet(Cases)
    /\ Cases \subseteq [rows : Nat, adds : Nat, faults : SUBSET Faults]
    /\ IterateCalls \subseteq
          [chunk : Nat \cup {-1}, index : Nat \cup {-1}, forward : BOOLEAN, match : BOOLEAN]

VARIABLES
    files,   \* the directory: from the <<type, chunk>> of a file to its bytes
    up,      \* the process runs
    bottom,  \* cr.bottomChunkIndex
    top,     \* cr.topChunkIndex
    count,   \* cr.topChunkRowCount
    lastID,  \* cr.currentID
    lock,    \* who holds cr.lock
    add,     \* what each adder is doing
    adds,    \* how often Add has been called; the orderer value of the last row
    del,     \* what DeleteChunksOlderThan is doing
    it,      \* what each reader is doing
    case     \* what may happen in this behaviour

fields == <<bottom, top, count, lastID>>
vars == <<files, up, fields, lock, add, adds, del, it, case>>

MaxAdds == Max({ c.rows + c.adds : c \in Cases })
ChunkTypes == {"match", "aux", "rows"}
NextType == [match |-> "aux", aux |-> "rows"]   \* the order in which Add appends
NextRemoved == [rows |-> "match", match |-> "aux"] \* and in which deleteChunk removes

------------------------------------------------------------------------------
(* Bytes.  Offsets are counted from 0, as in the code.                      *)

RowByteSize == 2
RowBytes(row) == << <<row, 1>>, <<row, 2>> >>
LineBytes(text) == << [text |-> text, end |-> FALSE], [text |-> text, end |-> TRUE] >>

\* Two halves of different rows make a row of which nothing is known: it is given an
\* ID that no row has and offsets at which no line starts.
Garbled == [id |-> 0, order |-> 0, aux |-> 1000, match |-> 1000]

HasRow(bytes, i) == 0 <= i /\ (i + 1) * RowByteSize <= Len(bytes)
RowIn(bytes, i) ==
    LET half(n) == bytes[i * RowByteSize + n]
    IN IF <<half(1), half(2)>> = RowBytes(half(1)[1]) THEN half(1)[1] ELSE Garbled

getChunkRowCount(bytes) == Len(bytes) \div RowByteSize

LineEnds(bytes, from) == { k \in (from + 1)..Len(bytes) : bytes[k].end }
HasLine(bytes, from) == LineEnds(bytes, from) # {}
LineIn(bytes, from) == SubSeq(bytes, from + 1, Min(LineEnds(bytes, from)))

\* getChunkFile creates the file that it is to open.
Opened(fs, names) ==
    [f \in DOMAIN fs \cup names |-> IF f \in DOMAIN fs THEN fs[f] ELSE << >>]
Without(fs, names) == [f \in DOMAIN fs \ names |-> fs[f]]
ChunkNames(chunks) == ChunkTypes \X chunks
ChunksOf(type) == { name[2] : name \in { n \in DOMAIN files : n[1] = type } }

isEmpty == bottom = top /\ count = 0
totalRowCount == IF isEmpty THEN 0 ELSE (top - bottom) * RowsPerChunk + count

------------------------------------------------------------------------------
(* Search                                                                   *)

getOrderer(row, isID) == IF isID THEN row.id ELSE row.order

\* Mutant: a row that is the last of its chunk is looked for in the next one.
isOrdererBelowLast(chunk, o, isID) ==
    LET bytes == Opened(files, {<<"rows", chunk>>})[<<"rows", chunk>>]
        first == getOrderer(RowIn(bytes, 0), isID)
        last == getOrderer(RowIn(bytes, getChunkRowCount(bytes) - 1), isID)
    IN IF ~HasRow(bytes, 0) THEN "error"
       ELSE CASE first > o -> "previous"
              [] first < o /\ last <= o -> "next"
              [] OTHER -> "here"

\* Whether the chunk may hold o, or where to go on.
isOrdererInChunk(chunk, o, isID) ==
    LET bytes == Opened(files, {<<"rows", chunk>>})[<<"rows", chunk>>]
        first == getOrderer(RowIn(bytes, 0), isID)
        last == getOrderer(RowIn(bytes, getChunkRowCount(bytes) - 1), isID)
    IN IF ~HasRow(bytes, 0) THEN "error"
       ELSE CASE first > o -> "previous"
              [] first < o /\ last < o -> "next"
              [] OTHER -> "here"

\* What binarySearchForChunk returns, and the chunks it has opened.
Found(chunk, pos, opened) == [chunk |-> chunk, pos |-> pos, opened |-> opened]
binarySearchForChunk(find, isID) ==
    LET chunks == Min({bottom, top})..Max({bottom, top})
        search[range \in chunks \X chunks] ==
          LET lo == range[1]
              hi == range[2]
              mid == (lo + hi) \div 2
              turn == isOrdererInChunk(mid, find, isID)
              rest(from, to) == [search[<<from, to>>] EXCEPT !.opened = @ \cup {mid}]
          IN CASE turn = "error" -> Found(0, "error", {mid})
               [] turn = "here" -> Found(mid, "within", {mid})
               [] turn = "previous" /\ lo = hi -> Found(mid, "below", {mid})
               [] turn = "previous" /\ lo # hi -> rest(lo, Max({lo, mid - 1}))
               [] turn = "next" /\ lo # hi -> rest(Min({hi, mid + 1}), hi)
               [] turn = "next" /\ lo = hi /\ hi < top -> Found(mid + 1, "below", {mid})
               [] turn = "next" /\ lo = hi /\ hi >= top ->
                     Found(mid, IF count < RowsPerChunk THEN "above" ELSE "outside", {mid})
    IN IF isEmpty THEN Found(0, "empty", {}) ELSE search[<<bottom, top>>]

\* The index binarySearchForRow returns for the rows of a chunk: with exact the one of
\* the row, else where the row would be.
binarySearchForRow(bytes, find, isID) ==
    LET last == getChunkRowCount(bytes) - 1
        search[range \in (0..last) \X (0..last)] ==
          LET lo == range[1]
              hi == range[2]
              mid == (lo + hi) \div 2
              o == getOrderer(RowIn(bytes, mid), isID)
              rest(from, to) == search[<<from, to>>]
          IN CASE o = find -> [index |-> mid, exact |-> TRUE]
               [] o > find /\ lo = hi -> [index |-> mid, exact |-> FALSE]
               [] o > find /\ lo # hi -> rest(lo, Max({lo, mid - 1}))
               [] o < find /\ lo = hi -> [index |-> mid + 1, exact |-> FALSE]
               [] o < find /\ lo # hi -> rest(Min({hi, mid + 1}), hi)
    IN search[<<0, last>>]

NotFound(pos) == [chunk |-> 0, index |-> 0, exact |-> FALSE, pos |-> pos]
BinarySearch(find, isID) ==
    LET found == binarySearchForChunk(find, isID)
        name == <<"rows", found.chunk>>
        bytes == Opened(files, {name})[name]
        row == binarySearchForRow(bytes, find, isID)
    IN CASE found.pos \in {"error", "empty"} -> NotFound(found.pos)
         [] found.pos \in {"above", "outside"} ->
              IF HasRow(bytes, count - 1)
              THEN [NotFound(found.pos) EXCEPT !.chunk = found.chunk, !.index = count - 1]
              ELSE NotFound("error")
         [] found.pos \in {"within", "below"} ->
              IF HasRow(bytes, 0)
              THEN [chunk |-> found.chunk, index |-> row.index, exact |-> row.exact,
                    pos |-> found.pos]
              ELSE NotFound("error")

\* A search changes nothing but that it opens files.
Search(isID) ==
    /\ up
    /\ lock = NoOne
    /\ \E find \in 0..MaxAdds :
          files' = Opened(files, {"rows"} \X binarySearchForChunk(find, isID).opened)
    /\ UNCHANGED <<up, fields, lock, add, adds, del, it, case>>

------------------------------------------------------------------------------
(* Add                                                                      *)

NotAdding == [at |-> "idle", type |-> "match", order |-> 0, auxID |-> 0,
              pos |-> [match |-> -1, aux |-> -1]]

\* Before the lock is taken, the ID that the row will have is written into the aux data.
CallAdd(a) ==
    /\ up
    /\ add[a].at = "idle"
    /\ adds < case.rows + case.adds
    /\ adds' = adds + 1
    /\ add' = [add EXCEPT ![a] =
                  [NotAdding EXCEPT !.at = "lock", !.order = adds + 1, !.auxID = lastID + 1]]
    /\ UNCHANGED <<files, up, fields, lock, del, it, case>>

\* Mutant: one row too many in a chunk.
incrementRowOrChunkLate ==
    /\ lastID' = lastID + 1
    /\ IF count <= RowsPerChunk
       THEN count' = count + 1 /\ UNCHANGED top
       ELSE count' = 1 /\ top' = top + 1
    /\ UNCHANGED bottom
incrementRowOrChunk ==
    /\ lastID' = lastID + 1
    /\ IF count < RowsPerChunk
       THEN count' = count + 1 /\ UNCHANGED top
       ELSE count' = 1 /\ top' = top + 1
    /\ UNCHANGED bottom

LockAdd(a) ==
    /\ add[a].at = "lock"
    /\ lock = NoOne
    /\ lock' = a
    /\ incrementRowOrChunk
    /\ add' = [add EXCEPT ![a].at = "open"]
    /\ UNCHANGED <<files, up, adds, del, it, case>>

AddedFile(a) == <<add[a].type, top>>

\* appendToChunkFile: the file is opened, and created if it is not there ...
OpenChunkFile(a) ==
    /\ add[a].at = "open"
    /\ files' = Opened(files, {AddedFile(a)})
    /\ add' = [add EXCEPT ![a].at = "write"]
    /\ UNCHANGED <<up, fields, lock, adds, del, it, case>>

\* ... and written to at its end.  The row, which comes last, is told where its lines are.
AddedBytes(a) ==
    LET w == add[a]
    IN CASE w.type = "match" -> LineBytes([of |-> w.order, id |-> 0])
         [] w.type = "aux" -> LineBytes([of |-> w.order, id |-> w.auxID])
         [] w.type = "rows" -> RowBytes([id |-> lastID, order |-> w.order,
                                         aux |-> w.pos.aux, match |-> w.pos.match])

AppendLine(a) ==
    LET file == AddedFile(a)
    IN /\ add[a].at = "write"
       /\ add[a].type # "rows"
       /\ files' = [files EXCEPT ![file] = @ \o AddedBytes(a)]
       /\ add' = [add EXCEPT ![a].at = "open", ![a].type = NextType[@],
                             ![a].pos[add[a].type] = Len(files[file])]
       /\ UNCHANGED <<up, fields, lock, adds, del, it, case>>

AppendRow(a) ==
    /\ add[a].at = "write"
    /\ add[a].type = "rows"
    /\ files' = [files EXCEPT ![AddedFile(a)] = @ \o AddedBytes(a)]
    /\ add' = [add EXCEPT ![a] = NotAdding]
    /\ lock' = NoOne
    /\ UNCHANGED <<up, fields, adds, del, it, case>>

\* An error of the first two files leaves the row counted, one of the rows file does not.
\* Add truncates the lines that it has appended, but truncateChunk opens their files for
\* reading only, and the truncation fails.
FailedAdd(a) ==
    /\ IF add[a].type = "rows"
       THEN count' = count - 1 /\ lastID' = lastID - 1
       ELSE UNCHANGED <<count, lastID>>
    /\ add' = [add EXCEPT ![a] = NotAdding]
    /\ lock' = NoOne
    /\ UNCHANGED <<up, bottom, top, adds, del, it, case>>

FailOpen(a) ==
    /\ "open" \in case.faults
    /\ add[a].at = "open"
    /\ FailedAdd(a)
    /\ UNCHANGED files

\* The disk is full: a part of the bytes is written.
FailWrite(a) ==
    /\ (IF add[a].type = "rows" THEN "writeRow" ELSE "writeLine") \in case.faults
    /\ add[a].at = "write"
    /\ \E n \in 0..1 :
          files' = [files EXCEPT ![AddedFile(a)] = @ \o SubSeq(AddedBytes(a), 1, n)]
    /\ FailedAdd(a)

------------------------------------------------------------------------------
(* Iterate                                                                  *)

NotOpen == [state |-> "none", bytes |-> << >>]
Live == [state |-> "live", bytes |-> << >>]
NotIterating == [at |-> "idle", chunk |-> 0, index |-> 0, forward |-> TRUE, match |-> FALSE,
                 rows |-> NotOpen, lines |-> NotOpen, seen |-> << >>, due |-> {}]

\* A file that is removed keeps its bytes for those who have it open.
Held(handle, name) == IF handle.state = "live" THEN files[name] ELSE handle.bytes
Unlinked(handle, name) ==
    IF handle.state = "live" THEN [state |-> "unlinked", bytes |-> files[name]] ELSE handle

\* The rows that are to be found in the directory: for each chunk the rows of its file.
\* For the readers' due, and for RowLog.
RowPositions ==
    UNION { {c} \X (0..getChunkRowCount(files[<<"rows", c>>]) - 1) : c \in ChunksOf("rows") }
RowAt(p) == RowIn(files[<<"rows", p[1]>>], p[2])
IsBefore(p, q) == p[1] < q[1] \/ (p[1] = q[1] /\ p[2] <= q[2])

\* Where Iterate starts, or nowhere when it returns an error.
Start(call) ==
    CASE call.index >= RowsPerChunk -> {}
      [] call.index < RowsPerChunk /\ call.chunk = -1 /\ call.forward ->
            IF call.index < 0 THEN {} ELSE {<<bottom, call.index>>}
      [] call.index < RowsPerChunk /\ call.chunk = -1 /\ ~call.forward ->
            {<<top, IF call.index = -1 THEN count - 1 ELSE call.index>>}
      [] call.index < RowsPerChunk /\ call.chunk # -1 ->
            IF \/ call.chunk \notin bottom..top
               \/ call.index < 0
               \/ call.chunk = top /\ call.index >= count
            THEN {}
            ELSE {<<call.chunk, call.index>>}

Iterate(r, call) ==
    /\ up
    /\ it[r].at = "idle"
    /\ ~isEmpty
    /\ \E start \in Start(call) :
          it' = [it EXCEPT ![r] =
                   [NotIterating EXCEPT
                      !.at = "row", !.chunk = start[1], !.index = start[2],
                      !.forward = call.forward, !.match = call.match,
                      !.due = { RowAt(p).order : p \in { q \in RowPositions :
                                  IF call.forward THEN IsBefore(start, q)
                                                  ELSE IsBefore(q, start) } }]]
    /\ UNCHANGED <<files, up, fields, lock, add, adds, del, case>>

\* The end of the loop's body: on to the next or the previous row, or out of the loop.
\* The file of a chunk is closed when the loop leaves it.
\* Mutant: the first row of the next chunk is skipped.
MovedPast0(i) ==
    LET next == i.index + 1
        to(chunk, index) ==
            [i EXCEPT !.at = "row", !.chunk = chunk, !.index = index,
                      !.rows = NotOpen, !.lines = NotOpen]
        ended == [i EXCEPT !.at = "done", !.rows = NotOpen, !.lines = NotOpen]
    IN IF i.chunk = top /\ next >= count THEN ended
       ELSE IF next < RowsPerChunk THEN to(i.chunk, next)
       ELSE IF i.chunk + 1 > top THEN ended ELSE to(i.chunk + 1, 1)
Moved(i) ==
    LET next == IF i.forward THEN i.index + 1 ELSE i.index - 1
        to(chunk, index) ==
            [i EXCEPT !.at = "row", !.chunk = chunk, !.index = index,
                      !.rows = IF chunk = i.chunk THEN @ ELSE NotOpen,
                      !.lines = IF chunk = i.chunk THEN @ ELSE NotOpen]
        ended == [i EXCEPT !.at = "done", !.rows = NotOpen, !.lines = NotOpen]
    IN IF i.forward
       THEN CASE i.chunk = top /\ next >= count -> ended
              [] ~(i.chunk = top /\ next >= count) /\ next < RowsPerChunk -> to(i.chunk, next)
              [] ~(i.chunk = top /\ next >= count) /\ next >= RowsPerChunk ->
                    IF i.chunk + 1 > top THEN ended ELSE to(i.chunk + 1, 0)
       ELSE CASE next >= 0 -> to(i.chunk, next)
              [] next < 0 ->
                    IF i.chunk - 1 < bottom THEN ended
                    ELSE to(i.chunk - 1, RowsPerChunk - 1)

Saw(i, row) ==
    [i EXCEPT !.seen = Append(@, [order |-> row.order, place |-> <<i.chunk, i.index>>])]

\* A row is read and, unless there is a text to match, handed to got.
\* Mutant: a row that cannot be read is tried again.
ReadRowAgain(r) ==
    LET i == it[r]
        name == <<"rows", i.chunk>>
        fs == IF i.rows = NotOpen THEN Opened(files, {name}) ELSE files
        opened == [i EXCEPT !.rows = IF @ = NotOpen THEN Live ELSE @]
        bytes == IF i.rows.state = "unlinked" THEN i.rows.bytes ELSE fs[name]
    IN /\ i.at = "row"
       /\ files' = fs
       /\ it' = [it EXCEPT ![r] = IF HasRow(bytes, i.index)
                                  THEN Moved(Saw(opened, RowIn(bytes, i.index)))
                                  ELSE opened]
       /\ UNCHANGED <<up, fields, lock, add, adds, del, case>>
ReadRow(r) ==
    LET i == it[r]
        name == <<"rows", i.chunk>>
        fs == IF i.rows = NotOpen THEN Opened(files, {name}) ELSE files
        opened == [i EXCEPT !.rows = IF @ = NotOpen THEN Live ELSE @]
        bytes == IF i.rows.state = "unlinked" THEN i.rows.bytes ELSE fs[name]
        row == RowIn(bytes, i.index)
    IN /\ i.at = "row"
       /\ files' = fs
       /\ it' = [it EXCEPT ![r] =
                   CASE ~HasRow(bytes, i.index) -> Moved(opened)
                     [] HasRow(bytes, i.index) /\ i.match -> [opened EXCEPT !.at = "match"]
                     [] HasRow(bytes, i.index) /\ ~i.match -> Moved(Saw(opened, row))]
       /\ UNCHANGED <<up, fields, lock, add, adds, del, case>>

\* Its match line is read.  When that fails, the loop goes on with the same row.
ReadMatch(r) ==
    LET i == it[r]
        name == <<"match", i.chunk>>
        fs == IF i.lines = NotOpen THEN Opened(files, {name}) ELSE files
        opened == [i EXCEPT !.lines = IF @ = NotOpen THEN Live ELSE @]
        row == RowIn(Held(i.rows, <<"rows", i.chunk>>), i.index)
        bytes == IF i.lines.state = "unlinked" THEN i.lines.bytes ELSE fs[name]
    IN /\ i.at = "match"
       /\ files' = fs
       /\ it' = [it EXCEPT ![r] = IF HasLine(bytes, row.match)
                                  THEN Moved(Saw(opened, row))
                                  ELSE [opened EXCEPT !.at = "row"]]
       /\ UNCHANGED <<up, fields, lock, add, adds, del, case>>

\* got returns false.
StopIterate(r) ==
    /\ it[r].at = "row"
    /\ it[r].seen # << >>
    /\ it' = [it EXCEPT ![r] = [@ EXCEPT !.at = "stopped", !.rows = NotOpen, !.lines = NotOpen]]
    /\ UNCHANGED <<files, up, fields, lock, add, adds, del, case>>

------------------------------------------------------------------------------
(* DeleteChunksOlderThan                                                    *)

NotDeleting == [at |-> "idle", chunk |-> 0, until |-> 0]

DeleteChunksOlderThan(t) ==
    LET found == binarySearchForChunk(t, FALSE)
    IN /\ up
       /\ "delete" \in case.faults
       /\ lock = NoOne
       /\ del.at = "idle"
       /\ found.pos \in {"within", "below"}
       /\ found.chunk # top
       /\ bottom < found.chunk
       /\ del' = [at |-> "rows", chunk |-> bottom, until |-> found.chunk]
       /\ files' = Opened(files, {"rows"} \X found.opened)
       /\ UNCHANGED <<up, fields, lock, add, adds, it, case>>

AfterRemoval(i, name) ==
    LET isHeld == i.chunk = name[2] /\ name \in DOMAIN files
        rows == { RowAt(p).order : p \in { q \in RowPositions : q[1] = name[2] } }
    IN CASE name[1] = "rows" -> [i EXCEPT !.rows = IF isHeld THEN Unlinked(@, name) ELSE @,
                                          !.due = @ \ rows]
         [] name[1] = "match" -> [i EXCEPT !.lines = IF isHeld THEN Unlinked(@, name) ELSE @]
         [] name[1] = "aux" -> i

\* deleteChunk removes one file after the other, and moves the bottom when all are gone.
RemoveFile ==
    LET name == <<del.at, del.chunk>>
        isLast == del.at = "aux"
    IN /\ del.at # "idle"
       /\ files' = Without(files, {name})
       /\ it' = [r \in Readers |-> AfterRemoval(it[r], name)]
       /\ IF isLast
          THEN /\ bottom' = IF del.chunk = bottom THEN bottom + 1 ELSE bottom
               /\ count' = IF del.chunk = top THEN 0 ELSE count
               /\ del' = IF del.chunk + 1 < del.until
                         THEN [del EXCEPT !.at = "rows", !.chunk = @ + 1]
                         ELSE NotDeleting
          ELSE /\ del' = [del EXCEPT !.at = NextRemoved[@]]
               /\ UNCHANGED <<bottom, count>>
       /\ UNCHANGED <<up, top, lastID, lock, add, adds, case>>

------------------------------------------------------------------------------
(* Crash, and load                                                          *)

Crash ==
    /\ up
    /\ "crash" \in case.faults
    /\ up' = FALSE
    /\ bottom' = 0
    /\ top' = 0
    /\ count' = 0
    /\ lastID' = 0
    /\ lock' = NoOne
    /\ add' = [a \in Adders |-> NotAdding]
    /\ del' = NotDeleting
    /\ it' = [r \in Readers |-> NotIterating]
    /\ UNCHANGED <<files, adds, case>>

Ranges == { ChunksOf(type) : type \in { t \in ChunkTypes : ChunksOf(t) # {} } }
Mins == { Min(chunks) : chunks \in Ranges }
Maxes == { Max(chunks) : chunks \in Ranges }

\* Chunks at the bottom that not all types have are deleted.  Both deleteChunk and the
\* loop around it add one to the bottom.
DeletedBelow == { c \in Min(Mins)..(Max(Mins) - 1) : (c - Min(Mins)) % 2 = 0 }
LoadedBottom == Min(Mins) + 2 * Cardinality(DeletedBelow)

\* So are chunks at the top.  deleteChunk adds one to the bottom when it deletes that.
\* Mutant: and the top chunk itself.
DeletedFrom == Min(Maxes)..Max(Maxes)
DeletedAbove == (Min(Maxes) + 1)..Max(Maxes)
BottomLeft == IF LoadedBottom \in DeletedAbove THEN LoadedBottom + 1 ELSE LoadedBottom

\* handleLoadedTopRow: the number of rows and the last ID are those of the last row of the
\* top chunk that has its lines.  A file is not truncated, see FailedAdd.  When there is
\* no such row the ID is left as it is in a new ChunkedRows.
\* Mutant: the index of the last row for the number of rows.
LoadedRowIndex(fs, chunk) ==
    LET bytes == fs[<<"rows", chunk>>]
        n == getChunkRowCount(bytes)
    IN IF n = 0 THEN [count |-> 0, lastID |-> 0]
       ELSE [count |-> n - 1, lastID |-> RowIn(bytes, n - 1).id]
LoadedRows(fs, chunk) ==
    LET bytes == fs[<<"rows", chunk>>]
        n == getChunkRowCount(bytes)
        hasLines(row) == /\ HasLine(fs[<<"match", chunk>>], row.match)
                         /\ HasLine(fs[<<"aux", chunk>>], row.aux)
        lastOf(m) == RowIn(bytes, m - 1)
    IN IF n = 0 THEN [count |-> 0, lastID |-> 0]
       ELSE IF hasLines(lastOf(n)) THEN [count |-> n, lastID |-> lastOf(n).id]
       ELSE IF n > 1 /\ hasLines(lastOf(n - 1))
       THEN [count |-> n - 1, lastID |-> lastOf(n - 1).id]
       ELSE [count |-> n - 1, lastID |-> 0]

Restart ==
    /\ ~up
    /\ up' = TRUE
    /\ IF ChunksOf("rows") = {}
       THEN /\ files' = [name \in {} |-> << >>]
            /\ UNCHANGED fields
       ELSE LET kept == Without(files, ChunkNames(DeletedBelow \cup DeletedAbove))
                fs == Opened(kept, ChunkNames({Min(Maxes)}))
                loaded == LoadedRows(fs, Min(Maxes))
            IN /\ files' = fs
               /\ bottom' = BottomLeft
               /\ top' = Min(Maxes)
               /\ count' = loaded.count
               /\ lastID' = loaded.lastID
    /\ UNCHANGED <<lock, add, adds, del, it, case>>

------------------------------------------------------------------------------
\* The files when n rows have been added.
RowsAdded(n) ==
    LET rowsOf(c) == [i \in 1..Min({RowsPerChunk, n - c * RowsPerChunk}) |->
                        [id |-> c * RowsPerChunk + i, order |-> c * RowsPerChunk + i,
                         aux |-> 2 * (i - 1), match |-> 2 * (i - 1)]]
        bytesOf(row) == [rows |-> RowBytes(row),
                         match |-> LineBytes([of |-> row.order, id |-> 0]),
                         aux |-> LineBytes([of |-> row.order, id |-> row.id])]
        used == { c \in 0..n : c * RowsPerChunk < n }
    IN [name \in ChunkNames(used) |->
           LET rows == rowsOf(name[2])
           IN [k \in 1..2 * Len(rows) |-> bytesOf(rows[(k + 1) \div 2])[name[1]][2 - (k % 2)]]]

Init ==
    /\ case \in Cases
    /\ files = RowsAdded(case.rows)
    /\ up = TRUE
    /\ bottom = 0
    /\ top = IF case.rows = 0 THEN 0 ELSE (case.rows - 1) \div RowsPerChunk
    /\ count = case.rows - top * RowsPerChunk
    /\ lastID = case.rows
    /\ lock = NoOne
    /\ add = [a \in Adders |-> NotAdding]
    /\ adds = case.rows
    /\ del = NotDeleting
    /\ it = [r \in Readers |-> NotIterating]

AddNext(a) ==
    \/ CallAdd(a) \/ LockAdd(a) \/ OpenChunkFile(a) \/ AppendLine(a) \/ AppendRow(a)
    \/ FailOpen(a) \/ FailWrite(a)

IterateNext(r) == ReadRow(r) \/ ReadMatch(r) \/ StopIterate(r)

Next ==
    \/ \E a \in Adders : AddNext(a)
    \/ \E r \in Readers : IterateNext(r) \/ \E call \in IterateCalls : Iterate(r, call)
    \/ \E isID \in BOOLEAN : Search(isID)
    \/ \E t \in 1..MaxAdds : DeleteChunksOlderThan(t)
    \/ RemoveFile
    \/ Crash
    \/ Restart

Spec == Init /\ [][Next]_vars

\* A goroutine that iterates goes on.
FairSpec == Spec /\ \A r \in Readers : WF_vars(ReadRow(r) \/ ReadMatch(r))

------------------------------------------------------------------------------
(* Properties                                                               *)

TypeOK ==
    /\ DOMAIN files \subseteq ChunkTypes \X (0..MaxAdds)
    /\ bottom \in Nat /\ top \in Nat /\ count \in 0..RowsPerChunk /\ lastID \in 0..MaxAdds
    /\ up \in BOOLEAN
    /\ lock \in Adders \cup {NoOne}
    /\ \A a \in Adders : add[a].at \in {"idle", "lock", "open", "write"}
    /\ del.at \in {"idle"} \cup ChunkTypes
    /\ \A r \in Readers : it[r].at \in {"idle", "row", "match", "done", "stopped"}

IsQuiet == up /\ lock = NoOne /\ del.at = "idle"

\* Every row in the directory is in a chunk and at an index that Iterate and BinarySearch
\* look at.
StoredRowsAreReachable ==
    up => \A p \in RowPositions :
            /\ p[1] >= bottom
            /\ p[1] < top \/ (p[1] = top /\ p[2] < count)
            /\ p[2] < RowsPerChunk

\* The lines a row points at are those that were added with it, with whatever another
\* Add has left before them.
LinesBelongToTheirRow ==
    \A p \in RowPositions :
        RowAt(p) # Garbled =>
            \A type \in {"match", "aux"} :
                LET bytes == files[<<type, p[1]>>]
                    from == RowAt(p)[type]
                IN HasLine(bytes, from) /\ \A n \in 1..2 : LineIn(bytes, from)[n].text.of = RowAt(p).order

\* When no file could not be opened or written, the number of rows is the number that is
\* in the directory.
CountIsExact ==
    IsQuiet /\ case.faults \subseteq {"crash", "delete"} =>
        totalRowCount = Cardinality(RowPositions)

\* Whatever has failed and after every load the stored rows can be found, have their own
\* match and aux lines, and are counted (doc at zchunkedrows.go:1-20).
StorageIsConsistent == StoredRowsAreReachable /\ LinesBelongToTheirRow /\ CountIsExact

Ordered(isID) ==
    \A p, q \in RowPositions :
        p # q /\ IsBefore(p, q) => getOrderer(RowAt(p), isID) < getOrderer(RowAt(q), isID)

\* In rows that are in order a search finds the row it looks for and no other, and
\* otherwise the place in the chunk that the row would have.
SearchFindsRow ==
    \A isID \in BOOLEAN, find \in 0..MaxAdds + 1 :
        LET result == BinarySearch(find, isID)
            hits == { p \in RowPositions : getOrderer(RowAt(p), isID) = find }
            below == { p \in RowPositions : getOrderer(RowAt(p), isID) < find }
        IN IsQuiet /\ Ordered(isID) /\ result.pos # "error" =>
              /\ result.exact = (hits # {})
              /\ result.exact => hits = {<<result.chunk, result.index>>}
              /\ result.pos \in {"within", "below"} =>
                    result.index = Cardinality({ p \in below : p[1] = result.chunk })

\* An iteration that comes to its end has handed every row that was there when it began,
\* and has not been deleted since, to its caller, once and in order.
IsPast(forward, p, q) == p # q /\ IF forward THEN IsBefore(q, p) ELSE IsBefore(p, q)
IterationIsComplete ==
    \A r \in Readers :
        LET i == it[r]
        IN /\ i.at = "done" => i.due \subseteq { i.seen[n].order : n \in 1..Len(i.seen) }
           /\ \A m, n \in 1..Len(i.seen) :
                 m > n => IsPast(i.forward, i.seen[m].place, i.seen[n].place)

\* The rows are a log: nothing but Add and DeleteChunksOlderThan changes it.
StoredPositions == { p \in RowPositions : RowAt(p) # Garbled }
Rank(p, positions) == Cardinality({ q \in positions : IsBefore(q, p) })
RankedRows(positions) == { [rank |-> Rank(p, positions), row |-> RowAt(p)] : p \in positions }
Stored ==
    LET rows == RankedRows(StoredPositions)
    IN [n \in 1..Cardinality(StoredPositions) |-> (CHOOSE x \in rows : x.rank = n).row]
Row == [id : Nat, order : Nat, aux : Nat, match : Nat]
Log == INSTANCE RowLog WITH Rows <- Row, log <- Stored
ImplementsRowLog == Log!Spec

\* An ID is greater than every ID before it.
IDsIncrease == Ordered(TRUE)

PlainIterationEnds ==
    \A r \in Readers : it[r].at = "row" /\ ~it[r].match ~> it[r].at # "row"
==============================================================================
