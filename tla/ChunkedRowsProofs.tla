-------------------------- MODULE ChunkedRowsProofs --------------------------
(***************************************************************************)
(* The files of a ChunkedRows, for any size of a chunk, any number of      *)
(* goroutines that add and read, and any order of their steps: every row   *)
(* that is stored can be reached, has its own lines and is counted; the    *)
(* rows are a log; an iteration hands out each row it owes, once and in    *)
(* order; and a search finds the row it looks for.                         *)
(*                                                                         *)
(* This takes faults that do not meet: either the process never crashes,   *)
(* while files cannot be opened, lines are written in part and chunks are  *)
(* deleted; or it crashes any number of times, and nothing else fails.     *)
(***************************************************************************)
EXTENDS ChunkedRows, SequenceTheorems, SumProofs

\* A load after a deletion or after a failed append may count the bottom up twice for a
\* chunk, and a row written in part stays in the file: then rows are lost to the readers.
FaultsAreApart ==
    \A c \in Cases :
        \/ c.faults \subseteq {"delete", "open", "writeLine"}
        \/ c.faults \subseteq {"crash"}

-----------------------------------------------------------------------------
(* The bytes of a file *)

StoredRow == { row \in Row : row.id # 0 }
LineByte == [text : [of : Nat, id : Nat], end : BOOLEAN]

\* A file of whole rows.
IsRows(bytes) ==
    /\ bytes \in Seq(StoredRow \X {1, 2})
    /\ Len(bytes) = 2 * getChunkRowCount(bytes)
    /\ \A i \in 0..getChunkRowCount(bytes) - 1 :
          bytes[2 * i + 1][2] = 1 /\ bytes[2 * i + 2] = <<bytes[2 * i + 1][1], 2>>

\* The line of the row with the given order starts at from.
IsLine(bytes, from, order) ==
    /\ from \in Nat
    /\ from + 2 <= Len(bytes)
    /\ ~bytes[from + 1].end /\ bytes[from + 1].text.of = order
    /\ bytes[from + 2].end /\ bytes[from + 2].text.of = order

RowsIn(fs, c) == IF <<"rows", c>> \in DOMAIN fs THEN fs[<<"rows", c>>] ELSE << >>
RowsOf(c) == RowsIn(files, c)
NumRows(c) == getChunkRowCount(RowsOf(c))

HasLineOf(type, c, from, order) ==
    <<type, c>> \in DOMAIN files /\ IsLine(files[<<type, c>>], from, order)

-----------------------------------------------------------------------------
(* The inductive invariant *)

IsDirectory(fs, n) ==
    /\ DOMAIN fs \subseteq ChunkTypes \X (0..n)
    /\ \A name \in DOMAIN fs :
          IF name[1] = "rows" THEN IsRows(fs[name]) ELSE fs[name] \in Seq(LineByte)
FilesFit == IsDirectory(files, adds)

\* Every row has its lines, in the chunk it is in.
RowFits(row, c) ==
    /\ row.id <= adds
    /\ HasLineOf("match", c, row.match, row.order)
    /\ HasLineOf("aux", c, row.aux, row.order)
RowsFit == \A c \in Nat : \A i \in 0..NumRows(c) - 1 : RowFits(RowIn(RowsOf(c), i), c)

Adding == [at : {"idle", "lock", "open", "write"}, type : ChunkTypes, order : Nat, auxID : Nat,
           pos : [match : Int, aux : Int]]

\* Who holds the lock has counted its row, and knows where the lines are that it has added.
HolderFits(a) ==
    /\ count >= 1 /\ lastID >= 1
    /\ add[a].type # "match" => HasLineOf("match", top, add[a].pos.match, add[a].order)
    /\ add[a].type = "rows" => HasLineOf("aux", top, add[a].pos.aux, add[a].order)
    /\ add[a].at = "write" => AddedFile(a) \in DOMAIN files
AddersFit ==
    /\ add \in [Adders -> Adding]
    /\ lock \in Adders \cup {NoOne}
    /\ \A a \in Adders : lock = a <=> add[a].at \in {"open", "write"}
    /\ \A a \in Adders : lock = a => HolderFits(a)
    /\ \A a \in Adders : add[a].at = "lock" => add[a].type = "match"

\* There is no chunk and no ID but for a call of Add, and those that wait have none yet.
Waiting == { a \in Adders : add[a].at = "lock" }
CountsFit ==
    /\ bottom \in Nat /\ top \in Nat /\ count \in 0..RowsPerChunk /\ lastID \in Nat /\ adds \in Nat
    /\ up \in BOOLEAN
    /\ case \in Cases /\ adds <= case.rows + case.adds
    /\ IsFiniteSet(Waiting)
    /\ top + Cardinality(Waiting) <= adds
    /\ lastID + Cardinality(Waiting) <= adds

DeletionFits ==
    /\ del \in [at : {"idle"} \cup ChunkTypes, chunk : Nat, until : Nat]
    /\ del.at # "idle" => /\ "delete" \in case.faults
                          /\ del.chunk = bottom /\ bottom < del.until /\ del.until <= top
    /\ del.at \in {"match", "aux"} => NumRows(del.chunk) = 0

\* The rows are in the chunks from the bottom to the top, as many as are counted; when
\* nothing fails, all chunks below the top are full.
Pending == IF lock = NoOne THEN 0 ELSE 1
IsExact == case.faults \subseteq {"crash", "delete"}
IsEmptied(c) == del.at \in {"match", "aux"} /\ c = del.chunk
ChunksFit ==
    /\ bottom <= top
    /\ \A name \in DOMAIN files : name[2] <= top
    /\ \A c \in Nat : c < top => NumRows(c) <= RowsPerChunk
    /\ \A c \in Nat : c < bottom => NumRows(c) = 0
    /\ NumRows(top) <= count - Pending
    /\ IsExact => /\ NumRows(top) = count - Pending
                  /\ \A c \in bottom..top - 1 : NumRows(c) = RowsPerChunk \/ IsEmptied(c)
    /\ case.faults \subseteq {"crash"} => bottom = 0

\* What a crash leaves: nothing is known but the files, and the chunks below some top are
\* full.
DiskFits(t) ==
    /\ \A name \in DOMAIN files : name[2] <= t
    /\ \A c \in Nat : c < t => NumRows(c) = RowsPerChunk
    /\ NumRows(t) <= RowsPerChunk
DownFits ==
    /\ "crash" \in case.faults
    /\ bottom = 0 /\ top = 0 /\ count = 0 /\ lastID = 0
    /\ lock = NoOne /\ del = NotDeleting
    /\ add = [a \in Adders |-> NotAdding]
    /\ it = [r \in Readers |-> NotIterating]
    /\ \E t \in 0..adds : DiskFits(t)

\* A reader is in a chunk that there has been, and what it has open has not been closed.
Handle(bytes) == {NotOpen, Live} \cup [state : {"unlinked"}, bytes : bytes]
Sight == [order : Nat, place : Nat \X Int]
Iteration ==
    [at : {"idle", "row", "match", "done", "stopped"}, chunk : Nat, index : Int,
     forward : BOOLEAN, match : BOOLEAN, rows : Handle({ b \in Seq(StoredRow \X {1, 2}) : IsRows(b) }),
     lines : Handle(Seq(LineByte)), seen : Seq(Sight), due : SUBSET Nat]
IsReading(r) == it[r].at \in {"row", "match"}
ReaderFits(r) ==
    /\ it[r].chunk <= top
    /\ it[r].rows.state = "live" => <<"rows", it[r].chunk>> \in DOMAIN files
    /\ it[r].lines.state = "live" => <<"match", it[r].chunk>> \in DOMAIN files
    /\ it[r].at = "match" => /\ it[r].rows.state # "none"
                             /\ HasRow(Held(it[r].rows, <<"rows", it[r].chunk>>), it[r].index)
ReadersFit ==
    /\ it \in [Readers -> Iteration]
    /\ \A r \in Readers : IsReading(r) => ReaderFits(r)

Inv ==
    /\ FilesFit /\ RowsFit /\ AddersFit /\ CountsFit /\ DeletionFits /\ ReadersFit
    /\ IF up THEN ChunksFit ELSE DownFits

-----------------------------------------------------------------------------
(* What is in the bytes *)

\* An empty file is one of no rows.
LEMMA NoRowsAreRows == IsRows(<< >>) /\ getChunkRowCount(<< >>) = 0
  BY DEF IsRows, getChunkRowCount, RowByteSize

\* The rows of a file of whole rows are read as they were written.
LEMMA RowsAreRead ==
    ASSUME NEW bytes, IsRows(bytes)
    PROVE  /\ getChunkRowCount(bytes) \in Nat
           /\ \A i \in Int : HasRow(bytes, i) <=> i \in 0..getChunkRowCount(bytes) - 1
           /\ \A i \in 0..getChunkRowCount(bytes) - 1 :
                 /\ RowIn(bytes, i) \in StoredRow
                 /\ bytes[2 * i + 1] = <<RowIn(bytes, i), 1>>
                 /\ bytes[2 * i + 2] = <<RowIn(bytes, i), 2>>
<1> DEFINE n == getChunkRowCount(bytes)
<1>1. Len(bytes) \in Nat /\ Len(bytes) = 2 * n /\ n = Len(bytes) \div 2
  BY DEF IsRows, getChunkRowCount, RowByteSize
<1>2. n \in Nat
  BY <1>1
<1>3. ASSUME NEW i \in Int PROVE HasRow(bytes, i) <=> i \in 0..n - 1
  BY <1>1, <1>2 DEF HasRow, RowByteSize
<1>4. ASSUME NEW i \in 0..n - 1
      PROVE  /\ RowIn(bytes, i) \in StoredRow
             /\ bytes[2 * i + 1] = <<RowIn(bytes, i), 1>>
             /\ bytes[2 * i + 2] = <<RowIn(bytes, i), 2>>
  <2>1. i \in Nat /\ 2 * i + 1 \in 1..Len(bytes) /\ i * RowByteSize = 2 * i
    BY <1>1, <1>2 DEF RowByteSize
  <2>2. bytes[2 * i + 1] \in StoredRow \X {1, 2}
    BY <2>1 DEF IsRows
  <2>3. bytes[2 * i + 1][2] = 1 /\ bytes[2 * i + 2] = <<bytes[2 * i + 1][1], 2>>
    BY DEF IsRows
  <2>4. bytes[2 * i + 1] = <<bytes[2 * i + 1][1], 1>>
    BY <2>2, <2>3
  <2>5. RowIn(bytes, i) = bytes[2 * i + 1][1]
    BY <2>1, <2>3, <2>4 DEF RowIn, RowBytes
  <2>6. QED BY <2>2, <2>3, <2>4, <2>5
<1>5. QED BY <1>2, <1>3, <1>4

\* A row that is appended to whole rows is the last one, and the others stay.
LEMMA RowIsAppended ==
    ASSUME NEW bytes, IsRows(bytes), NEW row \in StoredRow
    PROVE  LET more == bytes \o RowBytes(row)
               n == getChunkRowCount(bytes)
           IN /\ IsRows(more)
              /\ getChunkRowCount(more) = n + 1
              /\ \A i \in 0..n - 1 : RowIn(more, i) = RowIn(bytes, i)
              /\ RowIn(more, n) = row
<1> DEFINE more == bytes \o RowBytes(row)
           n == getChunkRowCount(bytes)
<1>1. /\ bytes \in Seq(StoredRow \X {1, 2}) /\ RowBytes(row) \in Seq(StoredRow \X {1, 2})
      /\ Len(RowBytes(row)) = 2 /\ RowBytes(row)[1] = <<row, 1>> /\ RowBytes(row)[2] = <<row, 2>>
  BY DEF IsRows, RowBytes
<1>2. /\ n \in Nat /\ Len(bytes) = 2 * n
  BY RowsAreRead DEF IsRows
<1>3. /\ more \in Seq(StoredRow \X {1, 2}) /\ Len(more) = 2 * (n + 1)
      /\ \A k \in 1..2 * (n + 1) :
            more[k] = IF k <= 2 * n THEN bytes[k] ELSE RowBytes(row)[k - 2 * n]
  <2>1. /\ more \in Seq(StoredRow \X {1, 2})
        /\ Len(more) = Len(bytes) + Len(RowBytes(row))
        /\ \A k \in 1..Len(bytes) + Len(RowBytes(row)) :
              more[k] = IF k <= Len(bytes) THEN bytes[k] ELSE RowBytes(row)[k - Len(bytes)]
    BY <1>1, ConcatProperties
  <2> HIDE DEF more
  <2>2. Len(bytes) + Len(RowBytes(row)) = 2 * (n + 1)
    BY <1>1, <1>2
  <2>3. QED BY <1>2, <2>1, <2>2
<1>4. getChunkRowCount(more) = n + 1
  BY <1>2, <1>3 DEF getChunkRowCount, RowByteSize
<1>5. ASSUME NEW i \in 0..n - 1
      PROVE  more[2 * i + 1] = bytes[2 * i + 1] /\ more[2 * i + 2] = bytes[2 * i + 2]
  BY <1>2, <1>3
<1>6. more[2 * n + 1] = <<row, 1>> /\ more[2 * n + 2] = <<row, 2>>
  BY <1>1, <1>2, <1>3
<1> HIDE DEF more, n
<1>7. IsRows(more)
  <2> SUFFICES ASSUME NEW i \in 0..(n + 1) - 1
               PROVE  more[2 * i + 1][2] = 1 /\ more[2 * i + 2] = <<more[2 * i + 1][1], 2>>
    BY <1>3, <1>4 DEF IsRows
  <2>1. CASE i = n
    BY <2>1, <1>6
  <2>2. CASE i # n
    <3>1. i \in 0..n - 1
      BY <2>2, <1>2
    <3>2. QED BY <3>1, <1>5 DEF IsRows, n
  <2>3. QED BY <2>1, <2>2
<1>8. ASSUME NEW i \in 0..n - 1 PROVE RowIn(more, i) = RowIn(bytes, i)
  <2>1. i * RowByteSize + 1 = 2 * i + 1 /\ i * RowByteSize + 2 = 2 * i + 2
    BY <1>2 DEF RowByteSize
  <2>2. QED BY <2>1, <1>5 DEF RowIn
<1>9. RowIn(more, n) = row
  <2>1. n * RowByteSize + 1 = 2 * n + 1 /\ n * RowByteSize + 2 = 2 * n + 2
    BY <1>2 DEF RowByteSize
  <2>2. QED BY <2>1, <1>6 DEF RowIn, RowBytes
<1>10. QED BY <1>4, <1>7, <1>8, <1>9 DEF more, n

\* Lines stay where they are when something is appended, a line or a part of one.
LEMMA LinesStay ==
    ASSUME NEW bytes \in Seq(LineByte), NEW part \in Seq(LineByte)
    PROVE  /\ bytes \o part \in Seq(LineByte)
           /\ \A from, order : IsLine(bytes, from, order) => IsLine(bytes \o part, from, order)
<1>1. /\ bytes \o part \in Seq(LineByte) /\ Len(bytes \o part) = Len(bytes) + Len(part)
      /\ Len(bytes) \in Nat /\ Len(part) \in Nat
      /\ \A i \in 1..Len(bytes) : (bytes \o part)[i] = bytes[i]
  BY ConcatProperties
<1>2. ASSUME NEW from, NEW order, IsLine(bytes, from, order)
      PROVE  IsLine(bytes \o part, from, order)
  BY <1>1, <1>2 DEF IsLine
<1>3. QED BY <1>1, <1>2

\* A line that is appended starts where the bytes before it end.
LEMMA LineIsAppended ==
    ASSUME NEW bytes \in Seq(LineByte), NEW text \in [of : Nat, id : Nat]
    PROVE  /\ LineBytes(text) \in Seq(LineByte)
           /\ IsLine(bytes \o LineBytes(text), Len(bytes), text.of)
<1>1. /\ LineBytes(text) \in Seq(LineByte) /\ Len(LineBytes(text)) = 2
      /\ LineBytes(text)[1] = [text |-> text, end |-> FALSE]
      /\ LineBytes(text)[2] = [text |-> text, end |-> TRUE]
  BY DEF LineBytes, LineByte
<1>2. /\ Len(bytes) \in Nat /\ Len(bytes \o LineBytes(text)) = Len(bytes) + 2
      /\ (bytes \o LineBytes(text))[Len(bytes) + 1] = LineBytes(text)[1]
      /\ (bytes \o LineBytes(text))[Len(bytes) + 2] = LineBytes(text)[2]
  <2> DEFINE line == LineBytes(text)
  <2>1. Len(bytes) \in Nat /\ Len(line) = 2
    BY <1>1, LenProperties
  <2>2. /\ Len(bytes \o line) = Len(bytes) + Len(line)
        /\ \A i \in 1..Len(bytes) + Len(line) :
              (bytes \o line)[i] = IF i <= Len(bytes) THEN bytes[i] ELSE line[i - Len(bytes)]
    BY <1>1, ConcatProperties
  <2> HIDE DEF line
  <2>3. /\ Len(bytes) + 1 \in 1..Len(bytes) + Len(line) /\ (Len(bytes) + 1) - Len(bytes) = 1
        /\ Len(bytes) + 2 \in 1..Len(bytes) + Len(line) /\ (Len(bytes) + 2) - Len(bytes) = 2
        /\ ~(Len(bytes) + 1 <= Len(bytes)) /\ ~(Len(bytes) + 2 <= Len(bytes))
    BY <2>1
  <2>4. QED BY <2>1, <2>2, <2>3 DEF line
<1>3. QED BY <1>1, <1>2 DEF IsLine

\* What is read as the line at its offset is that line.
LEMMA LinesAreRead ==
    ASSUME NEW bytes \in Seq(LineByte), NEW from, NEW order, IsLine(bytes, from, order)
    PROVE  /\ HasLine(bytes, from)
           /\ \A n \in 1..2 : LineIn(bytes, from)[n].text.of = order
<1>1. from \in Nat /\ Len(bytes) \in Nat /\ from + 2 \in 1..Len(bytes) /\ from + 1 \in 1..Len(bytes)
  BY DEF IsLine
<1>2. from + 2 \in LineEnds(bytes, from) /\ \A k \in LineEnds(bytes, from) : from + 2 <= k
  BY <1>1 DEF IsLine, LineEnds
<1>3. LineEnds(bytes, from) \subseteq Int
  BY <1>1 DEF LineEnds
<1>4. Min(LineEnds(bytes, from)) = from + 2
  <2>1. Min(LineEnds(bytes, from)) \in LineEnds(bytes, from)
        /\ \A k \in LineEnds(bytes, from) : Min(LineEnds(bytes, from)) <= k
    BY <1>2 DEF Min
  <2>2. QED BY <1>1, <1>2, <1>3, <2>1
<1>5. \A n \in 1..2 : LineIn(bytes, from)[n] = bytes[from + n]
  <2>1. \A i \in (from + 1)..(from + 2) : bytes[i] \in LineByte
    BY <1>1
  <2>2. \A n \in 1..2 : SubSeq(bytes, from + 1, from + 2)[n] = bytes[(from + 1) + n - 1]
    <3> DEFINE m == from + 1
               k == from + 2
    <3>1. m \in Int /\ k \in Int /\ k - m + 1 = 2 /\ \A i \in m..k : bytes[i] \in LineByte
      BY <1>1, <2>1
    <3> HIDE DEF m, k
    <3>2. \A n \in 1..k - m + 1 : SubSeq(bytes, m, k)[n] = bytes[m + n - 1]
      BY <3>1, SubSeqProperties
    <3>3. QED BY <3>1, <3>2 DEF m, k
  <2>3. QED BY <1>1, <1>4, <2>2 DEF LineIn
<1>6. QED BY <1>2, <1>5 DEF HasLine, IsLine

-----------------------------------------------------------------------------
(* What is in the files *)

\* What the assumptions on the constants give.
LEMMA ConstantsFit ==
    /\ RowsPerChunk \in Nat /\ RowsPerChunk >= 1
    /\ NoOne \notin Adders
    /\ IsFiniteSet(Cases)
    /\ \A c \in Cases : c.rows \in Nat /\ c.adds \in Nat
  BY ChunkAssumption

\* The rows of every chunk are whole rows, and no rows where there is no file.
LEMMA DirectoryRows ==
    ASSUME NEW fs, NEW n, IsDirectory(fs, n), NEW c
    PROVE  LET rows == RowsIn(fs, c)
           IN /\ IsRows(rows) /\ getChunkRowCount(rows) \in Nat
              /\ <<"rows", c>> \notin DOMAIN fs => getChunkRowCount(rows) = 0
              /\ \A i \in 0..getChunkRowCount(rows) - 1 : RowIn(rows, i) \in StoredRow
              /\ \A i \in Int : HasRow(rows, i) <=> i \in 0..getChunkRowCount(rows) - 1
<1> DEFINE rows == RowsIn(fs, c)
<1>1. IsRows(rows) /\ (<<"rows", c>> \notin DOMAIN fs => rows = << >>)
  BY NoRowsAreRows DEF IsDirectory, RowsIn
<1> HIDE DEF rows
<1>2. /\ getChunkRowCount(rows) \in Nat
      /\ \A i \in 0..getChunkRowCount(rows) - 1 : RowIn(rows, i) \in StoredRow
      /\ \A i \in Int : HasRow(rows, i) <=> i \in 0..getChunkRowCount(rows) - 1
  BY <1>1, RowsAreRead
<1>3. QED BY <1>1, <1>2, NoRowsAreRows DEF rows

\* The file of a chunk's rows has whole rows, and none when it is not there.
LEMMA RowFiles ==
    ASSUME FilesFit, NEW c
    PROVE  /\ IsRows(RowsOf(c)) /\ NumRows(c) \in Nat
           /\ <<"rows", c>> \notin DOMAIN files => NumRows(c) = 0
           /\ \A i \in 0..NumRows(c) - 1 : RowIn(RowsOf(c), i) \in StoredRow
           /\ \A i \in Int : HasRow(RowsOf(c), i) <=> i \in 0..NumRows(c) - 1
  BY DirectoryRows DEF FilesFit, RowsOf, NumRows

\* The same after a step that keeps this.
LEMMA NextRowFiles ==
    ASSUME FilesFit', NEW c
    PROVE  /\ IsRows(RowsOf(c)') /\ NumRows(c)' \in Nat
           /\ <<"rows", c>> \notin DOMAIN files' => NumRows(c)' = 0
           /\ \A i \in 0..NumRows(c)' - 1 : RowIn(RowsOf(c)', i) \in StoredRow
           /\ \A i \in Int : HasRow(RowsOf(c)', i) <=> i \in 0..NumRows(c)' - 1
  BY DirectoryRows DEF FilesFit, RowsOf, NumRows

\* A chunk with rows has its three files.
LEMMA ChunksHaveFiles ==
    ASSUME FilesFit, RowsFit, NEW c \in Nat, NumRows(c) > 0
    PROVE  \A type \in ChunkTypes : <<type, c>> \in DOMAIN files
<1>1. 0 \in 0..NumRows(c) - 1 /\ <<"rows", c>> \in DOMAIN files
  BY RowFiles
<1>2. RowFits(RowIn(RowsOf(c), 0), c)
  BY <1>1 DEF RowsFit
<1>3. QED BY <1>1, <1>2 DEF RowFits, HasLineOf, ChunkTypes

KeptRows == \A c \in Nat : RowsOf(c)' = RowsOf(c)
KeptLines ==
    \A type \in {"match", "aux"}, c \in Nat : \A from, order :
        HasLineOf(type, c, from, order) => HasLineOf(type, c, from, order)'

\* Files that are opened, and made if they are not there, change nothing.
LEMMA OpenedFiles ==
    ASSUME FilesFit, adds \in Nat, UNCHANGED adds,
           NEW names \in SUBSET (ChunkTypes \X (0..adds)), files' = Opened(files, names)
    PROVE  /\ FilesFit' /\ KeptRows /\ KeptLines
           /\ DOMAIN files' = DOMAIN files \cup names
<1>1. /\ DOMAIN files' = DOMAIN files \cup names
      /\ \A name \in DOMAIN files : files'[name] = files[name]
      /\ \A name \in names : name \notin DOMAIN files => files'[name] = << >>
  BY DEF Opened
<1>2. << >> \in Seq(LineByte)
  BY EmptySeq
<1>3. FilesFit'
  BY <1>1, <1>2, NoRowsAreRows DEF FilesFit, IsDirectory
<1>4. KeptRows
  BY <1>1 DEF KeptRows, RowsOf, RowsIn
<1>5. KeptLines
  BY <1>1 DEF KeptLines, HasLineOf
<1>6. QED BY <1>1, <1>3, <1>4, <1>5

\* A step that keeps the rows keeps their number.
LEMMA NumRowsKept ==
    ASSUME KeptRows, NEW c \in Nat
    PROVE  NumRows(c)' = NumRows(c)
  BY DEF KeptRows, NumRows

\* A step that keeps the rows loses none.
LEMMA NoRowsLost ==
    ASSUME FilesFit, KeptRows
    PROVE  \A c \in Nat : NumRows(c)' >= NumRows(c) /\ NumRows(c)' = NumRows(c) /\ NumRows(c) \in Nat
<1> SUFFICES ASSUME NEW c \in Nat
             PROVE  NumRows(c)' >= NumRows(c) /\ NumRows(c)' = NumRows(c) /\ NumRows(c) \in Nat
  OBVIOUS
<1>1. NumRows(c)' = NumRows(c) /\ NumRows(c) \in Nat
  BY NumRowsKept, RowFiles
<1>2. QED BY <1>1

\* Rows whose lines stay where they are fit on.
LEMMA RowsFitKept ==
    ASSUME FilesFit, RowsFit, KeptRows, KeptLines, adds \in Nat, adds' \in Nat, adds' >= adds
    PROVE  RowsFit'
<1> SUFFICES ASSUME NEW c \in Nat, NEW i \in 0..NumRows(c)' - 1
             PROVE  RowFits(RowIn(RowsOf(c), i), c)'
  BY DEF RowsFit
<1>1. i \in 0..NumRows(c) - 1 /\ RowsOf(c)' = RowsOf(c)
  BY NumRowsKept DEF KeptRows
<1>2. PICK row \in StoredRow : row = RowIn(RowsOf(c), i) /\ RowFits(row, c)
  BY <1>1, RowFiles DEF RowsFit
<1>3. row.id \in Nat /\ row.id <= adds'
  BY <1>2 DEF RowFits, StoredRow, Row
<1>4. RowFits(row, c)'
  BY <1>2, <1>3 DEF RowFits, KeptLines
<1>5. QED BY <1>1, <1>2, <1>4

\* Who adds fits on where no file and no line is lost.
LEMMA AddersFitKept ==
    ASSUME CountsFit, AddersFit, KeptLines, DOMAIN files \subseteq DOMAIN files',
           UNCHANGED <<add, lock, top, count, lastID>>
    PROVE  AddersFit'
<1>1. ASSUME NEW a \in Adders, lock = a PROVE HolderFits(a)'
  <2>1. HolderFits(a)
    BY <1>1 DEF AddersFit
  <2>2. QED BY <2>1 DEF HolderFits, KeptLines, AddedFile, CountsFit
<1>2. QED BY <1>1 DEF AddersFit

\* The counters fit on where none but bottom, count and lastID change, within their bounds.
LEMMA CountsFitKept ==
    ASSUME CountsFit, Waiting' = Waiting, UNCHANGED <<top, adds, up, case>>,
           bottom' \in Nat, count' \in 0..RowsPerChunk, lastID' \in 0..lastID
    PROVE  CountsFit'
<1>1. Cardinality(Waiting) \in Nat
  BY FS_CardinalityType DEF CountsFit
<1>2. QED BY <1>1 DEF CountsFit

\* A deletion fits on where the rows stay.
LEMMA DeletionFitsKept ==
    ASSUME DeletionFits, KeptRows, UNCHANGED <<del, case, bottom, top>>
    PROVE  DeletionFits'
  BY NumRowsKept DEF DeletionFits

\* The chunks fit on where their rows and the counters stay, and files are of chunks up
\* to top.
LEMMA ChunksStay ==
    ASSUME CountsFit, ChunksFit, KeptRows, UNCHANGED <<bottom, top, count, lock, case>>,
           \A c : IsEmptied(c)' = IsEmptied(c),
           \A name \in DOMAIN files' : name \in DOMAIN files \/ name[2] <= top
    PROVE  ChunksFit'
<1>1. \A c \in Nat : NumRows(c)' = NumRows(c)
  BY NumRowsKept
<1>2. top \in Nat /\ bottom \in Nat
  BY DEF CountsFit
<1>3. \A c \in bottom..top - 1 : c \in Nat
  BY <1>2
<1>4. /\ \A c \in Nat : c < top' => NumRows(c)' <= RowsPerChunk
      /\ \A c \in Nat : c < bottom' => NumRows(c)' = 0
      /\ NumRows(top)' <= count' - Pending'
  BY <1>1, <1>2 DEF ChunksFit, Pending
<1>5. IsExact' => /\ NumRows(top)' = count' - Pending'
                  /\ \A c \in bottom'..top' - 1 : NumRows(c)' = RowsPerChunk \/ IsEmptied(c)'
  BY <1>1, <1>2, <1>3 DEF ChunksFit, Pending, IsExact
<1>6. QED BY <1>4, <1>5 DEF ChunksFit

\* The same where the deletion does not go on.
LEMMA ChunksFitKept ==
    ASSUME CountsFit, ChunksFit, KeptRows, UNCHANGED <<bottom, top, count, lock, del, case>>,
           \A name \in DOMAIN files' : name \in DOMAIN files \/ name[2] <= top
    PROVE  ChunksFit'
<1>1. \A c : IsEmptied(c)' = IsEmptied(c)
  BY DEF IsEmptied
<1>2. QED BY <1>1, ChunksStay

\* A reader is none the worse for it when no file it has open is removed, or loses rows.
LEMMA ReaderFitsKept ==
    ASSUME FilesFit, FilesFit', CountsFit, NEW r \in Readers, ReaderFits(r), it[r] \in Iteration,
           it'[r] = it[r], top' \in Nat, top' >= top, DOMAIN files \subseteq DOMAIN files',
           \A c \in Nat : NumRows(c)' >= NumRows(c)
    PROVE  ReaderFits(r)'
<1> PICK i \in Iteration : i = it[r]
  OBVIOUS
<1>1. ReaderFits(r) /\ i = it'[r]
  OBVIOUS
<1>2. i.chunk \in Nat /\ i.index \in Int /\ i.chunk <= top'
  BY <1>1 DEF Iteration, ReaderFits, CountsFit
<1>3. ASSUME i.at = "match", i.rows.state = "live"
      PROVE  HasRow(files'[<<"rows", i.chunk>>], i.index)
  <2>1. /\ <<"rows", i.chunk>> \in DOMAIN files /\ <<"rows", i.chunk>> \in DOMAIN files'
        /\ HasRow(files[<<"rows", i.chunk>>], i.index)
    BY <1>1, <1>3 DEF ReaderFits, Held
  <2>2. /\ RowsOf(i.chunk) = files[<<"rows", i.chunk>>]
        /\ RowsOf(i.chunk)' = files'[<<"rows", i.chunk>>]
    BY <2>1 DEF RowsOf, RowsIn
  <2>3. i.index \in 0..NumRows(i.chunk) - 1
    BY <1>2, <2>1, <2>2, RowFiles
  <2>4. NumRows(i.chunk) \in Nat /\ NumRows(i.chunk)' \in Nat /\ NumRows(i.chunk)' >= NumRows(i.chunk)
    BY <1>2, RowFiles, NextRowFiles
  <2>5. i.index \in 0..NumRows(i.chunk)' - 1
    BY <2>3, <2>4
  <2>6. HasRow(RowsOf(i.chunk)', i.index)
    BY <1>2, <2>5, NextRowFiles
  <2>7. QED BY <2>2, <2>6
<1>4. QED BY <1>1, <1>2, <1>3 DEF ReaderFits, Held

\* The readers fit where the files they have open stay.
LEMMA ReadersFitKept ==
    ASSUME FilesFit, FilesFit', CountsFit, ReadersFit, UNCHANGED it,
           top' \in Nat, top' >= top, DOMAIN files \subseteq DOMAIN files',
           \A c \in Nat : NumRows(c)' >= NumRows(c)
    PROVE  ReadersFit'
<1> SUFFICES ASSUME NEW r \in Readers, IsReading(r) PROVE ReaderFits(r)'
  BY DEF ReadersFit, IsReading
<1>1. it[r] \in Iteration /\ ReaderFits(r) /\ it'[r] = it[r]
  BY DEF ReadersFit
<1>2. QED BY <1>1, ReaderFitsKept

\* There are no more chunks and no more IDs than there were adds.
LEMMA BoundsFit ==
    ASSUME CountsFit
    PROVE  /\ top \in Nat /\ adds \in Nat /\ top <= adds /\ lastID <= adds
           /\ Cardinality(Waiting) \in Nat
  BY FS_CardinalityType DEF CountsFit

\* Whoever does something does it while the process runs.
LEMMA DoersAreUp ==
    ASSUME Inv
    PROVE  /\ \A a \in Adders : add[a].at # "idle" => up
           /\ \A r \in Readers : it[r].at # "idle" => up
           /\ del.at # "idle" => up
           /\ up => ChunksFit
  BY DEF Inv, DownFits, NotAdding, NotIterating, NotDeleting

\* Where the files stay, so do rows and lines.
LEMMA SameFiles ==
    ASSUME FilesFit, adds \in Nat, adds' \in Nat, adds' >= adds, UNCHANGED files
    PROVE  FilesFit' /\ KeptRows /\ KeptLines
<1>1. FilesFit'
  BY DEF FilesFit, IsDirectory
<1>2. KeptRows /\ KeptLines
  BY DEF KeptRows, KeptLines, RowsOf, HasLineOf
<1>3. QED BY <1>1, <1>2

\* What a step keeps that only opens files.
LEMMA OpeningKeeps ==
    ASSUME FilesFit, RowsFit, CountsFit, UNCHANGED adds,
           NEW names \in SUBSET (ChunkTypes \X (0..top)), files' = Opened(files, names)
    PROVE  /\ FilesFit' /\ RowsFit' /\ KeptRows /\ KeptLines
           /\ DOMAIN files \subseteq DOMAIN files' /\ names \subseteq DOMAIN files'
           /\ \A name \in DOMAIN files' : name \in DOMAIN files \/ name[2] <= top
<1>1. top \in Nat /\ adds \in Nat /\ top <= adds
  BY BoundsFit
<1>2. names \in SUBSET (ChunkTypes \X (0..adds))
  BY <1>1
<1>3. FilesFit' /\ KeptRows /\ KeptLines /\ DOMAIN files' = DOMAIN files \cup names
  BY <1>1, <1>2, OpenedFiles
<1>4. RowsFit'
  BY <1>1, <1>3, RowsFitKept
<1>5. QED BY <1>1, <1>3, <1>4

-----------------------------------------------------------------------------
(* Adding *)

\* What is not being added fits.
LEMMA IdleAdding == NotAdding \in Adding /\ NotAdding.at = "idle"
  BY DEF NotAdding, Adding, ChunkTypes

\* A call waits with a number of its own.
LEMMA CallAddStep ==
    ASSUME Inv, NEW a \in Adders, CallAdd(a)
    PROVE  Inv'
<1>1. FilesFit /\ RowsFit /\ AddersFit /\ CountsFit /\ DeletionFits /\ ReadersFit /\ up /\ ChunksFit
  BY DEF Inv, CallAdd
<1>2. /\ top \in Nat /\ adds \in Nat /\ lastID \in Nat /\ adds' = adds + 1
      /\ UNCHANGED <<files, up, bottom, top, count, lastID, lock, del, it, case>>
      /\ add[a].at = "idle" /\ adds < case.rows + case.adds
      /\ add' = [add EXCEPT ![a] = [NotAdding EXCEPT !.at = "lock", !.order = adds + 1,
                                                     !.auxID = lastID + 1]]
  BY <1>1 DEF CallAdd, CountsFit, fields
<1>3. FilesFit' /\ KeptRows /\ KeptLines
  BY <1>1, <1>2, SameFiles
<1>4. RowsFit'
  BY <1>1, <1>2, <1>3, RowsFitKept
<1>5. AddersFit'
  <2> DEFINE w == [NotAdding EXCEPT !.at = "lock", !.order = adds + 1, !.auxID = lastID + 1]
  <2>6. w \in Adding /\ w.at = "lock" /\ w.type = "match"
    <3>1. /\ NotAdding \in Adding /\ adds + 1 \in Nat /\ lastID + 1 \in Nat
          /\ NotAdding.type = "match"
      BY <1>2, IdleAdding DEF NotAdding
    <3>2. QED BY <3>1 DEF Adding
  <2> HIDE DEF w
  <2>7. add' = [add EXCEPT ![a] = w] /\ add'[a] = w
    BY <1>1, <1>2 DEF w, AddersFit
  <2>2. add' \in [Adders -> Adding]
    BY <1>1, <2>6, <2>7 DEF AddersFit
  <2>3. ASSUME NEW b \in Adders
        PROVE  /\ lock = b <=> add'[b].at \in {"open", "write"}
               /\ add'[b].at = "lock" => add'[b].type = "match"
    BY <1>1, <1>2, <2>6, <2>7 DEF AddersFit
  <2>4. ASSUME NEW b \in Adders, lock = b PROVE HolderFits(b)'
    <3>1. b # a /\ add'[b] = add[b] /\ HolderFits(b)
      BY <1>1, <1>2, <2>4, <2>7 DEF AddersFit
    <3>2. QED BY <1>2, <3>1 DEF HolderFits, HasLineOf, AddedFile
  <2>5. QED BY <1>1, <1>2, <2>2, <2>3, <2>4 DEF AddersFit
<1>6. CountsFit'
  <2>1. Waiting' = Waiting \cup {a} /\ a \notin Waiting
    <3>1. /\ add'[a].at = "lock" /\ add[a].at = "idle"
          /\ \A b \in Adders : b # a => add'[b] = add[b]
      BY <1>1, <1>2, IdleAdding DEF AddersFit, Adding
    <3>2. QED BY <3>1 DEF Waiting
  <2>2. IsFiniteSet(Waiting') /\ Cardinality(Waiting') = Cardinality(Waiting) + 1
    BY <1>1, <2>1, FS_AddElement DEF CountsFit
  <2>3. Cardinality(Waiting) \in Nat
    BY <1>1, BoundsFit
  <2>4. case.rows + case.adds \in Nat
    BY <1>1, ConstantsFit DEF CountsFit
  <2>5. QED BY <1>1, <1>2, <2>2, <2>3, <2>4 DEF CountsFit
<1>7. DeletionFits' /\ ChunksFit'
  BY <1>1, <1>2, <1>3, DeletionFitsKept, ChunksFitKept
<1>8. ReadersFit'
  BY <1>1, <1>2 DEF ReadersFit, IsReading, ReaderFits, Held
<1>9. QED BY <1>1, <1>2, <1>3, <1>4, <1>5, <1>6, <1>7, <1>8 DEF Inv

\* The row is counted before there is anything of it; a new chunk is begun when the top one
\* is full.
LEMMA LockAddStep ==
    ASSUME Inv, NEW a \in Adders, LockAdd(a)
    PROVE  Inv'
<1>1. /\ FilesFit /\ RowsFit /\ AddersFit /\ CountsFit /\ DeletionFits /\ ReadersFit
      /\ up /\ ChunksFit
  BY DoersAreUp DEF Inv, LockAdd
<1>2. /\ top \in Nat /\ adds \in Nat /\ lastID \in Nat /\ bottom \in Nat /\ count \in 0..RowsPerChunk
      /\ UNCHANGED <<files, up, adds, bottom, del, it, case>>
      /\ add[a].at = "lock" /\ add[a].type = "match" /\ lock = NoOne /\ lock' = a /\ a # NoOne
      /\ add' = [add EXCEPT ![a].at = "open"]
      /\ lastID' = lastID + 1
      /\ IF count < RowsPerChunk THEN count' = count + 1 /\ top' = top
                                 ELSE count' = 1 /\ top' = top + 1
  BY <1>1, ConstantsFit DEF LockAdd, incrementRowOrChunk, CountsFit, AddersFit
<1>3. FilesFit' /\ KeptRows /\ KeptLines
  BY <1>1, <1>2, SameFiles
<1>4. RowsFit'
  BY <1>1, <1>2, <1>3, RowsFitKept
<1>5. RowsPerChunk \in Nat /\ RowsPerChunk >= 1 /\ top' \in Nat /\ top' >= top
      /\ count' \in 0..RowsPerChunk /\ count' >= 1
  BY <1>2, ConstantsFit
<1>6. AddersFit'
  <2>1. /\ add' \in [Adders -> Adding] /\ add'[a].at = "open" /\ add'[a].type = "match"
        /\ \A b \in Adders : b # a => add'[b] = add[b]
    BY <1>1, <1>2 DEF AddersFit, Adding
  <2>2. ASSUME NEW b \in Adders
        PROVE  /\ lock' = b <=> add'[b].at \in {"open", "write"}
               /\ add'[b].at = "lock" => add'[b].type = "match"
    <3>1. CASE b = a
      BY <1>2, <2>1, <3>1
    <3>2. CASE b # a
      <4>1. b # lock /\ b # lock' /\ add'[b] = add[b]
        BY <1>2, <2>1, <3>2, ConstantsFit
      <4>2. add[b].at \notin {"open", "write"} /\ (add[b].at = "lock" => add[b].type = "match")
        BY <1>1, <4>1 DEF AddersFit
      <4>3. QED BY <4>1, <4>2
    <3>3. QED BY <3>1, <3>2
  <2>3. HolderFits(a)'
    BY <1>2, <1>5, <2>1 DEF HolderFits
  <2>4. QED BY <1>2, <2>1, <2>2, <2>3 DEF AddersFit
<1>7. CountsFit'
  <2>1. Waiting' = Waiting \ {a} /\ a \in Waiting
    BY <1>1, <1>2 DEF Waiting, AddersFit, Adding
  <2>2. IsFiniteSet(Waiting') /\ Cardinality(Waiting') = Cardinality(Waiting) - 1
    BY <1>1, <2>1, FS_RemoveElement DEF CountsFit
  <2>3. Cardinality(Waiting) \in Nat
    BY <1>1, BoundsFit
  <2>4. QED BY <1>1, <1>2, <1>5, <2>2, <2>3 DEF CountsFit
<1>8. DeletionFits'
  BY <1>1, <1>2, <1>3, <1>5, NumRowsKept DEF DeletionFits
<1>9. ReadersFit'
  <2>1. \A c \in Nat : NumRows(c)' >= NumRows(c)
    BY <1>1, <1>3, NoRowsLost
  <2>2. QED BY <1>1, <1>2, <1>3, <1>5, <2>1, ReadersFitKept
<1>10. ChunksFit'
  <2>1. \A c \in Nat : NumRows(c)' = NumRows(c) /\ NumRows(c) \in Nat
    BY <1>1, <1>3, NumRowsKept, RowFiles
  <2>2. NumRows(top) <= count /\ (IsExact => NumRows(top) = count)
    BY <1>1, <1>2 DEF ChunksFit, Pending
  <2>3. Pending' = 1
    BY <1>2 DEF Pending
  <2>4. bottom' <= top' /\ \A name \in DOMAIN files' : name[2] <= top'
    <3>1. \A name \in DOMAIN files : name[2] <= top /\ name[2] \in Nat
      BY <1>1 DEF ChunksFit, FilesFit, IsDirectory
    <3>2. QED BY <1>1, <1>2, <1>5, <3>1 DEF ChunksFit
  <2>5. CASE count < RowsPerChunk
    <3>1. top' = top /\ count' = count + 1
      BY <1>2, <2>5
    <3>2. \A c \in bottom..top - 1 : c \in Nat
      BY <1>2
    <3>3. NumRows(top') = NumRows(top)
      BY <3>1
    <3>4. NumRows(top)' = NumRows(top)
      BY <1>2, <2>1, <3>1
    <3>5. QED BY <1>1, <1>2, <2>1, <2>2, <2>3, <2>4, <3>1, <3>2, <3>4
              DEF ChunksFit, IsExact, IsEmptied
  <2>6. CASE ~(count < RowsPerChunk)
    <3>1. top' = top + 1 /\ count' = 1 /\ count = RowsPerChunk
      BY <1>2, <1>5, <2>6
    <3>2. NumRows(top)' = 0
      <4>1. PICK t \in Nat : t = top'
        BY <1>5
      <4>2. <<"rows", t>> \notin DOMAIN files
        BY <1>1, <1>2, <3>1, <4>1 DEF ChunksFit
      <4>3. NumRows(t)' = 0
        BY <1>1, <2>1, <4>2, RowFiles
      <4>4. QED BY <4>1, <4>3 DEF NumRows, RowsOf
    <3>3. \A c \in Nat : c < top' => NumRows(c)' <= RowsPerChunk
      <4> SUFFICES ASSUME NEW c \in Nat, c < top' PROVE NumRows(c) <= RowsPerChunk
        BY <2>1
      <4>1. CASE c = top
        BY <1>2, <2>1, <2>2, <3>1, <4>1
      <4>2. CASE c # top
        <5>1. c < top
          BY <1>2, <3>1, <4>2
        <5>2. QED BY <1>1, <5>1 DEF ChunksFit
      <4>3. QED BY <4>1, <4>2
    <3>4. IsExact => \A c \in bottom..top' - 1 : NumRows(c)' = RowsPerChunk \/ IsEmptied(c)
      <4> SUFFICES ASSUME IsExact, NEW c \in bottom..top' - 1
                   PROVE  NumRows(c) = RowsPerChunk \/ IsEmptied(c)
        BY <1>2, <1>5, <2>1
      <4>1. CASE c = top
        BY <2>2, <3>1, <4>1
      <4>2. CASE c # top
        <5>1. c \in bottom..top - 1
          BY <1>2, <3>1, <4>2
        <5>2. QED BY <1>1, <5>1 DEF ChunksFit
      <4>3. QED BY <4>1, <4>2
    <3>5. \A c \in Nat : c < bottom => NumRows(c)' = 0
      BY <1>1, <2>1 DEF ChunksFit
    <3>6. IsExact' = IsExact /\ \A c : IsEmptied(c)' = IsEmptied(c)
      BY <1>2 DEF IsExact, IsEmptied
    <3>7. count' - Pending' = 0
      BY <2>3, <3>1
    <3>8. case'.faults \subseteq {"crash"} => bottom' = 0
      BY <1>1, <1>2 DEF ChunksFit
    <3>9. QED BY <1>2, <2>1, <2>4, <3>2, <3>3, <3>4, <3>5, <3>6, <3>7, <3>8
              DEF ChunksFit
  <2>7. QED BY <2>5, <2>6
<1>11. QED BY <1>1, <1>2, <1>3, <1>4, <1>6, <1>7, <1>8, <1>9, <1>10 DEF Inv

\* Who appends to a file holds the lock, and has counted its row.
LEMMA HoldersFit ==
    ASSUME Inv, NEW a \in Adders, add[a].at \in {"open", "write"}
    PROVE  /\ FilesFit /\ RowsFit /\ AddersFit /\ CountsFit /\ DeletionFits /\ ReadersFit
           /\ up /\ ChunksFit
           /\ lock = a /\ HolderFits(a) /\ Pending = 1
           /\ add[a] \in Adding /\ add[a].type \in ChunkTypes
           /\ top \in Nat /\ bottom \in Nat /\ adds \in Nat /\ lastID \in Nat
           /\ count \in 0..RowsPerChunk /\ RowsPerChunk \in Nat
<1>1. /\ FilesFit /\ RowsFit /\ AddersFit /\ CountsFit /\ DeletionFits /\ ReadersFit
      /\ up /\ ChunksFit
  BY DoersAreUp DEF Inv
<1>2. lock = a /\ HolderFits(a) /\ add[a] \in Adding
  BY <1>1 DEF AddersFit
<1>3. Pending = 1
  BY <1>2, ConstantsFit DEF Pending
<1>4. add[a].type \in ChunkTypes
  BY <1>2 DEF Adding
<1>5. QED BY <1>1, <1>2, <1>3, <1>4, ConstantsFit DEF CountsFit

\* While one goroutine holds the lock, or when it lets it go, the others stay where they are.
LEMMA HolderMoves ==
    ASSUME AddersFit, NEW a \in Adders, lock = a, NEW w \in Adding, add' = [add EXCEPT ![a] = w],
           \/ w.at \in {"open", "write"} /\ lock' = lock /\ HolderFits(a)'
           \/ w.at = "idle" /\ lock' = NoOne
    PROVE  AddersFit' /\ Waiting' = Waiting
<1>1. /\ add' \in [Adders -> Adding] /\ add'[a] = w
      /\ \A b \in Adders : b # a => add'[b] = add[b]
  BY DEF AddersFit
<1>2. lock' \in Adders \cup {NoOne}
  OBVIOUS
<1>3. ASSUME NEW b \in Adders
      PROVE  /\ lock' = b <=> add'[b].at \in {"open", "write"}
             /\ add'[b].at = "lock" => add'[b].type = "match"
             /\ add'[b].at = "lock" <=> add[b].at = "lock"
  <2>1. CASE b = a
    BY <1>1, <2>1, ConstantsFit DEF AddersFit
  <2>2. CASE b # a
    <3>1. b # lock /\ b # lock' /\ add'[b] = add[b]
      BY <1>1, <2>2, ConstantsFit
    <3>2. add[b].at \notin {"open", "write"} /\ (add[b].at = "lock" => add[b].type = "match")
      BY <3>1 DEF AddersFit
    <3>3. QED BY <3>1, <3>2
  <2>3. QED BY <2>1, <2>2
<1>4. ASSUME NEW b \in Adders, lock' = b PROVE HolderFits(b)'
  <2>1. b = a /\ HolderFits(a)'
    BY <1>4, ConstantsFit
  <2>2. QED BY <2>1
<1>5. AddersFit'
  BY <1>1, <1>2, <1>3, <1>4 DEF AddersFit
<1>6. Waiting' = Waiting
  BY <1>3 DEF Waiting
<1>7. QED BY <1>5, <1>6

\* Add opens, or creates, a file of the top chunk.
LEMMA OpenChunkFileStep ==
    ASSUME Inv, NEW a \in Adders, OpenChunkFile(a)
    PROVE  Inv'
<1>1. /\ FilesFit /\ RowsFit /\ AddersFit /\ CountsFit /\ DeletionFits /\ ReadersFit
      /\ up /\ ChunksFit
      /\ lock = a /\ HolderFits(a) /\ add[a] \in Adding /\ add[a].type \in ChunkTypes
      /\ top \in Nat /\ bottom \in Nat /\ lastID \in Nat /\ count \in 0..RowsPerChunk
  BY HoldersFit DEF OpenChunkFile
<1>2. /\ UNCHANGED <<up, bottom, top, count, lastID, lock, adds, del, it, case>>
      /\ files' = Opened(files, {AddedFile(a)})
      /\ add' = [add EXCEPT ![a].at = "write"]
  BY DEF OpenChunkFile, fields
<1> DEFINE w == [add[a] EXCEPT !.at = "write"]
<1>3. w \in Adding /\ w.at = "write" /\ w.type = add[a].type /\ w.order = add[a].order
      /\ w.pos = add[a].pos
  BY <1>1 DEF Adding
<1>4. add' = [add EXCEPT ![a] = w] /\ add'[a] = w
  BY <1>1, <1>2 DEF AddersFit
<1> HIDE DEF w
<1>5. {AddedFile(a)} \in SUBSET (ChunkTypes \X (0..top))
  BY <1>1 DEF AddedFile
<1>6. /\ FilesFit' /\ RowsFit' /\ KeptRows /\ KeptLines
      /\ DOMAIN files \subseteq DOMAIN files' /\ AddedFile(a) \in DOMAIN files'
      /\ \A name \in DOMAIN files' : name \in DOMAIN files \/ name[2] <= top
  BY <1>1, <1>2, <1>5, OpeningKeeps
<1>7. HolderFits(a)'
  <2>1. AddedFile(a)' = AddedFile(a)
    BY <1>2, <1>3, <1>4 DEF AddedFile
  <2>2. QED BY <1>1, <1>2, <1>3, <1>4, <1>6, <2>1 DEF HolderFits, KeptLines
<1>8. AddersFit' /\ Waiting' = Waiting
  BY <1>1, <1>2, <1>3, <1>4, <1>7, HolderMoves
<1>9. CountsFit'
  BY <1>1, <1>2, <1>8, CountsFitKept
<1>10. DeletionFits' /\ ChunksFit'
  BY <1>1, <1>2, <1>6, DeletionFitsKept, ChunksFitKept
<1>11. ReadersFit'
  <2>1. \A c \in Nat : NumRows(c)' >= NumRows(c)
    BY <1>1, <1>6, NoRowsLost
  <2>2. QED BY <1>1, <1>2, <1>6, <2>1, ReadersFitKept
<1>12. QED BY <1>1, <1>2, <1>6, <1>8, <1>9, <1>10, <1>11 DEF Inv

\* Lines are appended to a file of lines, whole or in part, and all that was there stays.
LEMMA LinesAppended ==
    ASSUME FilesFit, NEW type \in {"match", "aux"}, NEW c, <<type, c>> \in DOMAIN files,
           NEW part \in Seq(LineByte), UNCHANGED adds,
           files' = [files EXCEPT ![<<type, c>>] = @ \o part]
    PROVE  /\ FilesFit' /\ KeptRows /\ KeptLines /\ DOMAIN files' = DOMAIN files
           /\ files[<<type, c>>] \in Seq(LineByte)
<1>1. /\ DOMAIN files' = DOMAIN files
      /\ files'[<<type, c>>] = files[<<type, c>>] \o part
      /\ \A name \in DOMAIN files : name # <<type, c>> => files'[name] = files[name]
  OBVIOUS
<1>2. files[<<type, c>>] \in Seq(LineByte)
  BY DEF FilesFit, IsDirectory
<1>3. /\ files'[<<type, c>>] \in Seq(LineByte)
      /\ \A from, order : IsLine(files[<<type, c>>], from, order)
                             => IsLine(files'[<<type, c>>], from, order)
  BY <1>1, <1>2, LinesStay
<1>4. FilesFit'
  BY <1>1, <1>3 DEF FilesFit, IsDirectory
<1>5. KeptRows
  <2> SUFFICES ASSUME NEW d \in Nat PROVE RowsOf(d)' = RowsOf(d)
    BY DEF KeptRows
  <2>1. <<"rows", d>> # <<type, c>>
    OBVIOUS
  <2>2. QED BY <1>1, <2>1 DEF RowsOf, RowsIn
<1>6. KeptLines
  <2> SUFFICES ASSUME NEW t \in {"match", "aux"}, NEW d \in Nat, NEW from, NEW order,
                      HasLineOf(t, d, from, order)
               PROVE  HasLineOf(t, d, from, order)'
    BY DEF KeptLines
  <2>1. <<t, d>> \in DOMAIN files /\ IsLine(files[<<t, d>>], from, order)
    BY DEF HasLineOf
  <2>2. IsLine(files'[<<t, d>>], from, order)
    BY <1>1, <1>3, <2>1
  <2>3. QED BY <1>1, <2>1, <2>2 DEF HasLineOf
<1>7. QED BY <1>1, <1>2, <1>4, <1>5, <1>6

\* What Add appends to a file of lines is a line of its row.
LEMMA AddedLine ==
    ASSUME NEW a \in Adders, add[a] \in Adding, add[a].type \in {"match", "aux"}
    PROVE  \E text \in [of : Nat, id : Nat] :
              text.of = add[a].order /\ AddedBytes(a) = LineBytes(text)
<1>1. add[a].order \in Nat /\ add[a].auxID \in Nat
  BY DEF Adding
<1>2. CASE add[a].type = "match"
  <2>1. AddedBytes(a) = LineBytes([of |-> add[a].order, id |-> 0])
    BY <1>2 DEF AddedBytes
  <2>2. QED BY <1>1, <2>1
<1>3. CASE add[a].type = "aux"
  <2>1. AddedBytes(a) = LineBytes([of |-> add[a].order, id |-> add[a].auxID])
    BY <1>3 DEF AddedBytes
  <2>2. QED BY <1>1, <2>1
<1>4. QED BY <1>2, <1>3

\* The line is where its row will be told it is.
LEMMA AppendLineStep ==
    ASSUME Inv, NEW a \in Adders, AppendLine(a)
    PROVE  Inv'
<1>1. /\ FilesFit /\ RowsFit /\ AddersFit /\ CountsFit /\ DeletionFits /\ ReadersFit
      /\ up /\ ChunksFit
      /\ lock = a /\ HolderFits(a) /\ add[a] \in Adding /\ add[a].type \in {"match", "aux"}
      /\ top \in Nat /\ bottom \in Nat /\ lastID \in Nat /\ count \in 0..RowsPerChunk
      /\ adds \in Nat /\ AddedFile(a) \in DOMAIN files
  BY HoldersFit DEF AppendLine, ChunkTypes, HolderFits
<1> PICK type \in {"match", "aux"} : type = add[a].type
  BY <1>1
<1> PICK order \in Nat : order = add[a].order
  BY <1>1 DEF Adding
<1> PICK at : at = Len(files[<<type, top>>])
  OBVIOUS
<1> DEFINE w == [add[a] EXCEPT !.at = "open", !.type = NextType[@], !.pos[type] = at]
<1>2. /\ UNCHANGED <<up, bottom, top, count, lastID, lock, adds, del, it, case>>
      /\ AddedFile(a) = <<type, top>> /\ <<type, top>> \in DOMAIN files
      /\ files' = [files EXCEPT ![<<type, top>>] = @ \o AddedBytes(a)]
      /\ add' = [add EXCEPT ![a] = w]
  BY <1>1 DEF AppendLine, fields, AddedFile, AddersFit
<1>3. PICK text \in [of : Nat, id : Nat] : text.of = order /\ AddedBytes(a) = LineBytes(text)
  BY <1>1, AddedLine
<1>4. LineBytes(text) \in Seq(LineByte)
  BY <1>3, LineIsAppended, EmptySeq
<1>5. /\ FilesFit' /\ KeptRows /\ KeptLines /\ DOMAIN files' = DOMAIN files
      /\ files[<<type, top>>] \in Seq(LineByte)
  BY <1>1, <1>2, <1>3, <1>4, LinesAppended
<1>6. RowsFit'
  BY <1>1, <1>2, <1>5, RowsFitKept
<1>7. at \in Nat /\ HasLineOf(type, top, at, order)'
  <2>1. files'[<<type, top>>] = files[<<type, top>>] \o LineBytes(text)
    BY <1>2, <1>3
  <2>2. IsLine(files'[<<type, top>>], at, text.of) /\ at \in Nat
    BY <1>5, <2>1, LineIsAppended
  <2>3. QED BY <1>2, <1>3, <1>5, <2>2 DEF HasLineOf
<1>8. /\ w \in Adding /\ w.at = "open" /\ w.order = order
      /\ w.type = NextType[type] /\ w.pos = [add[a].pos EXCEPT ![type] = at]
  <2>1. add[a].pos \in [match : Int, aux : Int]
    BY <1>1 DEF Adding
  <2>2. PICK pos \in [match : Int, aux : Int] : pos = [add[a].pos EXCEPT ![type] = at]
    <3>1. [add[a].pos EXCEPT ![type] = at] \in [match : Int, aux : Int]
      BY <1>7, <2>1
    <3>2. QED BY <3>1
  <2>3. PICK next \in ChunkTypes : next = NextType[type]
    BY DEF NextType, ChunkTypes
  <2>4. w = [add[a] EXCEPT !.at = "open", !.type = next, !.pos = pos]
    BY <2>2, <2>3
  <2>5. QED BY <1>1, <2>2, <2>3, <2>4 DEF Adding
<1>9. /\ type = "match" => w.type = "aux" /\ w.pos.match = at
      /\ type = "aux" => w.type = "rows" /\ w.pos.aux = at /\ w.pos.match = add[a].pos.match
  <2> PICK pos \in [match : Int, aux : Int] : pos = add[a].pos
    BY <1>1 DEF Adding
  <2> PICK next : next = w
    OBVIOUS
  <2> HIDE DEF w
  <2>1. next.type = NextType[type] /\ next.pos = [pos EXCEPT ![type] = at]
    BY <1>8
  <2>2. NextType["match"] = "aux" /\ NextType["aux"] = "rows"
    BY DEF NextType
  <2>3. type = "match" => next.pos.match = at
    BY <2>1
  <2>4. type = "aux" => next.pos.aux = at /\ next.pos.match = pos.match
    BY <2>1
  <2>5. QED BY <2>1, <2>2, <2>3, <2>4
<1>10. add'[a] = w
  BY <1>1, <1>2 DEF AddersFit
<1> HIDE DEF w
<1>16. HolderFits(a)'
  <2>1. CASE type = "match"
    BY <1>1, <1>2, <1>7, <1>8, <1>9, <1>10, <2>1 DEF HolderFits
  <2>2. CASE type = "aux"
    <3>1. PICK from : from = add[a].pos.match
      OBVIOUS
    <3>2. HasLineOf("match", top, from, order)'
      BY <1>1, <1>2, <1>5, <2>2, <3>1 DEF HolderFits, KeptLines
    <3>3. QED BY <1>1, <1>2, <1>7, <1>8, <1>9, <1>10, <2>2, <3>1, <3>2 DEF HolderFits
  <2>3. QED BY <2>1, <2>2
<1>11. AddersFit' /\ Waiting' = Waiting
  BY <1>1, <1>2, <1>8, <1>16, HolderMoves
<1>12. CountsFit'
  BY <1>1, <1>2, <1>11, CountsFitKept
<1>13. DeletionFits' /\ ChunksFit'
  BY <1>1, <1>2, <1>5, DeletionFitsKept, ChunksFitKept
<1>14. ReadersFit'
  <2>1. \A c \in Nat : NumRows(c)' >= NumRows(c)
    BY <1>1, <1>5, NoRowsLost
  <2>2. QED BY <1>1, <1>2, <1>5, <2>1, ReadersFitKept
<1>15. QED BY <1>1, <1>2, <1>5, <1>6, <1>11, <1>12, <1>13, <1>14 DEF Inv

\* The row is there, the last of the top chunk, and its lines are.
LEMMA AppendRowStep ==
    ASSUME Inv, NEW a \in Adders, AppendRow(a)
    PROVE  Inv'
<1>1. /\ FilesFit /\ RowsFit /\ AddersFit /\ CountsFit /\ DeletionFits /\ ReadersFit
      /\ up /\ ChunksFit
      /\ lock = a /\ HolderFits(a) /\ add[a] \in Adding /\ add[a].type = "rows"
      /\ top \in Nat /\ bottom \in Nat /\ lastID \in Nat /\ count \in 0..RowsPerChunk
      /\ adds \in Nat /\ AddedFile(a) \in DOMAIN files /\ Pending = 1 /\ RowsPerChunk \in Nat
  BY HoldersFit DEF AppendRow, HolderFits
<1> DEFINE row == [id |-> lastID, order |-> add[a].order,
                   aux |-> add[a].pos.aux, match |-> add[a].pos.match]
<1>2. /\ UNCHANGED <<up, bottom, top, count, lastID, adds, del, it, case>>
      /\ lock' = NoOne /\ add' = [add EXCEPT ![a] = NotAdding]
      /\ AddedFile(a) = <<"rows", top>> /\ <<"rows", top>> \in DOMAIN files
      /\ files' = [files EXCEPT ![<<"rows", top>>] = @ \o RowBytes(row)]
  BY <1>1 DEF AppendRow, fields, AddedFile, AddedBytes
<1>3. row \in StoredRow /\ RowFits(row, top)
  <2>1. /\ HasLineOf("match", top, row.match, row.order)
        /\ HasLineOf("aux", top, row.aux, row.order)
        /\ lastID >= 1 /\ lastID <= adds
    BY <1>1, BoundsFit DEF HolderFits
  <2>2. row.match \in Nat /\ row.aux \in Nat /\ row.order \in Nat
    BY <1>1, <2>1 DEF HasLineOf, IsLine, Adding
  <2>3. QED BY <1>1, <2>1, <2>2 DEF StoredRow, Row, RowFits
<1> PICK new \in StoredRow : new = row
  BY <1>3
<1> HIDE DEF row
<1> PICK t \in Nat : t = top
  BY <1>1
<1> DEFINE n == NumRows(t)
<1>4. /\ RowsOf(t) = files[<<"rows", t>>]
      /\ RowsOf(t)' = RowsOf(t) \o RowBytes(new)
      /\ DOMAIN files' = DOMAIN files
      /\ \A name \in DOMAIN files : name # <<"rows", t>> => files'[name] = files[name]
      /\ files'[<<"rows", t>>] = RowsOf(t) \o RowBytes(new)
  BY <1>2 DEF RowsOf, RowsIn
<1>5. /\ IsRows(RowsOf(t) \o RowBytes(new))
      /\ getChunkRowCount(RowsOf(t) \o RowBytes(new)) = n + 1
      /\ \A i \in 0..n - 1 : RowIn(RowsOf(t) \o RowBytes(new), i) = RowIn(RowsOf(t), i)
      /\ RowIn(RowsOf(t) \o RowBytes(new), n) = new
      /\ n \in Nat
  BY <1>1, RowFiles, RowIsAppended DEF NumRows
<1> HIDE DEF n
<1>6. FilesFit'
  BY <1>1, <1>2, <1>4, <1>5 DEF FilesFit, IsDirectory
<1>7. KeptLines
  BY <1>4 DEF KeptLines, HasLineOf
<1>8. \A c \in Nat : c # t => RowsOf(c)' = RowsOf(c)
  BY <1>4 DEF RowsOf, RowsIn
<1>9. /\ \A c \in Nat : c # t => NumRows(c)' = NumRows(c)
      /\ NumRows(t)' = n + 1
  BY <1>4, <1>5, <1>8 DEF NumRows
<1>10. RowsFit'
  <2> SUFFICES ASSUME NEW c \in Nat, NEW i \in 0..NumRows(c)' - 1
               PROVE  RowFits(RowIn(RowsOf(c), i), c)'
    BY DEF RowsFit
  <2>1. PICK r : r = RowIn(RowsOf(c)', i)
    OBVIOUS
  <2>2. RowFits(r, c)
    <3>1. CASE c # t
      BY <1>1, <1>8, <1>9, <2>1, <3>1 DEF RowsFit
    <3>2. CASE c = t /\ i = n
      <4>1. r = new
        BY <1>4, <1>5, <2>1, <3>2
      <4>2. QED BY <1>3, <3>2, <4>1
    <3>3. CASE c = t /\ i # n
      <4>1. NumRows(c)' = n + 1
        BY <1>9, <3>3 DEF NumRows, RowsOf
      <4>2. i \in 0..n - 1
        BY <1>5, <3>3, <4>1
      <4>3. r = RowIn(RowsOf(c), i)
        BY <1>4, <1>5, <2>1, <3>3, <4>2 DEF RowsOf
      <4>4. QED BY <1>1, <3>3, <4>2, <4>3 DEF RowsFit, n
    <3>4. QED BY <3>1, <3>2, <3>3
  <2>3. RowFits(r, c)'
    BY <1>2, <1>7, <2>2 DEF RowFits, KeptLines
  <2>4. QED BY <2>1, <2>3
<1>11. AddersFit' /\ Waiting' = Waiting
  BY <1>1, <1>2, IdleAdding, HolderMoves
<1>12. CountsFit'
  BY <1>1, <1>2, <1>11, CountsFitKept
<1>13. DeletionFits'
  <2>1. del.at # "idle" => del.chunk \in Nat /\ del.chunk # top
    BY <1>1 DEF DeletionFits
  <2>2. QED BY <1>1, <1>2, <1>9, <2>1 DEF DeletionFits
<1>14. ChunksFit'
  <2>1. Pending' = 0 /\ n <= count - 1 /\ (IsExact => n = count - 1)
    BY <1>1, <1>2 DEF Pending, ChunksFit, n
  <2>2. NumRows(top)' <= count' - Pending' /\ (IsExact => NumRows(top)' = count' - Pending')
    <3>1. NumRows(top)' = NumRows(t)'
      BY <1>2 DEF NumRows, RowsOf
    <3>2. QED BY <1>1, <1>2, <1>5, <1>9, <2>1, <3>1
  <2>3. \A c \in Nat : c < top' => c # top
    BY <1>1, <1>2
  <2>4. \A c \in Nat : c < bottom' => c # top
    BY <1>1, <1>2 DEF ChunksFit
  <2>5. \A c \in bottom'..top' - 1 : c \in Nat /\ c # top
    BY <1>1, <1>2
  <2>6. IsExact' = IsExact /\ \A c : IsEmptied(c)' = IsEmptied(c)
    BY <1>2 DEF IsExact, IsEmptied
  <2>7. \A c \in Nat : c < top' => NumRows(c)' <= RowsPerChunk
    BY <1>1, <1>2, <1>9, <2>3 DEF ChunksFit
  <2>8. \A c \in Nat : c < bottom' => NumRows(c)' = 0
    BY <1>1, <1>2, <1>9, <2>4 DEF ChunksFit
  <2>9. IsExact => \A c \in bottom'..top' - 1 : NumRows(c)' = RowsPerChunk \/ IsEmptied(c)
    BY <1>1, <1>2, <1>9, <2>5 DEF ChunksFit
  <2>10. QED BY <1>1, <1>2, <1>4, <2>2, <2>6, <2>7, <2>8, <2>9 DEF ChunksFit
<1>15. ReadersFit'
  <2>1. \A c \in Nat : NumRows(c)' >= NumRows(c)
    <3> SUFFICES ASSUME NEW c \in Nat PROVE NumRows(c)' >= NumRows(c)
      OBVIOUS
    <3>1. CASE c = t
      <4>1. NumRows(c)' = n + 1 /\ NumRows(c) = n
        BY <1>9, <3>1 DEF n
      <4>2. QED BY <1>5, <4>1
    <3>2. CASE c # t
      <4>1. NumRows(c)' = NumRows(c) /\ NumRows(c) \in Nat
        BY <1>1, <1>9, <3>2, RowFiles
      <4>2. QED BY <4>1
    <3>3. QED BY <3>1, <3>2
  <2>2. QED BY <1>1, <1>2, <1>4, <1>6, <2>1, ReadersFitKept
<1>16. QED BY <1>1, <1>2, <1>6, <1>10, <1>11, <1>12, <1>13, <1>14, <1>15 DEF Inv

\* A failed append leaves at least as many rows counted as there are.
LEMMA FailedAddKeeps ==
    ASSUME Inv, NEW a \in Adders, add[a].at \in {"open", "write"}, FailedAdd(a),
           ~IsExact, FilesFit', RowsFit', KeptRows, DOMAIN files' = DOMAIN files
    PROVE  Inv'
<1>1. /\ FilesFit /\ RowsFit /\ AddersFit /\ CountsFit /\ DeletionFits /\ ReadersFit
      /\ up /\ ChunksFit
      /\ lock = a /\ HolderFits(a) /\ add[a] \in Adding
      /\ top \in Nat /\ bottom \in Nat /\ lastID \in Nat /\ count \in 0..RowsPerChunk
      /\ adds \in Nat /\ Pending = 1 /\ RowsPerChunk \in Nat
      /\ count >= 1 /\ lastID >= 1
  BY HoldersFit DEF HolderFits
<1>2. /\ UNCHANGED <<up, bottom, top, adds, del, it, case>>
      /\ lock' = NoOne /\ add' = [add EXCEPT ![a] = NotAdding]
      /\ count' \in {count, count - 1} /\ lastID' \in {lastID, lastID - 1}
  BY DEF FailedAdd
<1>3. count' \in 0..RowsPerChunk /\ count' >= count - 1 /\ lastID' \in 0..lastID
  BY <1>1, <1>2
<1>4. AddersFit' /\ Waiting' = Waiting
  BY <1>1, <1>2, IdleAdding, HolderMoves
<1>5. CountsFit'
  BY <1>1, <1>2, <1>3, <1>4, CountsFitKept
<1>6. DeletionFits'
  BY <1>1, <1>2, DeletionFitsKept
<1>7. \A c \in Nat : NumRows(c)' >= NumRows(c) /\ NumRows(c)' = NumRows(c) /\ NumRows(c) \in Nat
  BY <1>1, NoRowsLost
<1>8. ChunksFit'
  <2>1. Pending' = 0 /\ ~IsExact' /\ ~(case'.faults \subseteq {"crash"})
    BY <1>2 DEF Pending, IsExact
  <2>2. NumRows(top)' = NumRows(top)
    <3>1. PICK t \in Nat : t = top
      BY <1>1
    <3>2. NumRows(t)' = NumRows(t)
      BY NumRowsKept
    <3>3. QED BY <1>2, <3>1, <3>2 DEF NumRows, RowsOf
  <2>3. NumRows(top)' <= count' - Pending'
    BY <1>1, <1>2, <1>3, <1>7, <2>1, <2>2 DEF ChunksFit
  <2>4. QED BY <1>1, <1>2, <1>7, <2>1, <2>3 DEF ChunksFit
<1>9. ReadersFit'
  BY <1>1, <1>2, <1>7, ReadersFitKept
<1>10. QED BY <1>1, <1>2, <1>4, <1>5, <1>6, <1>8, <1>9 DEF Inv

\* An Add that cannot open a file takes back what it has counted.
LEMMA FailOpenStep ==
    ASSUME Inv, NEW a \in Adders, FailOpen(a)
    PROVE  Inv'
<1>1. /\ UNCHANGED <<files, adds>> /\ FailedAdd(a) /\ ~IsExact /\ add[a].at = "open"
  BY DEF FailOpen, FailedAdd, IsExact
<1>2. FilesFit /\ RowsFit /\ adds \in Nat
  BY DEF Inv, CountsFit
<1>3. FilesFit' /\ KeptRows /\ KeptLines
  BY <1>1, <1>2, SameFiles
<1>4. RowsFit'
  BY <1>1, <1>2, <1>3, RowsFitKept
<1>5. QED BY <1>1, <1>3, <1>4, FailedAddKeeps

\* An Add whose append fails takes back what it has counted but not the bytes.
LEMMA FailWriteStep ==
    ASSUME Inv, FaultsAreApart, NEW a \in Adders, FailWrite(a)
    PROVE  Inv'
<1>1. /\ UNCHANGED adds /\ FailedAdd(a) /\ add[a].at = "write"
  BY DEF FailWrite, FailedAdd
<1>2. /\ FilesFit /\ RowsFit /\ CountsFit /\ adds \in Nat
      /\ add[a] \in Adding /\ add[a].type \in ChunkTypes
      /\ AddedFile(a) \in DOMAIN files
  BY <1>1, HoldersFit DEF HolderFits
<1>3. ~IsExact /\ add[a].type \in {"match", "aux"}
  BY <1>2 DEF FailWrite, FaultsAreApart, CountsFit, IsExact, ChunkTypes
<1> PICK type \in {"match", "aux"} : type = add[a].type
  BY <1>3
<1>4. PICK n \in 0..1 :
         files' = [files EXCEPT ![<<type, top>>] = @ \o SubSeq(AddedBytes(a), 1, n)]
  BY DEF FailWrite, AddedFile
<1>5. PICK part \in Seq(LineByte) : part = SubSeq(AddedBytes(a), 1, n)
  <2>1. PICK text \in [of : Nat, id : Nat] : AddedBytes(a) = LineBytes(text)
    BY <1>2, <1>3, AddedLine
  <2>2. LineBytes(text) \in Seq(LineByte) /\ Len(LineBytes(text)) = 2
    BY EmptySeq, LineIsAppended DEF LineBytes
  <2>3. SubSeq(LineBytes(text), 1, n) \in Seq(LineByte)
    <3> DEFINE line == LineBytes(text)
    <3>1. line \in Seq(LineByte) /\ \A i \in 1..n : line[i] \in LineByte
      BY <2>2
    <3> HIDE DEF line
    <3>2. SubSeq(line, 1, n) \in Seq(LineByte)
      BY <3>1, SubSeqProperties
    <3>3. QED BY <3>2 DEF line
  <2>4. QED BY <2>1, <2>3
<1>6. FilesFit' /\ KeptRows /\ KeptLines /\ DOMAIN files' = DOMAIN files
  <2>1. <<type, top>> \in DOMAIN files
    BY <1>2 DEF AddedFile
  <2>2. QED BY <1>1, <1>2, <1>4, <1>5, <2>1, LinesAppended
<1>7. RowsFit'
  BY <1>1, <1>2, <1>6, RowsFitKept
<1>8. QED BY <1>1, <1>3, <1>6, <1>7, FailedAddKeeps

-----------------------------------------------------------------------------
(* Reading *)

\* The other readers stay where they are.
LEMMA ReaderMoves ==
    ASSUME FilesFit, FilesFit', CountsFit, ReadersFit, KeptRows, UNCHANGED top,
           DOMAIN files \subseteq DOMAIN files',
           NEW r \in Readers, NEW i \in Iteration, it' = [it EXCEPT ![r] = i],
           i.at \in {"row", "match"} => ReaderFits(r)'
    PROVE  ReadersFit'
<1>1. it' \in [Readers -> Iteration] /\ it'[r] = i
  BY DEF ReadersFit
<1> SUFFICES ASSUME NEW s \in Readers, IsReading(s)' PROVE ReaderFits(s)'
  BY <1>1 DEF ReadersFit
<1>2. CASE s = r
  BY <1>1, <1>2 DEF IsReading
<1>3. CASE s # r
  <2>1. it'[s] = it[s] /\ it[s] \in Iteration /\ ReaderFits(s)
    BY <1>3 DEF ReadersFit, IsReading
  <2>2. \A c \in Nat : NumRows(c)' >= NumRows(c)
    BY NoRowsLost
  <2>3. top' \in Nat /\ top' >= top
    BY DEF CountsFit
  <2>4. QED BY <2>1, <2>2, <2>3, ReaderFitsKept
<1>4. QED BY <1>2, <1>3

\* What the readers and the searches do to the rest: a file may be there that was not.
LEMMA ReadingKeeps ==
    ASSUME Inv, up, UNCHANGED <<up, fields, lock, add, adds, case>>,
           \A c : IsEmptied(c)' = IsEmptied(c), DeletionFits', ReadersFit',
           FilesFit', RowsFit', KeptRows, KeptLines, DOMAIN files \subseteq DOMAIN files',
           \A name \in DOMAIN files' : name \in DOMAIN files \/ name[2] <= top
    PROVE  Inv'
<1>1. AddersFit /\ CountsFit /\ ChunksFit
  BY DEF Inv
<1>2. AddersFit' /\ Waiting' = Waiting
  BY <1>1, AddersFitKept DEF Waiting, fields
<1>3. CountsFit'
  BY <1>1, <1>2, CountsFitKept DEF fields, CountsFit
<1>4. ChunksFit'
  BY <1>1, ChunksStay DEF fields
<1>5. QED BY <1>2, <1>3, <1>4 DEF Inv

\* A reader opens the file of the chunk it is in, or has it open.
LEMMA ReaderOpens ==
    ASSUME FilesFit, RowsFit, CountsFit, UNCHANGED adds, NEW type \in ChunkTypes, NEW c \in 0..top,
           UNCHANGED files \/ files' = Opened(files, {<<type, c>>})
    PROVE  /\ FilesFit' /\ RowsFit' /\ KeptRows /\ KeptLines
           /\ DOMAIN files \subseteq DOMAIN files'
           /\ \A name \in DOMAIN files' : name \in DOMAIN files \/ name[2] <= top
           /\ files' = Opened(files, {<<type, c>>}) => <<type, c>> \in DOMAIN files'
<1>1. adds \in Nat /\ top \in Nat
  BY DEF CountsFit
<1>2. CASE UNCHANGED files
  <2>1. FilesFit' /\ KeptRows /\ KeptLines
    BY <1>1, <1>2, SameFiles
  <2>2. RowsFit'
    BY <1>1, <2>1, RowsFitKept
  <2>3. files' = Opened(files, {<<type, c>>}) => <<type, c>> \in DOMAIN files'
    BY DEF Opened
  <2>4. QED BY <1>2, <2>1, <2>2, <2>3
<1>3. CASE files' = Opened(files, {<<type, c>>})
  <2>1. {<<type, c>>} \in SUBSET (ChunkTypes \X (0..top))
    OBVIOUS
  <2>2. QED BY <1>3, <2>1, OpeningKeeps
<1>4. QED BY <1>2, <1>3

\* The next place, or the end.
LEMMA MovedFits ==
    ASSUME CountsFit, NEW i \in Iteration, i.chunk <= top
    PROVE  /\ Moved(i) \in Iteration /\ Moved(i).at \in {"row", "done"}
           /\ Moved(i).at = "row" => Moved(i).chunk <= top
           /\ \/ Moved(i).rows = NotOpen /\ Moved(i).lines = NotOpen
              \/ Moved(i).rows = i.rows /\ Moved(i).lines = i.lines /\ Moved(i).chunk = i.chunk
<1> DEFINE to(chunk, index) ==
             [i EXCEPT !.at = "row", !.chunk = chunk, !.index = index,
                       !.rows = IF chunk = i.chunk THEN @ ELSE NotOpen,
                       !.lines = IF chunk = i.chunk THEN @ ELSE NotOpen]
           ended == [i EXCEPT !.at = "done", !.rows = NotOpen, !.lines = NotOpen]
           Fits(m) == /\ m \in Iteration /\ m.at \in {"row", "done"}
                      /\ m.at = "row" => m.chunk <= top
                      /\ \/ m.rows = NotOpen /\ m.lines = NotOpen
                         \/ m.rows = i.rows /\ m.lines = i.lines /\ m.chunk = i.chunk
<1>1. /\ i.chunk \in Nat /\ i.index \in Int /\ top \in Nat /\ bottom \in Nat /\ count \in Nat
      /\ RowsPerChunk \in Nat
      /\ i.rows \in Handle({ b \in Seq(StoredRow \X {1, 2}) : IsRows(b) })
      /\ i.lines \in Handle(Seq(LineByte))
  BY ConstantsFit DEF Iteration, CountsFit
<1>2. ASSUME NEW chunk \in Nat, chunk <= top, NEW index \in Int PROVE Fits(to(chunk, index))
  <2>1. PICK rows \in Handle({ b \in Seq(StoredRow \X {1, 2}) : IsRows(b) }) :
           rows = IF chunk = i.chunk THEN i.rows ELSE NotOpen
    BY <1>1 DEF Handle
  <2>2. PICK lines \in Handle(Seq(LineByte)) : lines = IF chunk = i.chunk THEN i.lines ELSE NotOpen
    BY <1>1 DEF Handle
  <2> DEFINE m == [i EXCEPT !.at = "row", !.chunk = chunk, !.index = index,
                            !.rows = rows, !.lines = lines]
  <2>3. to(chunk, index) = m
    BY <2>1, <2>2
  <2>4. m \in Iteration /\ m.at = "row" /\ m.chunk = chunk /\ m.rows = rows /\ m.lines = lines
    BY DEF Iteration
  <2> HIDE DEF m
  <2>5. Fits(m)
    BY <1>2, <2>1, <2>2, <2>4
  <2> QED BY <2>3, <2>5
<1>3. Fits(ended)
  <2>1. NotOpen \in Handle({ b \in Seq(StoredRow \X {1, 2}) : IsRows(b) }) /\ NotOpen \in Handle(Seq(LineByte))
    BY DEF Handle
  <2>2. ended \in Iteration /\ ended.at = "done" /\ ended.rows = NotOpen /\ ended.lines = NotOpen
    BY <2>1 DEF Iteration
  <2> HIDE DEF ended
  <2>3. QED BY <2>2
<1> DEFINE next == IF i.forward THEN i.index + 1 ELSE i.index - 1
<1>4. next \in Int
  BY <1>1
<1>5. \/ Moved(i) = ended
      \/ Moved(i) = to(i.chunk, next)
      \/ i.chunk + 1 <= top /\ Moved(i) = to(i.chunk + 1, 0)
      \/ i.chunk - 1 >= bottom /\ Moved(i) = to(i.chunk - 1, RowsPerChunk - 1)
  <2> HIDE DEF to, ended
  <2> DEFINE m == IF i.forward
                  THEN CASE i.chunk = top /\ next >= count -> ended
                         [] ~(i.chunk = top /\ next >= count) /\ next < RowsPerChunk ->
                               to(i.chunk, next)
                         [] ~(i.chunk = top /\ next >= count) /\ next >= RowsPerChunk ->
                               IF i.chunk + 1 > top THEN ended ELSE to(i.chunk + 1, 0)
                  ELSE CASE next >= 0 -> to(i.chunk, next)
                         [] next < 0 ->
                               IF i.chunk - 1 < bottom THEN ended
                               ELSE to(i.chunk - 1, RowsPerChunk - 1)
  <2>1. Moved(i) = m
    BY Zenon DEF Moved, to, ended
  <2>2. \/ m = ended
        \/ m = to(i.chunk, next)
        \/ i.chunk + 1 <= top /\ m = to(i.chunk + 1, 0)
        \/ i.chunk - 1 >= bottom /\ m = to(i.chunk - 1, RowsPerChunk - 1)
    <3> HIDE DEF next
    <3> QED BY <1>1, <1>4
  <2> HIDE DEF m
  <2>3. QED BY <2>1, <2>2
<1> HIDE DEF to, ended, next
<1>6. Fits(Moved(i))
  BY <1>1, <1>2, <1>3, <1>4, <1>5
<1>7. QED BY <1>6

\* What a reader has in hand when it has opened, or has open, a file of its chunk.
LEMMA SeenFits ==
    ASSUME NEW i \in Iteration, NEW row \in StoredRow
    PROVE  /\ Saw(i, row) \in Iteration
           /\ Saw(i, row).chunk = i.chunk /\ Saw(i, row).rows = i.rows /\ Saw(i, row).lines = i.lines
           /\ Saw(i, row).at = i.at
<1>1. /\ i.seen \in Seq(Sight) /\ i.chunk \in Nat /\ i.index \in Int /\ row.order \in Nat
  BY DEF Iteration, StoredRow, Row
<1>2. PICK sight \in Sight : sight = [order |-> row.order, place |-> <<i.chunk, i.index>>]
  BY <1>1 DEF Sight
<1>3. PICK seen \in Seq(Sight) : seen = Append(i.seen, sight)
  BY <1>1, <1>2, AppendProperties
<1>4. Saw(i, row) = [i EXCEPT !.seen = seen]
  BY <1>2, <1>3 DEF Saw
<1>5. QED BY <1>4 DEF Iteration

\* An iteration starts in a chunk there is.
LEMMA StartFits ==
    ASSUME CountsFit, NEW call \in IterateCalls, bottom <= top, NEW start \in Start(call)
    PROVE  start \in Nat \X Int /\ start[1] <= top
<1>1. /\ call.chunk \in Int /\ call.index \in Int /\ bottom \in Nat /\ top \in Nat /\ count \in Nat
      /\ call.chunk = -1 \/ call.chunk \in Nat
  BY ConstantsFit, ChunkAssumption DEF CountsFit
<1>2. CASE call.index >= RowsPerChunk
  <2>1. Start(call) = {}
    BY <1>1, <1>2, ConstantsFit DEF Start
  <2>2. QED BY <2>1
<1>3. CASE call.index < RowsPerChunk /\ call.chunk = -1 /\ call.forward
  <2>1. Start(call) = IF call.index < 0 THEN {} ELSE {<<bottom, call.index>>}
    BY <1>1, <1>3, ConstantsFit DEF Start
  <2>2. QED BY <1>1, <2>1
<1>4. CASE call.index < RowsPerChunk /\ call.chunk = -1 /\ ~call.forward
  <2>1. Start(call) = {<<top, IF call.index = -1 THEN count - 1 ELSE call.index>>}
    BY <1>1, <1>4, ConstantsFit DEF Start
  <2>2. start = <<top, IF call.index = -1 THEN count - 1 ELSE call.index>>
    BY <2>1
  <2>3. (IF call.index = -1 THEN count - 1 ELSE call.index) \in Int
    BY <1>1
  <2>4. QED BY <1>1, <2>2, <2>3
<1>5. CASE call.index < RowsPerChunk /\ call.chunk # -1
  <2>1. Start(call) = IF \/ call.chunk \notin bottom..top
                         \/ call.index < 0
                         \/ call.chunk = top /\ call.index >= count
                      THEN {}
                      ELSE {<<call.chunk, call.index>>}
    BY <1>1, <1>5, ConstantsFit DEF Start
  <2>2. call.chunk \in bottom..top /\ start = <<call.chunk, call.index>>
    BY <2>1
  <2>3. QED BY <1>1, <2>2
<1>6. QED BY <1>1, <1>2, <1>3, <1>4, <1>5, ConstantsFit

\* The rows in the directory are those of the chunks' files.
LEMMA RowPositionsAre ==
    ASSUME FilesFit
    PROVE  /\ \A p : p \in RowPositions
                        <=> /\ p \in Nat \X Int /\ <<"rows", p[1]>> \in DOMAIN files
                            /\ p[2] \in 0..NumRows(p[1]) - 1
           /\ \A p \in RowPositions : /\ RowAt(p) = RowIn(RowsOf(p[1]), p[2])
                                      /\ RowAt(p) \in StoredRow
<1>1. \A c : c \in ChunksOf("rows") => <<"rows", c>> \in DOMAIN files /\ c \in Nat
  BY DEF ChunksOf, FilesFit, IsDirectory
<1>2. \A c : <<"rows", c>> \in DOMAIN files => c \in ChunksOf("rows") /\ c \in Nat
  <2> SUFFICES ASSUME NEW c, <<"rows", c>> \in DOMAIN files
               PROVE  c \in ChunksOf("rows") /\ c \in Nat
    OBVIOUS
  <2>1. <<"rows", c>> \in { n \in DOMAIN files : n[1] = "rows" } /\ c = <<"rows", c>>[2]
    OBVIOUS
  <2>2. c \in ChunksOf("rows")
    BY <2>1 DEF ChunksOf
  <2>3. QED BY <2>2, <1>1
<1>3. \A c : <<"rows", c>> \in DOMAIN files =>
               /\ RowsOf(c) = files[<<"rows", c>>]
               /\ NumRows(c) = getChunkRowCount(files[<<"rows", c>>])
               /\ NumRows(c) \in Nat
               /\ \A i \in 0..NumRows(c) - 1 : RowIn(RowsOf(c), i) \in StoredRow
  BY RowFiles DEF RowsOf, RowsIn, NumRows
<1>4. ASSUME NEW p
      PROVE  p \in RowPositions
                        <=> /\ p \in Nat \X Int /\ <<"rows", p[1]>> \in DOMAIN files
                            /\ p[2] \in 0..NumRows(p[1]) - 1
  <2>1. p \in RowPositions
          <=> \E c \in ChunksOf("rows") : p \in {c} \X (0..getChunkRowCount(files[<<"rows", c>>]) - 1)
    BY DEF RowPositions
  <2>2. ASSUME NEW c \in ChunksOf("rows"), p \in {c} \X (0..getChunkRowCount(files[<<"rows", c>>]) - 1)
        PROVE  /\ p \in Nat \X Int /\ <<"rows", p[1]>> \in DOMAIN files
               /\ p[2] \in 0..NumRows(p[1]) - 1
    <3>1. p[1] = c /\ p[2] \in 0..NumRows(c) - 1 /\ c \in Nat /\ <<"rows", c>> \in DOMAIN files
      BY <1>1, <1>3, <2>2
    <3>2. QED BY <2>2, <3>1
  <2>3. ASSUME p \in Nat \X Int, <<"rows", p[1]>> \in DOMAIN files, p[2] \in 0..NumRows(p[1]) - 1
        PROVE  /\ p[1] \in ChunksOf("rows")
               /\ p \in {p[1]} \X (0..getChunkRowCount(files[<<"rows", p[1]>>]) - 1)
    BY <1>2, <1>3, <2>3
  <2>4. QED BY <2>1, <2>2, <2>3
<1>5. ASSUME NEW p \in RowPositions
      PROVE  RowAt(p) = RowIn(RowsOf(p[1]), p[2]) /\ RowAt(p) \in StoredRow
  BY <1>3, <1>4 DEF RowAt
<1>6. QED BY <1>4, <1>5

\* Iterate starts such an iteration.
LEMMA IterateStep ==
    ASSUME Inv, NEW r \in Readers, NEW call \in IterateCalls, Iterate(r, call)
    PROVE  Inv'
<1>1. /\ FilesFit /\ RowsFit /\ CountsFit /\ DeletionFits /\ ReadersFit /\ ChunksFit /\ up
      /\ UNCHANGED <<files, up, bottom, top, count, lastID, lock, add, adds, del, case>>
      /\ bottom <= top /\ adds \in Nat
  BY DEF Inv, Iterate, fields, ChunksFit, CountsFit
<1>2. PICK start \in Start(call) :
          it' = [it EXCEPT ![r] =
                   [NotIterating EXCEPT
                      !.at = "row", !.chunk = start[1], !.index = start[2],
                      !.forward = call.forward, !.match = call.match,
                      !.due = { RowAt(p).order : p \in { q \in RowPositions :
                                  IF call.forward THEN IsBefore(start, q)
                                                  ELSE IsBefore(q, start) } }]]
  BY DEF Iterate
<1>3. start[1] \in Nat /\ start[2] \in Int /\ start[1] <= top
  BY <1>1, StartFits
<1>4. PICK due \in SUBSET Nat :
         due = { RowAt(p).order : p \in { q \in RowPositions :
                                  IF call.forward THEN IsBefore(start, q)
                                                  ELSE IsBefore(q, start) } }
  <2>1. \A p \in RowPositions : RowAt(p).order \in Nat
    BY <1>1, RowPositionsAre DEF StoredRow, Row
  <2>2. QED BY <2>1
<1>5. call.forward \in BOOLEAN /\ call.match \in BOOLEAN
  BY ChunkAssumption
<1> DEFINE i == [NotIterating EXCEPT
                      !.at = "row", !.chunk = start[1], !.index = start[2],
                      !.forward = call.forward, !.match = call.match, !.due = due]
<1>6. /\ i \in Iteration /\ i.at = "row" /\ i.chunk = start[1]
      /\ i.rows = NotOpen /\ i.lines = NotOpen
  BY <1>3, <1>5, EmptySeq DEF NotIterating, Iteration, Handle
<1>7. it' = [it EXCEPT ![r] = i] /\ it'[r] = i
  BY <1>1, <1>2, <1>4 DEF ReadersFit
<1> HIDE DEF i
<1>8. FilesFit' /\ KeptRows /\ KeptLines
  BY <1>1, SameFiles
<1>9. RowsFit'
  BY <1>1, <1>8, RowsFitKept
<1>10. ReaderFits(r)'
  BY <1>1, <1>3, <1>6, <1>7 DEF ReaderFits, NotOpen
<1>11. ReadersFit'
  BY <1>1, <1>6, <1>7, <1>8, <1>10, ReaderMoves
<1>12. DeletionFits'
  BY <1>1, <1>8, DeletionFitsKept
<1>13. \A c : IsEmptied(c)' = IsEmptied(c)
  BY <1>1 DEF IsEmptied
<1>14. QED BY <1>1, <1>8, <1>9, <1>11, <1>12, <1>13, ReadingKeeps DEF fields

\* What a step of one reader keeps, that opens a file of its chunk at most.
LEMMA ReaderSteps ==
    ASSUME Inv, up, UNCHANGED <<up, fields, lock, add, adds, del, case>>,
           NEW type \in ChunkTypes, NEW c \in 0..top,
           UNCHANGED files \/ files' = Opened(files, {<<type, c>>}),
           NEW r \in Readers, NEW i \in Iteration, it' = [it EXCEPT ![r] = i],
           i.at \in {"row", "match"} => ReaderFits(r)'
    PROVE  Inv'
<1>1. /\ FilesFit /\ RowsFit /\ CountsFit /\ DeletionFits /\ ReadersFit
      /\ UNCHANGED <<bottom, top, adds>>
  BY DEF Inv, fields
<1>2. /\ FilesFit' /\ RowsFit' /\ KeptRows /\ KeptLines
      /\ DOMAIN files \subseteq DOMAIN files'
      /\ \A name \in DOMAIN files' : name \in DOMAIN files \/ name[2] <= top
  BY <1>1, ReaderOpens
<1>3. ReadersFit'
  BY <1>1, <1>2, ReaderMoves
<1>4. DeletionFits'
  BY <1>1, <1>2, DeletionFitsKept
<1>5. \A c_1 : IsEmptied(c_1)' = IsEmptied(c_1)
  BY DEF IsEmptied
<1>6. QED BY <1>2, <1>3, <1>4, <1>5, ReadingKeeps

\* A row is read from the file of the iteration's chunk.
LEMMA ReadRowStep ==
    ASSUME Inv, NEW r \in Readers, ReadRow(r)
    PROVE  Inv'
<1>1. /\ FilesFit /\ RowsFit /\ CountsFit /\ DeletionFits /\ ReadersFit /\ up /\ ChunksFit
      /\ UNCHANGED <<up, bottom, top, count, lastID, lock, add, adds, del, case>>
      /\ it[r].at = "row" /\ it[r] \in Iteration /\ ReaderFits(r) /\ top \in Nat
  BY DoersAreUp DEF Inv, ReadRow, fields, ReadersFit, IsReading, CountsFit
<1> PICK i \in Iteration : i = it[r]
  BY <1>1
<1>2. PICK c \in 0..top : c = i.chunk
  BY <1>1 DEF ReaderFits, Iteration
<1> DEFINE name == <<"rows", c>>
           opened == [i EXCEPT !.rows = IF @ = NotOpen THEN Live ELSE @]
           bytes == IF i.rows.state = "unlinked" THEN i.rows.bytes ELSE files'[name]
           row == RowIn(bytes, i.index)
<1>3. /\ files' = IF i.rows = NotOpen THEN Opened(files, {name}) ELSE files
      /\ it' = [it EXCEPT ![r] =
                   CASE ~HasRow(bytes, i.index) -> Moved(opened)
                     [] HasRow(bytes, i.index) /\ i.match -> [opened EXCEPT !.at = "match"]
                     [] HasRow(bytes, i.index) /\ ~i.match -> Moved(Saw(opened, row))]
  BY <1>2 DEF ReadRow
<1>4. /\ FilesFit' /\ KeptRows /\ DOMAIN files \subseteq DOMAIN files'
      /\ i.rows = NotOpen => name \in DOMAIN files'
  BY <1>1, <1>3, ReaderOpens DEF ChunkTypes
<1>5. /\ i.rows \in {NotOpen, Live} \/ (i.rows.state = "unlinked" /\ IsRows(i.rows.bytes))
      /\ i.rows.state = "unlinked" => i.rows # NotOpen
      /\ i.rows # NotOpen /\ i.rows.state = "live" => name \in DOMAIN files'
      /\ i.lines.state = "live" => <<"match", c>> \in DOMAIN files'
  BY <1>1, <1>2, <1>4 DEF ReaderFits, Iteration, Handle, NotOpen, Live
<1>6. /\ opened \in Iteration /\ opened.chunk = c /\ opened.lines = i.lines
      /\ opened.index = i.index /\ opened.at = "row"
      /\ opened.rows = IF i.rows = NotOpen THEN Live ELSE i.rows
  <2>1. PICK rows \in Handle({ b \in Seq(StoredRow \X {1, 2}) : IsRows(b) }) :
           rows = IF i.rows = NotOpen THEN Live ELSE i.rows
    BY DEF Iteration, Handle
  <2>2. opened = [i EXCEPT !.rows = rows]
    BY <2>1
  <2>3. QED BY <1>1, <1>2, <2>1, <2>2 DEF Iteration
<1>7. /\ opened.rows.state \in {"live", "unlinked"}
      /\ opened.rows.state = "live" => name \in DOMAIN files' /\ i.rows.state # "unlinked"
      /\ opened.rows.state = "unlinked" => opened.rows = i.rows
  BY <1>4, <1>5, <1>6 DEF NotOpen, Live
<1> HIDE DEF opened
<1>8. IsRows(bytes)
  <2>1. CASE i.rows.state = "unlinked"
    BY <1>5, <2>1 DEF NotOpen, Live
  <2>2. CASE i.rows.state # "unlinked"
    BY <1>4, <1>5, <1>7, <1>6, <2>2 DEF FilesFit, IsDirectory
  <2>3. QED BY <2>1, <2>2
<1>9. HasRow(bytes, i.index) => row \in StoredRow
  BY <1>8, RowsAreRead DEF Iteration
<1>10. /\ bytes = IF opened.rows.state = "live" THEN files'[name] ELSE opened.rows.bytes
  BY <1>7
<1> HIDE DEF bytes, row, name
<1> PICK m : m = CASE ~HasRow(bytes, i.index) -> Moved(opened)
                   [] HasRow(bytes, i.index) /\ i.match -> [opened EXCEPT !.at = "match"]
                   [] HasRow(bytes, i.index) /\ ~i.match -> Moved(Saw(opened, row))
  OBVIOUS
<1> DEFINE Fits == /\ m.chunk <= top
                   /\ m.rows.state = "live" => <<"rows", m.chunk>> \in DOMAIN files'
                   /\ m.lines.state = "live" => <<"match", m.chunk>> \in DOMAIN files'
                   /\ m.at = "match" =>
                        /\ m.rows.state # "none"
                        /\ HasRow(IF m.rows.state = "live" THEN files'[<<"rows", m.chunk>>]
                                  ELSE m.rows.bytes, m.index)
<1>17. ASSUME NEW o \in Iteration, o.chunk = c, o.rows = opened.rows, o.lines = i.lines, m = Moved(o)
       PROVE  m \in Iteration /\ (m.at \in {"row", "match"} => Fits)
  <2>1. /\ m \in Iteration /\ m.at \in {"row", "done"}
        /\ m.at = "row" => m.chunk <= top
        /\ \/ m.rows = NotOpen /\ m.lines = NotOpen
           \/ m.rows = opened.rows /\ m.lines = i.lines /\ m.chunk = c
    <3>1. o.chunk <= top
      BY <1>1, <1>2, <1>17
    <3>2. /\ Moved(o) \in Iteration /\ Moved(o).at \in {"row", "done"}
          /\ Moved(o).at = "row" => Moved(o).chunk <= top
          /\ \/ Moved(o).rows = NotOpen /\ Moved(o).lines = NotOpen
             \/ Moved(o).rows = o.rows /\ Moved(o).lines = o.lines /\ Moved(o).chunk = o.chunk
      BY <1>1, <3>1, MovedFits
    <3>3. QED BY <1>17, <3>2
  <2>2. /\ m.rows.state = "live" => <<"rows", m.chunk>> \in DOMAIN files'
        /\ m.lines.state = "live" => <<"match", m.chunk>> \in DOMAIN files'
    BY <1>5, <1>7, <2>1 DEF NotOpen, name
  <2>3. QED BY <2>1, <2>2
<1>11. m \in Iteration /\ (m.at \in {"row", "match"} => Fits)
  <2>1. CASE ~HasRow(bytes, i.index)
    <3>1. m = Moved(opened)
      BY <2>1
    <3>2. QED BY <1>6, <1>17, <3>1
  <2>2. CASE HasRow(bytes, i.index) /\ i.match
    <3>1. m = [opened EXCEPT !.at = "match"]
      BY <2>2
    <3>2. /\ m \in Iteration /\ m.at = "match" /\ m.chunk = c /\ m.index = i.index
          /\ m.rows = opened.rows /\ m.lines = i.lines
      BY <1>6, <3>1 DEF Iteration
    <3>3. QED BY <1>1, <1>2, <1>5, <1>7, <1>10, <2>2, <3>2 DEF name
  <2>3. CASE HasRow(bytes, i.index) /\ ~i.match
    <3>1. m = Moved(Saw(opened, row))
      BY <2>3
    <3>2. /\ Saw(opened, row) \in Iteration /\ Saw(opened, row).chunk = c
          /\ Saw(opened, row).rows = opened.rows /\ Saw(opened, row).lines = i.lines
      BY <1>6, <1>9, <2>3, SeenFits
    <3>3. QED BY <1>17, <3>1, <3>2
  <2>4. QED BY <2>1, <2>2, <2>3
<1>12. it' = [it EXCEPT ![r] = m] /\ it'[r] = m /\ UNCHANGED <<top, fields>>
  BY <1>1, <1>3 DEF ReadersFit, fields
<1>13. m.at \in {"row", "match"} => ReaderFits(r)'
  BY <1>11, <1>12 DEF ReaderFits, Held
<1>14. UNCHANGED files \/ files' = Opened(files, {<<"rows", c>>})
  BY <1>3 DEF name
<1>15. "rows" \in ChunkTypes
  BY DEF ChunkTypes
<1>16. QED BY <1>1, <1>11, <1>12, <1>13, <1>14, <1>15, ReaderSteps

\* A handler may stop its iteration.
LEMMA StopIterateStep ==
    ASSUME Inv, NEW r \in Readers, StopIterate(r)
    PROVE  Inv'
<1>1. /\ ReadersFit /\ up /\ it[r] \in Iteration /\ 0 \in 0..top
      /\ UNCHANGED <<files, up, fields, lock, add, adds, del, case>>
  BY DoersAreUp DEF Inv, StopIterate, ReadersFit, CountsFit
<1> PICK i \in Iteration : i = [it[r] EXCEPT !.at = "stopped", !.rows = NotOpen, !.lines = NotOpen]
  BY <1>1 DEF Iteration, Handle
<1>2. it' = [it EXCEPT ![r] = i] /\ i.at = "stopped"
  BY <1>1 DEF StopIterate, Iteration
<1>3. "rows" \in ChunkTypes
  BY DEF ChunkTypes
<1>4. QED BY <1>1, <1>2, <1>3, ReaderSteps

\* The line of a row is read from the match file of the iteration's chunk.
LEMMA ReadMatchStep ==
    ASSUME Inv, NEW r \in Readers, ReadMatch(r)
    PROVE  Inv'
<1>1. /\ FilesFit /\ RowsFit /\ CountsFit /\ DeletionFits /\ ReadersFit /\ up /\ ChunksFit
      /\ UNCHANGED <<up, bottom, top, count, lastID, lock, add, adds, del, case>>
      /\ it[r].at = "match" /\ it[r] \in Iteration /\ ReaderFits(r) /\ top \in Nat
  BY DoersAreUp DEF Inv, ReadMatch, fields, ReadersFit, IsReading, CountsFit
<1> PICK i \in Iteration : i = it[r]
  BY <1>1
<1>2. PICK c \in 0..top : c = i.chunk
  BY <1>1 DEF ReaderFits, Iteration
<1> DEFINE name == <<"match", c>>
           opened == [i EXCEPT !.lines = IF @ = NotOpen THEN Live ELSE @]
           row == RowIn(Held(i.rows, <<"rows", c>>), i.index)
           bytes == IF i.lines.state = "unlinked" THEN i.lines.bytes ELSE files'[name]
<1>3. /\ files' = IF i.lines = NotOpen THEN Opened(files, {name}) ELSE files
      /\ it' = [it EXCEPT ![r] = IF HasLine(bytes, row.match)
                                 THEN Moved(Saw(opened, row))
                                 ELSE [opened EXCEPT !.at = "row"]]
  BY <1>2 DEF ReadMatch
<1>4. /\ FilesFit' /\ KeptRows /\ DOMAIN files \subseteq DOMAIN files'
      /\ i.lines = NotOpen => name \in DOMAIN files'
  BY <1>1, <1>3, ReaderOpens DEF ChunkTypes
<1>5. /\ i.lines.state = "live" => name \in DOMAIN files'
      /\ i.rows.state = "live" => <<"rows", c>> \in DOMAIN files /\ <<"rows", c>> \in DOMAIN files'
      /\ i.rows \in {Live} \/ (i.rows.state = "unlinked" /\ IsRows(i.rows.bytes))
      /\ HasRow(Held(i.rows, <<"rows", c>>), i.index)
  BY <1>1, <1>2, <1>4 DEF ReaderFits, Iteration, Handle, NotOpen, Live
<1>6. /\ opened \in Iteration /\ opened.chunk = c /\ opened.rows = i.rows
      /\ opened.lines = IF i.lines = NotOpen THEN Live ELSE i.lines
  <2>1. PICK lines \in Handle(Seq(LineByte)) : lines = IF i.lines = NotOpen THEN Live ELSE i.lines
    BY DEF Iteration, Handle
  <2>2. opened = [i EXCEPT !.lines = lines]
    BY <2>1
  <2>3. QED BY <1>1, <1>2, <2>1, <2>2 DEF Iteration
<1>7. opened.lines.state = "live" => name \in DOMAIN files'
  BY <1>4, <1>5, <1>6 DEF NotOpen, Live
<1> HIDE DEF opened
<1>8. IsRows(Held(i.rows, <<"rows", c>>))
  <2>1. CASE i.rows = Live
    BY <1>1, <1>5, <2>1 DEF Held, Live, FilesFit, IsDirectory
  <2>2. CASE i.rows # Live
    BY <1>5, <2>2 DEF Held
  <2>3. QED BY <2>1, <2>2
<1>9. row \in StoredRow
  BY <1>5, <1>8, RowsAreRead DEF Iteration
<1> HIDE DEF bytes, row, name
<1> PICK m : m = IF HasLine(bytes, row.match) THEN Moved(Saw(opened, row))
                                              ELSE [opened EXCEPT !.at = "row"]
  OBVIOUS
<1> DEFINE Fits == /\ m.chunk <= top
                   /\ m.rows.state = "live" => <<"rows", m.chunk>> \in DOMAIN files'
                   /\ m.lines.state = "live" => <<"match", m.chunk>> \in DOMAIN files'
<1>10. m \in Iteration /\ m.at \in {"row", "done"} /\ (m.at = "row" => Fits)
  <2>1. CASE HasLine(bytes, row.match)
    <3>1. m = Moved(Saw(opened, row))
      BY <2>1
    <3>2. /\ Saw(opened, row) \in Iteration /\ Saw(opened, row).chunk = c
          /\ Saw(opened, row).rows = i.rows /\ Saw(opened, row).lines = opened.lines
      BY <1>6, <1>9, SeenFits
    <3>3. /\ m \in Iteration /\ m.at \in {"row", "done"}
          /\ m.at = "row" => m.chunk <= top
          /\ \/ m.rows = NotOpen /\ m.lines = NotOpen
             \/ m.rows = i.rows /\ m.lines = opened.lines /\ m.chunk = c
      <4> PICK o \in Iteration : o = Saw(opened, row)
        BY <3>2
      <4>1. o.chunk <= top
        BY <1>1, <1>2, <3>2
      <4>2. /\ Moved(o) \in Iteration /\ Moved(o).at \in {"row", "done"}
            /\ Moved(o).at = "row" => Moved(o).chunk <= top
            /\ \/ Moved(o).rows = NotOpen /\ Moved(o).lines = NotOpen
               \/ Moved(o).rows = o.rows /\ Moved(o).lines = o.lines /\ Moved(o).chunk = o.chunk
        BY <1>1, <4>1, MovedFits
      <4>3. QED BY <3>1, <3>2, <4>2
    <3>4. /\ m.rows.state = "live" => <<"rows", m.chunk>> \in DOMAIN files'
          /\ m.lines.state = "live" => <<"match", m.chunk>> \in DOMAIN files'
      BY <1>5, <1>7, <3>3 DEF NotOpen, name
    <3>5. QED BY <3>3, <3>4
  <2>2. CASE ~HasLine(bytes, row.match)
    <3>1. m = [opened EXCEPT !.at = "row"]
      BY <2>2
    <3>2. /\ m \in Iteration /\ m.at = "row" /\ m.chunk = c
          /\ m.rows = i.rows /\ m.lines = opened.lines
      BY <1>6, <3>1 DEF Iteration
    <3>3. QED BY <1>1, <1>2, <1>5, <1>7, <3>2 DEF name
  <2>3. QED BY <2>1, <2>2
<1>11. it' = [it EXCEPT ![r] = m] /\ it'[r] = m /\ UNCHANGED <<top, fields>>
  BY <1>1, <1>3 DEF ReadersFit, fields
<1>12. m.at \in {"row", "match"} => ReaderFits(r)'
  BY <1>10, <1>11 DEF ReaderFits
<1>13. UNCHANGED files \/ files' = Opened(files, {<<"match", c>>})
  BY <1>3 DEF name
<1>14. "match" \in ChunkTypes
  BY DEF ChunkTypes
<1>15. QED BY <1>1, <1>10, <1>11, <1>12, <1>13, <1>14, ReaderSteps

-----------------------------------------------------------------------------
(* Searching *)

\* Min and Max of two numbers, in the terms of arithmetic.
LEMMA MinMaxOfTwo ==
    ASSUME NEW m \in Int, NEW n \in Int
    PROVE  /\ Max({m, n}) = IF m <= n THEN n ELSE m
           /\ Min({m, n}) = IF m <= n THEN m ELSE n
<1>1. \E x \in {m, n} : \A y \in {m, n} : x >= y
  OBVIOUS
<1>2. \E x \in {m, n} : \A y \in {m, n} : x <= y
  OBVIOUS
<1>3. Max({m, n}) \in {m, n} /\ \A y \in {m, n} : Max({m, n}) >= y
  BY <1>1 DEF Max
<1>4. Min({m, n}) \in {m, n} /\ \A y \in {m, n} : Min({m, n}) <= y
  BY <1>2 DEF Min
<1>5. QED BY <1>3, <1>4

\* A search looks in the middle of a range and goes on in one half.
Mid(range) == (range[1] + range[2]) \div 2
Lower(range) == <<range[1], Max({range[1], Mid(range) - 1})>>
Upper(range) == <<Min({range[2], Mid(range) + 1}), range[2]>>
Width(range) == IF range[1] <= range[2] THEN range[2] - range[1] ELSE range[1] - range[2]

\* Each half of a range of chunks is a range in it, and narrower.
LEMMA HalvesAreNarrower ==
    ASSUME NEW m \in Int, NEW n \in Int, NEW range \in (m..n) \X (m..n)
    PROVE  /\ Mid(range) \in m..n /\ Width(range) \in 0..n - m
           /\ range[1] <= range[2] => Mid(range) \in range[1]..range[2]
           /\ range[1] # range[2] =>
                /\ Lower(range) \in (m..n) \X (m..n) /\ Width(Lower(range)) < Width(range)
                /\ Upper(range) \in (m..n) \X (m..n) /\ Width(Upper(range)) < Width(range)
           /\ range[1] <= range[2] => /\ Lower(range)[1] <= Lower(range)[2]
                                      /\ Upper(range)[1] <= Upper(range)[2]
           /\ Lower(range)[1] = range[1] /\ Upper(range)[2] = range[2]
<1> DEFINE lo == range[1]
           hi == range[2]
           mid == (lo + hi) \div 2
<1>1. lo \in m..n /\ hi \in m..n
  OBVIOUS
<1>2. /\ mid \in m..n /\ mid \in Int
      /\ lo <= hi => lo <= mid /\ mid <= hi
      /\ lo < hi => mid < hi
      /\ lo > hi => hi <= mid /\ mid < lo
  BY <1>1
<1>3. /\ Lower(range) = <<lo, IF lo <= mid - 1 THEN mid - 1 ELSE lo>>
      /\ Upper(range) = <<IF hi <= mid + 1 THEN hi ELSE mid + 1, hi>>
  <2>1. lo \in Int /\ hi \in Int /\ mid - 1 \in Int /\ mid + 1 \in Int
    BY <1>1, <1>2
  <2> HIDE DEF lo, hi, mid
  <2>2. /\ Max({lo, mid - 1}) = IF lo <= mid - 1 THEN mid - 1 ELSE lo
        /\ Min({hi, mid + 1}) = IF hi <= mid + 1 THEN hi ELSE mid + 1
    BY <2>1, MinMaxOfTwo
  <2>3. Lower(range) = <<lo, Max({lo, mid - 1})>> /\ Upper(range) = <<Min({hi, mid + 1}), hi>>
    BY DEF Lower, Upper, Mid, lo, hi, mid
  <2>4. QED BY <2>2, <2>3
<1>4. Mid(range) = mid
  BY DEF Mid
<1> HIDE DEF mid, lo, hi
<1>5. Width(range) = IF lo <= hi THEN hi - lo ELSE lo - hi
  BY DEF Width, lo, hi
<1>6. PICK l \in Int : l = IF lo <= mid - 1 THEN mid - 1 ELSE lo
  BY <1>1, <1>2
<1>7. PICK u \in Int : u = IF hi <= mid + 1 THEN hi ELSE mid + 1
  BY <1>1, <1>2
<1>8. /\ Width(Lower(range)) = IF lo <= l THEN l - lo ELSE lo - l
      /\ Width(Upper(range)) = IF u <= hi THEN hi - u ELSE u - hi
  BY <1>3, <1>6, <1>7 DEF Width
<1>9. lo # hi => /\ l \in m..n /\ u \in m..n
                 /\ Width(Lower(range)) < Width(range) /\ Width(Upper(range)) < Width(range)
  BY <1>1, <1>2, <1>5, <1>6, <1>7, <1>8
<1>10. Width(range) \in 0..n - m
  BY <1>1, <1>5
<1>11. lo <= hi => lo <= l /\ u <= hi
  BY <1>1, <1>2, <1>6, <1>7
<1>12. QED BY <1>1, <1>2, <1>3, <1>4, <1>6, <1>7, <1>9, <1>10, <1>11 DEF lo, hi

\* What the search in a range of chunks returns, given what it returns for its halves.
SearchedIn(h, range, find, isID) ==
    LET turn == isOrdererInChunk(Mid(range), find, isID)
        rest(half) == [h[half] EXCEPT !.opened = @ \cup {Mid(range)}]
    IN CASE turn = "error" -> Found(0, "error", {Mid(range)})
         [] turn = "here" -> Found(Mid(range), "within", {Mid(range)})
         [] turn = "previous" /\ range[1] = range[2] -> Found(Mid(range), "below", {Mid(range)})
         [] turn = "previous" /\ range[1] # range[2] -> rest(Lower(range))
         [] turn = "next" /\ range[1] # range[2] -> rest(Upper(range))
         [] turn = "next" /\ range[1] = range[2] /\ range[2] < top ->
               Found(Mid(range) + 1, "below", {Mid(range)})
         [] turn = "next" /\ range[1] = range[2] /\ range[2] >= top ->
               Found(Mid(range), IF count < RowsPerChunk THEN "above" ELSE "outside", {Mid(range)})
Searches(h, D, find, isID) == h = [range \in D |-> SearchedIn(h, range, find, isID)]

\* What is found in a range depends on what is found in its halves.
LEMMA SearchedInHalves ==
    ASSUME NEW h, NEW g, NEW range, NEW find, NEW isID,
           range[1] # range[2] => h[Lower(range)] = g[Lower(range)] /\ h[Upper(range)] = g[Upper(range)]
    PROVE  SearchedIn(h, range, find, isID) = SearchedIn(g, range, find, isID)
<1>1. CASE range[1] = range[2]
  BY <1>1 DEF SearchedIn
<1>2. CASE range[1] # range[2]
  BY <1>2 DEF SearchedIn
<1>3. QED BY <1>1, <1>2

NarrowRanges(m, n, width) == { range \in (m..n) \X (m..n) : Width(range) <= width }

\* A half of a range of some width is of a width less.
LEMMA HalvesAreNarrowerStill ==
    ASSUME NEW m \in Int, NEW n \in Int, NEW w \in Nat, NEW range \in NarrowRanges(m, n, w),
           range[1] # range[2]
    PROVE  Lower(range) \in NarrowRanges(m, n, w - 1) /\ Upper(range) \in NarrowRanges(m, n, w - 1)
<1>1. range \in (m..n) \X (m..n) /\ Width(range) <= w
  BY DEF NarrowRanges
<1>2. /\ Lower(range) \in (m..n) \X (m..n) /\ Width(Lower(range)) < Width(range)
      /\ Upper(range) \in (m..n) \X (m..n) /\ Width(Upper(range)) < Width(range)
      /\ Width(range) \in 0..n - m
  BY <1>1, HalvesAreNarrower
<1>3. Width(Lower(range)) \in 0..n - m /\ Width(Upper(range)) \in 0..n - m
  BY <1>2, HalvesAreNarrower
<1>4. Width(Lower(range)) <= w - 1 /\ Width(Upper(range)) <= w - 1
  BY <1>1, <1>2, <1>3
<1>5. QED BY <1>2, <1>4 DEF NarrowRanges

\* The recursive search is a function for every range, whatever it finds.
LEMMA SearchesExist ==
    ASSUME NEW m \in Int, NEW n \in Int, m <= n, NEW find, NEW isID
    PROVE  \E h : Searches(h, (m..n) \X (m..n), find, isID)
<1> DEFINE Bad == { w \in Nat : ~\E h : Searches(h, NarrowRanges(m, n, w), find, isID) }
<1>1. Bad = {}
  <2> SUFFICES ASSUME Bad # {} PROVE FALSE
    OBVIOUS
  <2>1. PICK w \in Bad : \A v \in Bad : w <= v
    BY SmallestNumber
  <2>2. PICK g : \A range \in NarrowRanges(m, n, w - 1) : g[range] = SearchedIn(g, range, find, isID)
    <3>1. CASE w = 0
      <4>1. NarrowRanges(m, n, w - 1) = {}
        <5>1. \A range \in (m..n) \X (m..n) : Width(range) \in 0..n - m
          BY HalvesAreNarrower
        <5>2. QED BY <3>1, <5>1 DEF NarrowRanges
      <4>2. QED BY <4>1
    <3>2. CASE w # 0
      <4>1. w - 1 \in Nat /\ w - 1 \notin Bad
        BY <2>1, <3>2
      <4>2. PICK g : Searches(g, NarrowRanges(m, n, w - 1), find, isID)
        BY <4>1
      <4>3. QED BY <4>2, Zenon DEF Searches
    <3>3. QED BY <3>1, <3>2
  <2> DEFINE h == [range \in NarrowRanges(m, n, w) |->
                     IF range \in NarrowRanges(m, n, w - 1) THEN g[range] ELSE SearchedIn(g, range, find, isID)]
  <2>3. \A range \in NarrowRanges(m, n, w) : h[range] = SearchedIn(g, range, find, isID)
    BY <2>2
  <2>4. \A range \in NarrowRanges(m, n, w - 1) : range \in NarrowRanges(m, n, w)
    <3>1. \A range \in (m..n) \X (m..n) : Width(range) \in 0..n - m
      BY HalvesAreNarrower
    <3>2. QED BY <2>1, <3>1 DEF NarrowRanges
  <2>5. \A range \in NarrowRanges(m, n, w - 1) : h[range] = g[range]
    BY <2>4
  <2> HIDE DEF h
  <2>6. ASSUME NEW range \in NarrowRanges(m, n, w), range[1] # range[2]
        PROVE  Lower(range) \in NarrowRanges(m, n, w - 1) /\ Upper(range) \in NarrowRanges(m, n, w - 1)
    BY <2>1, <2>6, HalvesAreNarrowerStill
  <2>7. \A range \in NarrowRanges(m, n, w) : h[range] = SearchedIn(h, range, find, isID)
    <3> SUFFICES ASSUME NEW range \in NarrowRanges(m, n, w)
                 PROVE  h[range] = SearchedIn(h, range, find, isID)
      OBVIOUS
    <3>1. range[1] # range[2] =>
             h[Lower(range)] = g[Lower(range)] /\ h[Upper(range)] = g[Upper(range)]
      BY <2>5, <2>6
    <3>2. SearchedIn(h, range, find, isID) = SearchedIn(g, range, find, isID)
      BY <3>1, SearchedInHalves
    <3>3. QED BY <2>3, <3>2
  <2>8. Searches(h, NarrowRanges(m, n, w), find, isID)
    <3>1. h = [range \in NarrowRanges(m, n, w) |-> h[range]]
      BY DEF h
    <3>2. QED BY <2>7, <3>1, Zenon DEF Searches
  <2>9. QED BY <2>1, <2>8
<1>2. n - m \in Nat /\ NarrowRanges(m, n, n - m) = (m..n) \X (m..n)
  <2>1. \A range \in (m..n) \X (m..n) : Width(range) \in 0..n - m
    BY HalvesAreNarrower
  <2>2. QED BY <2>1 DEF NarrowRanges
<1>3. QED BY <1>1, <1>2

\* What binarySearchForChunk returns is what the search returns for all chunks.
LEMMA ChunkSearch ==
    ASSUME CountsFit, bottom <= top, ~isEmpty, NEW find, NEW isID
    PROVE  \E h : /\ \A range \in (bottom..top) \X (bottom..top) :
                        h[range] = SearchedIn(h, range, find, isID)
                  /\ binarySearchForChunk(find, isID) = h[<<bottom, top>>]
<1>1. bottom \in Int /\ top \in Int
  BY DEF CountsFit
<1> DEFINE chunks == bottom..top
           search == CHOOSE h : Searches(h, chunks \X chunks, find, isID)
<1>2. Min({bottom, top}) = bottom /\ Max({bottom, top}) = top
  BY <1>1, MinMaxOfTwo
<1>3. Searches(search, chunks \X chunks, find, isID)
  BY <1>1, SearchesExist
<1>4. binarySearchForChunk(find, isID) = search[<<bottom, top>>]
  BY <1>2 DEF binarySearchForChunk, Searches, SearchedIn, Mid, Lower, Upper
<1> HIDE DEF search
<1>5. \A range \in chunks \X chunks : search[range] = SearchedIn(search, range, find, isID)
  BY <1>3, Zenon DEF Searches
<1>6. QED BY <1>4, <1>5

FoundIn(chunks) ==
    { found \in [chunk : Nat, pos : {"error", "within", "below", "above", "outside", "empty"},
                 opened : SUBSET chunks] :
        found.pos \in {"within", "below"} => found.chunk \in chunks }

\* The answers the search for a chunk goes on from.
LEMMA TurnsAre ==
    ASSUME NEW chunk, NEW o, NEW isID
    PROVE  isOrdererInChunk(chunk, o, isID) \in {"error", "previous", "next", "here"}
  BY DEF isOrdererInChunk

\* The search for a chunk, and that it opens the files of chunks from the bottom to the top
\* only.
LEMMA ChunkSearchInside ==
    ASSUME CountsFit, bottom <= top, ~isEmpty, NEW find, NEW isID
    PROVE  \E h : /\ \A range \in (bottom..top) \X (bottom..top) :
                        h[range] = SearchedIn(h, range, find, isID) /\ h[range] \in FoundIn(bottom..top)
                  /\ binarySearchForChunk(find, isID) = h[<<bottom, top>>]
<1>0. bottom \in Nat /\ top \in Nat
  BY DEF CountsFit
<1> DEFINE chunks == bottom..top
<1>1. PICK h : /\ \A range \in chunks \X chunks : h[range] = SearchedIn(h, range, find, isID)
               /\ binarySearchForChunk(find, isID) = h[<<bottom, top>>]
  BY ChunkSearch
<1> DEFINE Bad == { w \in Nat : \E range \in chunks \X chunks :
                                   Width(range) = w /\ h[range] \notin FoundIn(chunks) }
<1>2. Bad = {}
  <2> SUFFICES ASSUME Bad # {} PROVE FALSE
    OBVIOUS
  <2>1. PICK w \in Bad : \A v \in Bad : w <= v
    BY SmallestNumber
  <2>2. PICK range \in chunks \X chunks : Width(range) = w /\ h[range] \notin FoundIn(chunks)
    BY <2>1
  <2>3. /\ Mid(range) \in chunks
        /\ range[1] = range[2] => Mid(range) = range[2]
        /\ range[1] # range[2] =>
             /\ Lower(range) \in chunks \X chunks /\ Width(Lower(range)) < Width(range)
             /\ Upper(range) \in chunks \X chunks /\ Width(Upper(range)) < Width(range)
    <3>1. bottom \in Int /\ top \in Int /\ range[2] \in Int
      BY <1>0
    <3>2. range[1] = range[2] => Mid(range) = range[2]
      BY <3>1 DEF Mid
    <3>3. QED BY <3>1, <3>2, HalvesAreNarrower
  <2>4. ASSUME NEW half \in chunks \X chunks, Width(half) < Width(range)
        PROVE  h[half] \in FoundIn(chunks)
    <3>1. Width(half) \in Nat
      <4>1. bottom \in Int /\ top \in Int
        BY <1>0
      <4>2. Width(half) \in 0..top - bottom
        BY <4>1, HalvesAreNarrower
      <4>3. QED BY <1>0, <4>2
    <3>2. Width(half) \notin Bad
      BY <2>1, <2>2, <2>4, <3>1
    <3>3. QED BY <3>1, <3>2
  <2>5. ASSUME NEW half \in chunks \X chunks, Width(half) < Width(range)
        PROVE  [h[half] EXCEPT !.opened = @ \cup {Mid(range)}] \in FoundIn(chunks)
    <3>1. PICK found \in FoundIn(chunks) : found = h[half]
      BY <2>4, <2>5
    <3>2. [found EXCEPT !.opened = @ \cup {Mid(range)}] \in FoundIn(chunks)
      BY <2>3 DEF FoundIn
    <3>3. QED BY <3>1, <3>2
  <2>6. /\ \A pos \in {"error", "within", "below", "above", "outside", "empty"} :
              Found(Mid(range), pos, {Mid(range)}) \in FoundIn(chunks)
        /\ Found(0, "error", {Mid(range)}) \in FoundIn(chunks)
        /\ Mid(range) < top => Found(Mid(range) + 1, "below", {Mid(range)}) \in FoundIn(chunks)
    BY <1>0, <2>3 DEF Found, FoundIn
  <2>7. h[range] = SearchedIn(h, range, find, isID)
    BY <1>1
  <2> PICK turn \in {"error", "previous", "next", "here"} :
         turn = isOrdererInChunk(Mid(range), find, isID)
    BY TurnsAre
  <2>8. h[range] \in FoundIn(chunks)
    <3>1. CASE turn = "error"
      <4>1. h[range] = Found(0, "error", {Mid(range)})
        BY <2>7, <3>1 DEF SearchedIn
      <4>2. QED BY <2>6, <4>1
    <3>2. CASE turn = "here"
      <4>1. h[range] = Found(Mid(range), "within", {Mid(range)})
        BY <2>7, <3>2 DEF SearchedIn
      <4>2. QED BY <2>6, <4>1
    <3>3. CASE turn = "previous" /\ range[1] = range[2]
      <4>1. h[range] = Found(Mid(range), "below", {Mid(range)})
        BY <2>7, <3>3 DEF SearchedIn
      <4>2. QED BY <2>6, <4>1
    <3>4. CASE turn = "previous" /\ range[1] # range[2]
      <4>1. h[range] = [h[Lower(range)] EXCEPT !.opened = @ \cup {Mid(range)}]
        BY <2>7, <3>4 DEF SearchedIn
      <4>2. QED BY <2>3, <2>5, <3>4, <4>1
    <3>5. CASE turn = "next" /\ range[1] # range[2]
      <4>1. h[range] = [h[Upper(range)] EXCEPT !.opened = @ \cup {Mid(range)}]
        BY <2>7, <3>5 DEF SearchedIn
      <4>2. QED BY <2>3, <2>5, <3>5, <4>1
    <3>6. CASE turn = "next" /\ range[1] = range[2] /\ range[2] < top
      <4>1. h[range] = Found(Mid(range) + 1, "below", {Mid(range)})
        BY <1>0, <2>7, <3>6 DEF SearchedIn
      <4>2. QED BY <2>3, <2>6, <3>6, <4>1
    <3>7. CASE turn = "next" /\ range[1] = range[2] /\ ~(range[2] < top)
      <4>1. h[range] = Found(Mid(range), IF count < RowsPerChunk THEN "above" ELSE "outside",
                             {Mid(range)})
        BY <1>0, <2>7, <3>7 DEF SearchedIn
      <4>2. QED BY <2>6, <4>1
    <3>8. QED BY <3>1, <3>2, <3>3, <3>4, <3>5, <3>6, <3>7
  <2>9. QED BY <2>2, <2>8
<1>3. ASSUME NEW range \in chunks \X chunks PROVE h[range] \in FoundIn(chunks)
  <2>1. Width(range) \in Nat
    <3>1. bottom \in Int /\ top \in Int
      BY <1>0
    <3>2. Width(range) \in 0..top - bottom
      BY <3>1, HalvesAreNarrower
    <3>3. QED BY <1>0, <3>2
  <2>2. QED BY <1>2, <2>1
<1>4. QED BY <1>1, <1>3

\* The chunk that is found is between bottom and top.
LEMMA SearchInside ==
    ASSUME CountsFit, bottom <= top, NEW find, NEW isID
    PROVE  binarySearchForChunk(find, isID) \in FoundIn(bottom..top)
<1>1. CASE isEmpty
  <2>1. binarySearchForChunk(find, isID) = Found(0, "empty", {})
    BY <1>1 DEF binarySearchForChunk
  <2>2. QED BY <2>1 DEF Found, FoundIn
<1>2. CASE ~isEmpty
  <2>1. <<bottom, top>> \in (bottom..top) \X (bottom..top)
    BY DEF CountsFit
  <2>2. QED BY <1>2, <2>1, ChunkSearchInside
<1>3. QED BY <1>1, <1>2

\* A search creates files at most.
LEMMA SearchStep ==
    ASSUME Inv, NEW isID \in BOOLEAN, Search(isID)
    PROVE  Inv'
<1>1. /\ FilesFit /\ RowsFit /\ CountsFit /\ DeletionFits /\ ReadersFit /\ up /\ ChunksFit
      /\ UNCHANGED <<up, fields, lock, add, adds, del, it, case>>
      /\ UNCHANGED <<bottom, top>>
      /\ bottom <= top /\ top \in Nat /\ bottom \in Nat
  BY DEF Inv, Search, fields, ChunksFit, CountsFit
<1>2. PICK names \in SUBSET (ChunkTypes \X (0..top)) : files' = Opened(files, names)
  <2>1. PICK find \in 0..MaxAdds :
           files' = Opened(files, {"rows"} \X binarySearchForChunk(find, isID).opened)
    BY DEF Search
  <2>2. binarySearchForChunk(find, isID).opened \subseteq bottom..top
    BY <1>1, SearchInside DEF FoundIn
  <2>3. {"rows"} \X binarySearchForChunk(find, isID).opened \in SUBSET (ChunkTypes \X (0..top))
    BY <1>1, <2>2 DEF ChunkTypes
  <2>4. QED BY <2>1, <2>3
<1>3. /\ FilesFit' /\ RowsFit' /\ KeptRows /\ KeptLines
      /\ DOMAIN files \subseteq DOMAIN files'
      /\ \A name \in DOMAIN files' : name \in DOMAIN files \/ name[2] <= top
  BY <1>1, <1>2, OpeningKeeps
<1>4. ReadersFit'
  <2>1. \A c \in Nat : NumRows(c)' >= NumRows(c)
    BY <1>1, <1>3, NoRowsLost
  <2>2. top' \in Nat /\ top' >= top
    BY <1>1
  <2>3. QED BY <1>1, <1>3, <2>1, <2>2, ReadersFitKept
<1>5. DeletionFits'
  BY <1>1, <1>3, DeletionFitsKept
<1>6. \A c : IsEmptied(c)' = IsEmptied(c)
  BY <1>1 DEF IsEmptied
<1>7. QED BY <1>1, <1>3, <1>4, <1>5, <1>6, ReadingKeeps

-----------------------------------------------------------------------------
(* Deleting *)

\* DeleteChunksOlderThan finds the chunks it is to delete, and begins.
LEMMA DeleteStep ==
    ASSUME Inv, NEW t, DeleteChunksOlderThan(t)
    PROVE  Inv'
<1>1. /\ FilesFit /\ RowsFit /\ CountsFit /\ DeletionFits /\ ReadersFit /\ up /\ ChunksFit
      /\ UNCHANGED <<up, fields, lock, add, adds, it, case>>
      /\ UNCHANGED <<bottom, top, case>>
      /\ bottom <= top /\ top \in Nat /\ bottom \in Nat
  BY DEF Inv, DeleteChunksOlderThan, fields, ChunksFit, CountsFit
<1>9. /\ binarySearchForChunk(t, FALSE).opened \in SUBSET (0..top)
      /\ binarySearchForChunk(t, FALSE).pos \in {"within", "below"}
            => binarySearchForChunk(t, FALSE).chunk \in 0..top
  <2>1. binarySearchForChunk(t, FALSE) \in FoundIn(bottom..top)
    BY <1>1, SearchInside
  <2>2. /\ binarySearchForChunk(t, FALSE).opened \subseteq bottom..top
        /\ binarySearchForChunk(t, FALSE).pos \in {"within", "below"}
              => binarySearchForChunk(t, FALSE).chunk \in bottom..top
    BY <2>1 DEF FoundIn
  <2>3. \A c \in bottom..top : c \in 0..top
    BY <1>1
  <2>4. QED BY <2>2, <2>3
<1> PICK found : found = binarySearchForChunk(t, FALSE)
  OBVIOUS
<1>2. /\ "delete" \in case.faults /\ del.at = "idle"
      /\ found.pos \in {"within", "below"} /\ found.chunk # top /\ bottom < found.chunk
      /\ del' = [at |-> "rows", chunk |-> bottom, until |-> found.chunk]
      /\ files' = Opened(files, {"rows"} \X found.opened)
  BY DEF DeleteChunksOlderThan
<1>3. {"rows"} \X found.opened \in SUBSET (ChunkTypes \X (0..top))
  BY <1>9 DEF ChunkTypes
<1>4. /\ FilesFit' /\ RowsFit' /\ KeptRows /\ KeptLines
      /\ DOMAIN files \subseteq DOMAIN files'
      /\ \A name \in DOMAIN files' : name \in DOMAIN files \/ name[2] <= top
  BY <1>1, <1>2, <1>3, OpeningKeeps
<1>5. ReadersFit'
  <2>1. \A c \in Nat : NumRows(c)' >= NumRows(c)
    BY <1>1, <1>4, NoRowsLost
  <2>2. top' \in Nat /\ top' >= top
    BY <1>1
  <2>3. QED BY <1>1, <1>4, <2>1, <2>2, ReadersFitKept
<1>6. DeletionFits'
  <2>1. found.chunk \in 0..top /\ top \in Nat
    BY <1>1, <1>2, <1>9
  <2>4. \A c \in 0..top : c \in Nat /\ c <= top
    BY <1>1
  <2>2. found.chunk \in Nat /\ found.chunk <= top
    BY <2>1, <2>4, Zenon
  <2>3. /\ del'.at = "rows" /\ del'.chunk = bottom /\ del'.until = found.chunk
        /\ del' \in [at : {"idle"} \cup ChunkTypes, chunk : Nat, until : Nat]
    BY <1>1, <1>2, <2>2 DEF ChunkTypes
  <2>5. QED BY <1>1, <1>2, <2>2, <2>3 DEF DeletionFits
<1>7. \A c : IsEmptied(c)' = IsEmptied(c)
  BY <1>2 DEF IsEmptied
<1>8. QED BY <1>1, <1>4, <1>5, <1>6, <1>7, ReadingKeeps

\* What a removal does to the files: those of other chunks stay, and the rows go first.
LEMMA RemovalFits ==
    ASSUME Inv, RemoveFile
    PROVE  /\ bottom < top /\ del.chunk = bottom /\ "delete" \in case.faults
           /\ files' = Without(files, {<<del.at, bottom>>})
           /\ FilesFit' /\ RowsFit'
           /\ NumRows(bottom) \in Nat /\ (del.at # "rows" => NumRows(bottom) = 0)
           /\ getChunkRowCount(RowsIn(files', bottom)) = 0
           /\ \A c \in Nat : c # bottom => RowsOf(c)' = RowsOf(c)
           /\ \A c \in Nat, type \in ChunkTypes : c # bottom =>
                 (<<type, c>> \in DOMAIN files' <=> <<type, c>> \in DOMAIN files)
           /\ \A type \in {"match", "aux"}, c \in Nat : \A from, order :
                 c # bottom /\ HasLineOf(type, c, from, order) => HasLineOf(type, c, from, order)'
<1>1. FilesFit /\ RowsFit /\ DeletionFits /\ UNCHANGED adds /\ CountsFit
  BY DEF Inv, RemoveFile
<1>2. /\ del.at # "idle" /\ del.at \in ChunkTypes /\ del.chunk = bottom /\ bottom < top
      /\ "delete" \in case.faults
      /\ files' = Without(files, {<<del.at, bottom>>}) /\ bottom \in Nat
      /\ del.at \in {"match", "aux"} => NumRows(bottom) = 0
  <2>1. del.at # "idle" /\ files' = Without(files, {<<del.at, del.chunk>>})
    BY DEF RemoveFile
  <2>2. del.at \in {"idle"} \cup ChunkTypes /\ bottom \in Nat /\ top \in Nat /\ del.until \in Nat
    BY <1>1 DEF DeletionFits, CountsFit
  <2>3. /\ del.chunk = bottom /\ bottom < del.until /\ del.until <= top /\ "delete" \in case.faults
        /\ del.at \in {"match", "aux"} => NumRows(del.chunk) = 0
    BY <1>1, <2>1 DEF DeletionFits
  <2>4. QED BY <2>1, <2>2, <2>3
<1>3. /\ DOMAIN files' = DOMAIN files \ {<<del.at, bottom>>}
      /\ \A name \in DOMAIN files' : files'[name] = files[name]
  BY <1>2 DEF Without
<1>4. FilesFit'
  BY <1>1, <1>3 DEF FilesFit, IsDirectory
<1>5. \A c \in Nat : c # bottom => RowsOf(c)' = RowsOf(c)
  BY <1>3 DEF RowsOf, RowsIn
<1>6. \A c \in Nat, type \in ChunkTypes : c # bottom =>
                 (<<type, c>> \in DOMAIN files' <=> <<type, c>> \in DOMAIN files)
  BY <1>3
<1>7. ASSUME NEW type \in {"match", "aux"}, NEW c \in Nat, NEW from, NEW order,
             c # bottom, HasLineOf(type, c, from, order)
      PROVE  HasLineOf(type, c, from, order)'
  BY <1>3, <1>7 DEF HasLineOf
<1>8. /\ NumRows(bottom) \in Nat
      /\ del.at # "rows" => NumRows(bottom) = 0
  BY <1>1, <1>2, RowFiles DEF ChunkTypes
<1>9. getChunkRowCount(RowsIn(files', bottom)) = 0
  <2>1. CASE del.at = "rows"
    BY <1>3, <2>1, NoRowsAreRows DEF RowsIn
  <2>2. CASE del.at # "rows"
    <3>1. RowsIn(files', bottom) = RowsOf(bottom)
      BY <1>3, <2>2 DEF RowsOf, RowsIn
    <3>2. QED BY <1>8, <2>2, <3>1 DEF NumRows
  <2>3. QED BY <2>1, <2>2
<1>10. RowsFit'
  <2> SUFFICES ASSUME NEW c \in Nat, NEW i \in 0..NumRows(c)' - 1
               PROVE  RowFits(RowIn(RowsOf(c), i), c)'
    BY DEF RowsFit
  <2>1. c # bottom
    <3>1. ASSUME c = bottom PROVE FALSE
      <4>1. NumRows(c)' = 0
        BY <1>9, <3>1 DEF NumRows, RowsOf
      <4>2. QED BY <4>1
    <3>2. QED BY <3>1
  <2>2. RowsOf(c)' = RowsOf(c) /\ NumRows(c)' = NumRows(c)
    BY <1>5, <2>1 DEF NumRows
  <2>3. PICK row : row = RowIn(RowsOf(c), i) /\ RowFits(row, c)
    BY <1>1, <2>2 DEF RowsFit
  <2>4. RowFits(row, c)'
    BY <1>1, <1>7, <2>1, <2>3 DEF RowFits
  <2>5. QED BY <2>2, <2>3, <2>4
<1>11. QED BY <1>2, <1>4, <1>5, <1>6, <1>7, <1>8, <1>9, <1>10

\* Who has the file open that is removed, keeps its bytes.
LEMMA UnlinkedFits ==
    ASSUME NEW i \in Iteration, NEW type \in ChunkTypes, NEW c \in Nat, FilesFit,
           NEW after, after = AfterRemoval(i, <<type, c>>)
    PROVE  /\ after \in Iteration
           /\ after.at = i.at /\ after.chunk = i.chunk /\ after.index = i.index
           /\ after.forward = i.forward /\ after.seen = i.seen /\ after.due \subseteq i.due
           /\ \/ after.rows = i.rows
              \/ /\ after.rows.state = "unlinked" /\ after.rows.bytes = files[<<"rows", c>>]
                 /\ i.rows.state = "live" /\ i.chunk = c
           /\ after.lines = i.lines \/ after.lines.state = "unlinked"
           /\ i.chunk = c /\ <<type, c>> \in DOMAIN files =>
                /\ type = "rows" => after.rows.state # "live"
                /\ type = "match" => after.lines.state # "live"
<1> DEFINE isHeld == i.chunk = c /\ <<type, c>> \in DOMAIN files
           name == <<type, c>>
           rows == { RowAt(p).order : p \in { q \in RowPositions : q[1] = c } }
<1>1. /\ i.rows \in Handle({ b \in Seq(StoredRow \X {1, 2}) : IsRows(b) })
      /\ i.lines \in Handle(Seq(LineByte)) /\ i.due \in SUBSET Nat
  BY DEF Iteration
<1>2. CASE type = "rows"
  <2>1. PICK due \in SUBSET Nat : due = i.due \ rows
    BY <1>1
  <2>2. PICK handle \in Handle({ b \in Seq(StoredRow \X {1, 2}) : IsRows(b) }) :
           handle = IF isHeld THEN Unlinked(i.rows, name) ELSE i.rows
    <3>1. CASE isHeld
      <4>1. files[name] \in { b \in Seq(StoredRow \X {1, 2}) : IsRows(b) }
        BY <1>2, <3>1 DEF FilesFit, IsDirectory, IsRows
      <4>2. Unlinked(i.rows, name) \in Handle({ b \in Seq(StoredRow \X {1, 2}) : IsRows(b) })
        BY <1>1, <4>1 DEF Unlinked, Handle
      <4>3. QED BY <3>1, <4>2
    <3>2. CASE ~isHeld
      BY <1>1, <3>2
    <3>3. QED BY <3>1, <3>2
  <2>3. after = [i EXCEPT !.rows = handle, !.due = due]
    BY <1>2, <2>1, <2>2 DEF AfterRemoval
  <2>4. /\ after \in Iteration /\ after.rows = handle /\ after.due = due /\ after.lines = i.lines
        /\ after.at = i.at /\ after.chunk = i.chunk /\ after.index = i.index
        /\ after.forward = i.forward /\ after.seen = i.seen
    BY <2>3 DEF Iteration
  <2>5. CASE isHeld /\ i.rows.state = "live"
    BY <1>2, <2>1, <2>2, <2>4, <2>5 DEF Unlinked
  <2>6. CASE ~(isHeld /\ i.rows.state = "live")
    BY <1>2, <2>1, <2>2, <2>4, <2>6 DEF Unlinked
  <2>7. QED BY <2>5, <2>6
<1>3. CASE type = "match"
  <2>1. PICK handle \in Handle(Seq(LineByte)) :
           handle = IF isHeld THEN Unlinked(i.lines, name) ELSE i.lines
    <3>1. CASE isHeld
      <4>1. files[name] \in Seq(LineByte)
        BY <1>3, <3>1 DEF FilesFit, IsDirectory
      <4>2. Unlinked(i.lines, name) \in Handle(Seq(LineByte))
        BY <1>1, <4>1 DEF Unlinked, Handle
      <4>3. QED BY <3>1, <4>2
    <3>2. CASE ~isHeld
      BY <1>1, <3>2
    <3>3. QED BY <3>1, <3>2
  <2>2. after = [i EXCEPT !.lines = handle]
    BY <1>3, <2>1 DEF AfterRemoval
  <2>3. /\ after \in Iteration /\ after.rows = i.rows /\ after.due = i.due /\ after.lines = handle
        /\ after.at = i.at /\ after.chunk = i.chunk /\ after.index = i.index
        /\ after.forward = i.forward /\ after.seen = i.seen
    BY <2>2 DEF Iteration
  <2>4. handle = i.lines \/ handle.state = "unlinked"
    BY <2>1 DEF Unlinked
  <2>5. isHeld => handle.state # "live"
    BY <2>1 DEF Unlinked
  <2>6. QED BY <1>3, <2>3, <2>4, <2>5
<1>4. CASE type = "aux"
  <2>1. after = i
    BY <1>4 DEF AfterRemoval
  <2>2. QED BY <1>4, <2>1
<1>5. QED BY <1>2, <1>3, <1>4 DEF ChunkTypes

\* A chunk that is removed is below the top, and empty when its rows are gone.
LEMMA RemoveFileStep ==
    ASSUME Inv, RemoveFile
    PROVE  Inv'
<1>1. /\ FilesFit /\ RowsFit /\ AddersFit /\ CountsFit /\ DeletionFits /\ ReadersFit /\ up /\ ChunksFit
      /\ UNCHANGED <<up, top, lastID, lock, add, adds, case>>
      /\ bottom \in Nat /\ top \in Nat /\ count \in 0..RowsPerChunk /\ lastID \in Nat
      /\ del.at # "idle"
  BY DoersAreUp DEF Inv, RemoveFile, CountsFit
<1>2. /\ bottom < top /\ del.chunk = bottom /\ "delete" \in case.faults
      /\ files' = Without(files, {<<del.at, bottom>>})
      /\ FilesFit' /\ RowsFit'
      /\ NumRows(bottom) \in Nat /\ (del.at # "rows" => NumRows(bottom) = 0)
      /\ getChunkRowCount(RowsIn(files', bottom)) = 0
      /\ \A c \in Nat : c # bottom => RowsOf(c)' = RowsOf(c)
      /\ \A c \in Nat, type \in ChunkTypes : c # bottom =>
            (<<type, c>> \in DOMAIN files' <=> <<type, c>> \in DOMAIN files)
      /\ \A type \in {"match", "aux"}, c \in Nat : \A from, order :
            c # bottom /\ HasLineOf(type, c, from, order) => HasLineOf(type, c, from, order)'
  BY RemovalFits
<1> PICK b \in Nat : b = bottom
  BY <1>1
<1> PICK type \in ChunkTypes : type = del.at
  BY <1>1 DEF DeletionFits
<1>3. /\ it' = [r \in Readers |-> AfterRemoval(it[r], <<type, b>>)]
      /\ files' = Without(files, {<<type, b>>})
      /\ IF type = "aux"
         THEN /\ bottom' = b + 1 /\ count' = count
              /\ del' = IF b + 1 < del.until THEN [del EXCEPT !.at = "rows", !.chunk = @ + 1]
                                             ELSE NotDeleting
         ELSE /\ del' = [del EXCEPT !.at = NextRemoved[@]]
              /\ bottom' = b /\ count' = count
  BY <1>1, <1>2 DEF RemoveFile
<1>4. /\ \A c \in Nat : c # b => NumRows(c)' = NumRows(c)
      /\ \A c \in Nat : c = b => NumRows(c)' = 0
  BY <1>2 DEF NumRows, RowsOf
<1>5. AddersFit' /\ Waiting' = Waiting
  <2>1. ASSUME NEW a \in Adders, lock = a PROVE HolderFits(a)'
    <3>1. HolderFits(a) /\ add[a].type \in ChunkTypes
      BY <1>1, <2>1 DEF AddersFit, Adding
    <3>2. top \in Nat /\ top # bottom
      BY <1>1, <1>2
    <3>3. add[a].at = "write" => AddedFile(a)' \in DOMAIN files'
      BY <1>1, <1>2, <3>1, <3>2 DEF HolderFits, AddedFile
    <3>4. /\ add[a].type # "match" => HasLineOf("match", top, add[a].pos.match, add[a].order)'
          /\ add[a].type = "rows" => HasLineOf("aux", top, add[a].pos.aux, add[a].order)'
      <4> PICK w \in Adding : w = add[a]
        BY <1>1 DEF AddersFit
      <4> PICK t \in Nat : t = top
        BY <1>1
      <4>1. /\ w.type # "match" => HasLineOf("match", t, w.pos.match, w.order)'
            /\ w.type = "rows" => HasLineOf("aux", t, w.pos.aux, w.order)'
        BY <1>2, <3>1, <3>2 DEF HolderFits
      <4>2. QED BY <1>1, <4>1
    <3>5. QED BY <1>1, <1>3, <3>1, <3>3, <3>4 DEF HolderFits
  <2>2. QED BY <1>1, <2>1 DEF AddersFit, Waiting
<1>6. CountsFit'
  <2>1. bottom' \in Nat /\ count' \in 0..RowsPerChunk /\ lastID' \in 0..lastID
    BY <1>1, <1>3
  <2>2. QED BY <1>1, <1>5, <2>1, CountsFitKept
<1>7. /\ del' \in [at : {"idle"} \cup ChunkTypes, chunk : Nat, until : Nat]
      /\ bottom' \in {b, b + 1}
      /\ del'.at # "idle" => del'.chunk = bottom' /\ bottom' < del'.until /\ del'.until <= top
      /\ del'.at \in {"match", "aux"} => bottom' = b
      /\ bottom' = b => del'.at \in {"match", "aux"} /\ del'.chunk = b
  <2>1. /\ del \in [at : {"idle"} \cup ChunkTypes, chunk : Nat, until : Nat]
        /\ del.chunk = b /\ b < del.until /\ del.until <= top
    BY <1>1 DEF DeletionFits
  <2>2. CASE type = "aux" /\ b + 1 < del.until
    <3>1. del' = [del EXCEPT !.at = "rows", !.chunk = @ + 1] /\ bottom' = b + 1
      BY <1>3, <2>2
    <3>2. /\ del' \in [at : {"idle"} \cup ChunkTypes, chunk : Nat, until : Nat]
          /\ del'.at = "rows" /\ del'.chunk = b + 1 /\ del'.until = del.until
      <4>1. /\ del.chunk + 1 = b + 1 /\ "rows" \in {"idle"} \cup ChunkTypes /\ del.chunk + 1 \in Nat
            /\ del' = [del EXCEPT !.at = "rows", !.chunk = del.chunk + 1]
        BY <2>1, <3>1 DEF ChunkTypes
      <4>2. QED BY <2>1, <4>1
    <3>3. QED BY <1>1, <2>1, <2>2, <3>1, <3>2
  <2>3. CASE type = "aux" /\ ~(b + 1 < del.until)
    <3>1. del' = NotDeleting /\ bottom' = b + 1
      BY <1>3, <2>3
    <3>2. QED BY <3>1 DEF NotDeleting
  <2>4. CASE type # "aux"
    <3>1. del' = [del EXCEPT !.at = NextRemoved[type]] /\ bottom' = b
      BY <1>3, <2>4
    <3>2. NextRemoved[type] \in {"match", "aux"}
      BY <2>4 DEF NextRemoved, ChunkTypes
    <3>3. /\ del' \in [at : {"idle"} \cup ChunkTypes, chunk : Nat, until : Nat]
          /\ del'.at = NextRemoved[type] /\ del'.chunk = b /\ del'.until = del.until
      BY <2>1, <3>1, <3>2 DEF ChunkTypes
    <3>4. QED BY <2>1, <3>1, <3>2, <3>3
  <2>5. QED BY <2>2, <2>3, <2>4
<1>8. DeletionFits'
  <2>1. del'.at \in {"match", "aux"} => NumRows(del.chunk)' = 0
    <3>1. ASSUME del'.at \in {"match", "aux"} PROVE getChunkRowCount(RowsIn(files', del'.chunk)) = 0
      BY <1>2, <1>7, <3>1
    <3>2. QED BY <3>1 DEF NumRows, RowsOf
  <2>2. QED BY <1>1, <1>2, <1>7, <2>1 DEF DeletionFits
<1>9. ChunksFit'
  <2>1. Pending' = Pending /\ IsExact' = IsExact
    BY <1>1 DEF Pending, IsExact
  <2>2. NumRows(top)' = NumRows(top) /\ count' = count
    <3>1. PICK t \in Nat : t = top /\ t # b
      BY <1>1, <1>2
    <3>2. NumRows(t)' = NumRows(t)
      BY <1>4, <3>1
    <3>3. QED BY <1>1, <1>3, <3>1, <3>2 DEF NumRows, RowsOf
  <2>3. \A c \in Nat : c < top' => NumRows(c)' <= RowsPerChunk
    <3> SUFFICES ASSUME NEW c \in Nat, c < top PROVE NumRows(c)' <= RowsPerChunk
      BY <1>1
    <3>1. CASE c = b
      BY <1>4, <3>1, ConstantsFit
    <3>2. CASE c # b
      BY <1>1, <1>4, <3>2 DEF ChunksFit
    <3>3. QED BY <3>1, <3>2
  <2>4. \A c \in Nat : c < bottom' => NumRows(c)' = 0
    <3> SUFFICES ASSUME NEW c \in Nat, c < bottom' PROVE NumRows(c)' = 0
      OBVIOUS
    <3>1. CASE c = b
      BY <1>4, <3>1
    <3>2. CASE c # b
      <4>1. c < bottom
        BY <1>7, <3>2
      <4>2. QED BY <1>1, <1>4, <3>2, <4>1 DEF ChunksFit
    <3>3. QED BY <3>1, <3>2
  <2>5. IsExact => \A c \in bottom'..top' - 1 : NumRows(c)' = RowsPerChunk \/ IsEmptied(c)'
    <3> SUFFICES ASSUME IsExact, NEW c \in bottom'..top - 1
                 PROVE  NumRows(c)' = RowsPerChunk \/ IsEmptied(c)'
      BY <1>1
    <3>1. CASE c = b
      <4>1. bottom' = b
        BY <1>7, <3>1
      <4>2. QED BY <1>7, <3>1, <4>1 DEF IsEmptied
    <3>2. CASE c # b
      <4>1. c \in bottom..top - 1 /\ c \in Nat
        BY <1>1, <1>7
      <4>2. NumRows(c) = RowsPerChunk
        BY <1>1, <1>2, <3>2, <4>1 DEF ChunksFit, IsEmptied
      <4>3. QED BY <1>4, <3>2, <4>1, <4>2
    <3>3. QED BY <3>1, <3>2
  <2>6. bottom' <= top' /\ \A name \in DOMAIN files' : name[2] <= top'
    BY <1>1, <1>2, <1>3, <1>7 DEF ChunksFit, Without
  <2>7. ~(case'.faults \subseteq {"crash"})
    BY <1>1, <1>2
  <2>8. QED BY <1>1, <2>1, <2>2, <2>3, <2>4, <2>5, <2>6, <2>7 DEF ChunksFit
<1>10. ReadersFit'
  <2>1. ASSUME NEW r \in Readers
        PROVE  it'[r] \in Iteration /\ (IsReading(r)' => ReaderFits(r)')
    <3> PICK i \in Iteration : i = it[r]
      BY <1>1 DEF ReadersFit
    <3> PICK after : after = it'[r] /\ after = AfterRemoval(i, <<type, b>>)
      BY <1>3
    <3>1. /\ after \in Iteration
          /\ after.at = i.at /\ after.chunk = i.chunk /\ after.index = i.index
          /\ \/ after.rows = i.rows
             \/ /\ after.rows.state = "unlinked" /\ after.rows.bytes = files[<<"rows", b>>]
                /\ i.rows.state = "live" /\ i.chunk = b
          /\ after.lines = i.lines \/ after.lines.state = "unlinked"
          /\ i.chunk = b /\ <<type, b>> \in DOMAIN files =>
                /\ type = "rows" => after.rows.state # "live"
                /\ type = "match" => after.lines.state # "live"
      BY <1>1, UnlinkedFits
    <3>2. ASSUME IsReading(r)' PROVE ReaderFits(r)'
      <4>1. ReaderFits(r) /\ i.at = after.at /\ i.chunk \in Nat
        BY <1>1, <3>1, <3>2 DEF ReadersFit, IsReading, Iteration
      <4>2. \A t \in ChunkTypes : <<t, i.chunk>> \in DOMAIN files /\ ~(t = type /\ i.chunk = b)
                                   => <<t, i.chunk>> \in DOMAIN files'
        BY <1>3 DEF Without
      <4>3. /\ after.rows.state = "live" => <<"rows", i.chunk>> \in DOMAIN files'
            /\ after.lines.state = "live" => <<"match", i.chunk>> \in DOMAIN files'
        <5>1. ASSUME after.rows.state = "live" PROVE <<"rows", i.chunk>> \in DOMAIN files'
          <6>1. after.rows = i.rows /\ <<"rows", i.chunk>> \in DOMAIN files
            BY <3>1, <4>1, <5>1 DEF ReaderFits
          <6>2. ~("rows" = type /\ i.chunk = b)
            BY <3>1, <5>1, <6>1
          <6>3. QED BY <4>2, <6>1, <6>2 DEF ChunkTypes
        <5>2. ASSUME after.lines.state = "live" PROVE <<"match", i.chunk>> \in DOMAIN files'
          <6>1. after.lines = i.lines /\ <<"match", i.chunk>> \in DOMAIN files
            BY <3>1, <4>1, <5>2 DEF ReaderFits
          <6>2. ~("match" = type /\ i.chunk = b)
            BY <3>1, <5>2, <6>1
          <6>3. QED BY <4>2, <6>1, <6>2 DEF ChunkTypes
        <5>3. QED BY <5>1, <5>2
      <4>4. ASSUME after.at = "match"
            PROVE  /\ after.rows.state # "none"
                   /\ HasRow(IF after.rows.state = "live" THEN files'[<<"rows", i.chunk>>]
                             ELSE after.rows.bytes, i.index)
        <5>1. /\ i.rows.state # "none"
              /\ HasRow(IF i.rows.state = "live" THEN files[<<"rows", i.chunk>>]
                        ELSE i.rows.bytes, i.index)
          BY <4>1, <4>4 DEF ReaderFits, Held
        <5>2. after.rows.state = "live" => files'[<<"rows", i.chunk>>] = files[<<"rows", i.chunk>>]
          BY <1>3, <4>3 DEF Without
        <5>3. CASE after.rows = i.rows
          BY <5>1, <5>2, <5>3
        <5>4. CASE after.rows # i.rows
          BY <3>1, <5>1, <5>4
        <5>5. QED BY <5>3, <5>4
      <4>5. after.chunk <= top'
        BY <1>1, <3>1, <4>1 DEF ReaderFits
      <4>6. QED BY <3>1, <4>3, <4>4, <4>5 DEF ReaderFits, Held
    <3>3. QED BY <3>1, <3>2
  <2>2. it' \in [Readers -> Iteration]
    BY <1>3, <2>1
  <2>3. QED BY <2>1, <2>2 DEF ReadersFit
<1>11. QED BY <1>1, <1>2, <1>5, <1>6, <1>8, <1>9, <1>10 DEF Inv

-----------------------------------------------------------------------------
(* Crashing and loading *)

\* What is not being read or deleted fits.
LEMMA IdleFits ==
    /\ NotIterating \in Iteration /\ NotIterating.at = "idle"
    /\ NotDeleting \in [at : {"idle"} \cup ChunkTypes, chunk : Nat, until : Nat]
    /\ NotDeleting.at = "idle"
  BY EmptySeq DEF NotIterating, Iteration, NotOpen, Handle, NotDeleting

\* When nobody does anything.
Idle ==
    /\ lock = NoOne /\ del = NotDeleting
    /\ add = [a \in Adders |-> NotAdding]
    /\ it = [r \in Readers |-> NotIterating]

\* Where nobody does anything, all that is said of who does fits.
LEMMA IdleKeeps == Idle => AddersFit /\ DeletionFits /\ ReadersFit /\ Waiting = {} /\ Pending = 0
<1> SUFFICES ASSUME Idle
             PROVE  AddersFit /\ DeletionFits /\ ReadersFit /\ Waiting = {} /\ Pending = 0
  OBVIOUS
<1>1. AddersFit
  BY IdleAdding, ConstantsFit DEF Idle, AddersFit, NotAdding
<1>2. DeletionFits
  BY IdleFits DEF Idle, DeletionFits
<1>3. ReadersFit
  BY IdleFits DEF Idle, ReadersFit, IsReading
<1>4. Waiting = {} /\ Pending = 0
  BY IdleAdding DEF Idle, Waiting, Pending
<1>5. QED BY <1>1, <1>2, <1>3, <1>4

\* The same in the state a step ends in.
LEMMA NextIdleKeeps ==
    Idle' => (AddersFit /\ DeletionFits /\ ReadersFit /\ Waiting = {} /\ Pending = 0)'
  BY IdleKeeps, PTL

\* A crash leaves files that load can go on from.
LEMMA CrashStep ==
    ASSUME Inv, FaultsAreApart, Crash
    PROVE  Inv'
<1>1. /\ FilesFit /\ RowsFit /\ CountsFit /\ DeletionFits /\ ChunksFit
      /\ UNCHANGED <<files, adds, case>>
      /\ up' = FALSE /\ bottom' = 0 /\ top' = 0 /\ count' = 0 /\ lastID' = 0
      /\ "crash" \in case.faults /\ Idle'
      /\ top \in Nat /\ adds \in Nat /\ count \in 0..RowsPerChunk /\ RowsPerChunk \in Nat
      /\ case \in Cases
  BY ConstantsFit DEF Inv, Crash, Idle, CountsFit
<1>2. case.faults \subseteq {"crash"} /\ IsExact /\ "delete" \notin case.faults
  BY <1>1 DEF FaultsAreApart, IsExact
<1>3. FilesFit' /\ KeptRows /\ KeptLines
  BY <1>1, SameFiles
<1>4. RowsFit'
  BY <1>1, <1>3, RowsFitKept
<1>5. AddersFit' /\ DeletionFits' /\ ReadersFit' /\ Waiting' = {}
  BY <1>1, NextIdleKeeps
<1>6. CountsFit'
  <2>1. IsFiniteSet({}) /\ Cardinality({}) = 0
    BY FS_EmptySet
  <2>2. adds <= case.rows + case.adds
    BY <1>1 DEF CountsFit
  <2>3. IsFiniteSet(Waiting') /\ Cardinality(Waiting') = 0
    BY <1>5, <2>1
  <2>4. top' + Cardinality(Waiting') <= adds' /\ lastID' + Cardinality(Waiting') <= adds'
    BY <1>1, <2>3
  <2>5. /\ bottom' \in Nat /\ top' \in Nat /\ count' \in 0..RowsPerChunk /\ lastID' \in Nat
        /\ adds' \in Nat /\ case' \in Cases /\ adds' <= case'.rows + case'.adds
    BY <1>1, <2>2
  <2>6. up' \in BOOLEAN
    BY <1>1
  <2>7. QED BY <2>3, <2>4, <2>5, <2>6 DEF CountsFit
<1>7. DownFits'
  <2>1. PICK t \in 0..adds : t = top
    BY <1>1, BoundsFit
  <2>2. DiskFits(t)
    <3>1. bottom = 0 /\ del.at = "idle"
      BY <1>1, <1>2 DEF ChunksFit, DeletionFits
    <3>2. \A c \in Nat : c < t => NumRows(c) = RowsPerChunk
      <4> SUFFICES ASSUME NEW c \in Nat, c < t PROVE NumRows(c) = RowsPerChunk
        OBVIOUS
      <4>1. c \in bottom..top - 1 /\ ~IsEmptied(c)
        BY <1>1, <2>1, <3>1 DEF IsEmptied
      <4>2. QED BY <1>1, <1>2, <4>1 DEF ChunksFit
    <3>3. NumRows(t) <= RowsPerChunk
      <4>1. NumRows(t) \in Nat /\ NumRows(t) <= count - Pending /\ Pending \in {0, 1}
        BY <1>1, <2>1, RowFiles DEF ChunksFit, Pending
      <4>2. QED BY <1>1, <4>1
    <3>4. QED BY <1>1, <2>1, <3>2, <3>3 DEF ChunksFit, DiskFits
  <2>3. DiskFits(t)'
    BY <1>1, <2>2 DEF DiskFits, NumRows, RowsOf
  <2>4. QED BY <1>1, <2>1, <2>3 DEF DownFits, Idle
<1>8. QED BY <1>1, <1>3, <1>4, <1>5, <1>6, <1>7 DEF Inv

\* Min of a finite set of numbers is one of them, and below the others.
LEMMA MinIs ==
    ASSUME NEW S \in SUBSET Int, NEW m \in S, \A x \in S : m <= x
    PROVE  Min(S) = m
<1>1. Min(S) \in S /\ \A x \in S : Min(S) <= x
  BY DEF Min
<1>2. Min(S) \in Int /\ m \in Int /\ m <= Min(S) /\ Min(S) <= m
  BY <1>1
<1>3. QED BY <1>2

\* Max of a finite set of numbers is one of them, and above the others.
LEMMA MaxIs ==
    ASSUME NEW S \in SUBSET Int, NEW m \in S, \A x \in S : m >= x
    PROVE  Max(S) = m
<1>1. Max(S) \in S /\ \A x \in S : Max(S) >= x
  BY DEF Max
<1>2. Max(S) \in Int /\ m \in Int /\ m >= Max(S) /\ Max(S) >= m
  BY <1>1
<1>3. QED BY <1>2

\* A file without rows is empty.
LEMMA NoRowsAreNoBytes ==
    ASSUME NEW bytes, IsRows(bytes), getChunkRowCount(bytes) = 0
    PROVE  bytes = << >>
<1>1. bytes \in Seq(StoredRow \X {1, 2}) /\ Len(bytes) = 0
  BY DEF IsRows
<1>2. QED BY <1>1, EmptySeq

\* The chunks that have a file of a type are those whose name is in the directory.
LEMMA NamesAre ==
    ASSUME FilesFit
    PROVE  /\ \A type \in ChunkTypes : \A c : c \in ChunksOf(type) <=> <<type, c>> \in DOMAIN files
           /\ \A name \in DOMAIN files :
                 name = <<name[1], name[2]>> /\ name[1] \in ChunkTypes /\ name[2] \in Nat
<1>1. \A name \in DOMAIN files : name = <<name[1], name[2]>> /\ name[1] \in ChunkTypes /\ name[2] \in Nat
  BY DEF FilesFit, IsDirectory
<1>2. ASSUME NEW type \in ChunkTypes, NEW c
      PROVE  c \in ChunksOf(type) <=> <<type, c>> \in DOMAIN files
  <2>1. ASSUME c \in ChunksOf(type) PROVE <<type, c>> \in DOMAIN files
    BY <1>1, <2>1 DEF ChunksOf
  <2>2. ASSUME <<type, c>> \in DOMAIN files PROVE c \in ChunksOf(type)
    <3>1. <<type, c>> \in { n \in DOMAIN files : n[1] = type } /\ c = <<type, c>>[2]
      BY <2>2
    <3>2. QED BY <3>1 DEF ChunksOf
  <2>3. QED BY <2>1, <2>2
<1>3. QED BY <1>1, <1>2

\* What a load finds: all types have the chunks below some top, and some may have that too.
LEMMA LoadFinds ==
    ASSUME FilesFit, RowsFit, NEW t \in Nat, DiskFits(t), ChunksOf("rows") # {}
    PROVE  /\ DeletedBelow = {} /\ BottomLeft = 0
           /\ Min(Maxes) \in Nat /\ Min(Maxes) \in {t - 1, t}
           /\ \A c \in DeletedAbove : c = t /\ Min(Maxes) = t - 1
           /\ \A name \in DOMAIN files : name[2] <= Min(Maxes) \/ name[2] \in DeletedAbove
           /\ Min(Maxes) = t - 1 => NumRows(t) = 0
<1>1. \A type \in ChunkTypes : \A c : c \in ChunksOf(type) <=> <<type, c>> \in DOMAIN files
  BY NamesAre
<1>2. \A type \in ChunkTypes : ChunksOf(type) \subseteq 0..t
  <2> SUFFICES ASSUME NEW type \in ChunkTypes, NEW c \in ChunksOf(type) PROVE c \in 0..t
    OBVIOUS
  <2>1. PICK name \in DOMAIN files : name = <<type, c>>
    BY <1>1
  <2>2. name[2] = c /\ name[2] \in Nat /\ name[2] <= t
    BY <2>1, NamesAre DEF DiskFits
  <2>3. QED BY <2>2
<1>3. \A type \in ChunkTypes : \A c \in 0..t - 1 : c \in ChunksOf(type)
  <2> SUFFICES ASSUME NEW type \in ChunkTypes, NEW c \in 0..t - 1 PROVE c \in ChunksOf(type)
    OBVIOUS
  <2>1. c \in Nat /\ c < t
    OBVIOUS
  <2>2. NumRows(c) > 0
    BY <2>1, ConstantsFit DEF DiskFits
  <2>3. <<type, c>> \in DOMAIN files
    BY <2>1, <2>2, ChunksHaveFiles
  <2>4. QED BY <1>1, <2>3
<1>4. ASSUME NEW R \in Ranges
      PROVE  /\ R \subseteq 0..t /\ Min(R) = 0 /\ Max(R) \in Nat
             /\ Max(R) = IF t \in R THEN t ELSE t - 1
  <2>1. PICK type \in ChunkTypes : R = ChunksOf(type) /\ R # {}
    BY DEF Ranges
  <2>2. R \subseteq 0..t /\ R \subseteq Int /\ \A c \in 0..t - 1 : c \in R
    BY <1>2, <1>3, <2>1
  <2>3. 0 \in R
    BY <2>1, <2>2
  <2>4. Min(R) = 0
    BY <2>2, <2>3, MinIs
  <2>5. CASE t \in R
    BY <2>2, <2>4, <2>5, MaxIs
  <2>6. CASE t \notin R
    <3>1. t - 1 \in R /\ \A c \in R : t - 1 >= c
      BY <2>2, <2>3, <2>6
    <3>2. Max(R) = t - 1
      BY <2>2, <3>1, MaxIs
    <3>3. QED BY <2>2, <2>4, <2>6, <3>1, <3>2
  <2>7. QED BY <2>5, <2>6
<1>5. ChunksOf("rows") \in Ranges
  BY DEF Ranges, ChunkTypes
<1>6. Mins = {0}
  BY <1>4, <1>5 DEF Mins
<1>7. Min(Mins) = 0 /\ Max(Mins) = 0
  BY <1>6, MinIs, MaxIs
<1>8. DeletedBelow = {} /\ LoadedBottom = 0
  <2>1. DeletedBelow = {}
    BY <1>7 DEF DeletedBelow
  <2>2. QED BY <1>7, <2>1, FS_EmptySet DEF LoadedBottom
<1>9. /\ Maxes \subseteq {t - 1, t} /\ Maxes \subseteq Nat /\ Maxes # {} /\ Maxes \subseteq Int
  BY <1>4, <1>5 DEF Maxes
<1>10. Min(Maxes) = IF t - 1 \in Maxes THEN t - 1 ELSE t
  <2>1. CASE t - 1 \in Maxes
    BY <1>9, <2>1, MinIs
  <2>2. CASE t - 1 \notin Maxes
    <3>1. Maxes = {t}
      BY <1>9, <2>2
    <3>2. QED BY <1>9, <2>2, <3>1, MinIs
  <2>3. QED BY <2>1, <2>2
<1>11. Max(Maxes) = IF t \in Maxes THEN t ELSE t - 1
  <2>1. CASE t \in Maxes
    BY <1>9, <2>1, MaxIs
  <2>2. CASE t \notin Maxes
    <3>1. Maxes = {t - 1}
      BY <1>9, <2>2
    <3>2. QED BY <1>9, <2>2, <3>1, MaxIs
  <2>3. QED BY <2>1, <2>2
<1>12. Min(Maxes) \in Nat /\ Min(Maxes) \in {t - 1, t}
  BY <1>9, <1>10
<1>13. DeletedAbove = IF t - 1 \in Maxes /\ t \in Maxes THEN {t} ELSE {}
  <2>1. CASE t - 1 \in Maxes /\ t \in Maxes
    <3>1. DeletedAbove = ((t - 1) + 1)..t
      BY <1>10, <1>11, <2>1 DEF DeletedAbove
    <3>2. QED BY <2>1, <3>1
  <2>2. CASE ~(t - 1 \in Maxes /\ t \in Maxes)
    <3>1. Min(Maxes) = Max(Maxes) /\ Min(Maxes) \in Nat
      BY <1>9, <1>10, <1>11, <2>2
    <3>2. DeletedAbove = {}
      BY <3>1 DEF DeletedAbove
    <3>3. QED BY <2>2, <3>2
  <2>3. QED BY <2>1, <2>2
<1>14. BottomLeft = 0
  <2>1. 0 \notin DeletedAbove
    BY <1>9, <1>13
  <2>2. QED BY <1>8, <2>1 DEF BottomLeft
<1>15. \A c \in DeletedAbove : c = t /\ Min(Maxes) = t - 1
  BY <1>10, <1>13
<1>16. ASSUME NEW name \in DOMAIN files
       PROVE  name[2] <= Min(Maxes) \/ name[2] \in DeletedAbove
  <2>1. name[1] \in ChunkTypes /\ name[2] \in ChunksOf(name[1]) /\ name[2] \in Nat /\ name[2] <= t
    BY <1>1, NamesAre DEF DiskFits
  <2>2. CASE Min(Maxes) = t
    BY <2>1, <2>2
  <2>3. CASE Min(Maxes) # t /\ name[2] = t
    <3>1. ChunksOf(name[1]) \in Ranges
      BY <2>1 DEF Ranges
    <3>2. t \in Maxes
      BY <1>4, <2>1, <2>3, <3>1 DEF Maxes
    <3>3. QED BY <1>10, <1>13, <2>3, <3>2
  <2>4. CASE Min(Maxes) # t /\ name[2] # t
    BY <1>12, <2>1, <2>4
  <2>5. QED BY <2>2, <2>3, <2>4
<1>17. ASSUME Min(Maxes) = t - 1 PROVE NumRows(t) = 0
  <2>1. t - 1 \in Maxes
    BY <1>10, <1>17
  <2>2. PICK R \in Ranges : Max(R) = t - 1
    BY <2>1 DEF Maxes
  <2>3. t \notin R
    BY <1>4, <2>2
  <2>4. PICK type \in ChunkTypes : <<type, t>> \notin DOMAIN files
    BY <1>1, <2>3 DEF Ranges
  <2>5. ~(NumRows(t) > 0) /\ NumRows(t) \in Nat
    BY <2>4, ChunksHaveFiles, RowFiles
  <2>6. QED BY <2>5
<1>18. QED BY <1>8, <1>12, <1>14, <1>15, <1>16, <1>17

\* A load finds all rows, and the lines of the last one.
LEMMA RestartStep ==
    ASSUME Inv, Restart
    PROVE  Inv' /\ KeptRows
<1>1. /\ FilesFit /\ RowsFit /\ CountsFit /\ DownFits /\ Idle
      /\ UNCHANGED <<lock, add, adds, del, it, case>> /\ up' = TRUE
      /\ adds \in Nat /\ RowsPerChunk \in Nat /\ RowsPerChunk >= 1 /\ case \in Cases
      /\ bottom = 0 /\ top = 0 /\ count = 0 /\ lastID = 0
      /\ adds <= case.rows + case.adds
  BY ConstantsFit DEF Inv, Restart, DownFits, Idle, CountsFit
<1>2. PICK t \in 0..adds : DiskFits(t)
  BY <1>1 DEF DownFits
<1>3. AddersFit' /\ DeletionFits' /\ ReadersFit' /\ Waiting' = {} /\ Pending' = 0
  <2>1. Idle'
    BY <1>1 DEF Idle
  <2>2. QED BY <2>1, NextIdleKeeps
<1>4. ASSUME top' \in Nat, top' <= adds, count' \in 0..RowsPerChunk, lastID' \in Nat,
             lastID' <= adds, bottom' = 0
      PROVE  CountsFit'
  <2>1. IsFiniteSet(Waiting') /\ Cardinality(Waiting') = 0
    BY <1>3, FS_EmptySet
  <2>6. adds' = adds
    BY <1>1
  <2>2. top' + Cardinality(Waiting') <= adds' /\ lastID' + Cardinality(Waiting') <= adds'
    BY <1>4, <2>1, <2>6
  <2>3. /\ bottom' \in Nat /\ top' \in Nat /\ count' \in 0..RowsPerChunk /\ lastID' \in Nat
        /\ adds' \in Nat /\ case' \in Cases /\ adds' <= case'.rows + case'.adds
    BY <1>1, <1>4
  <2>4. up' \in BOOLEAN
    BY <1>1
  <2>5. QED BY <2>1, <2>2, <2>3, <2>4 DEF CountsFit
<1>5. CASE ChunksOf("rows") = {}
  <2>1. files' = [name \in {} |-> << >>] /\ UNCHANGED <<bottom, top, count, lastID>>
    BY <1>1, <1>5 DEF Restart, fields
  <2>2. FilesFit'
    BY <2>1 DEF FilesFit, IsDirectory
  <2>3. \A c : RowsOf(c)' = << >> /\ NumRows(c)' = 0
    BY <2>1, NoRowsAreRows DEF NumRows, RowsOf, RowsIn
  <2>4. RowsFit'
    BY <2>3 DEF RowsFit
  <2>5. CountsFit'
    BY <1>1, <1>4, <2>1
  <2>6. ChunksFit'
    <3>1. NumRows(top)' = 0
      BY <2>1, NoRowsAreRows DEF NumRows, RowsOf, RowsIn
    <3>2. bottom' = 0 /\ top' = 0 /\ count' - Pending' = 0
      BY <1>1, <1>3, <2>1
    <3>3. DOMAIN files' = {}
      BY <2>1
    <3>4. QED BY <1>1, <2>3, <3>1, <3>2, <3>3 DEF ChunksFit
  <2>7. KeptRows
    <3>1. \A c : <<"rows", c>> \notin DOMAIN files
      BY <1>1, <1>5, NamesAre DEF ChunkTypes
    <3>2. QED BY <2>3, <3>1 DEF KeptRows, RowsOf, RowsIn
  <2>8. QED BY <1>1, <1>3, <2>2, <2>4, <2>5, <2>6, <2>7 DEF Inv
<1>6. CASE ChunksOf("rows") # {}
  <2> PICK m : m = Min(Maxes)
    OBVIOUS
  <2>1. /\ DeletedBelow = {} /\ BottomLeft = 0
        /\ m \in Nat /\ m \in {t - 1, t}
        /\ \A c \in DeletedAbove : c = t /\ m = t - 1
        /\ \A name \in DOMAIN files : name[2] <= m \/ name[2] \in DeletedAbove
        /\ m = t - 1 => NumRows(t) = 0
    BY <1>1, <1>2, <1>6, LoadFinds
  <2> DEFINE kept == Without(files, ChunkNames(DeletedAbove))
  <2>2. /\ files' = Opened(kept, ChunkNames({m}))
        /\ bottom' = 0 /\ top' = m
        /\ count' = LoadedRows(files', m).count /\ lastID' = LoadedRows(files', m).lastID
    <3>1. DeletedBelow \cup DeletedAbove = DeletedAbove
      BY <2>1
    <3>2. QED BY <1>6, <2>1, <3>1 DEF Restart
  <2>3. /\ DOMAIN kept = { name \in DOMAIN files : name[2] \notin DeletedAbove }
        /\ \A name \in DOMAIN kept : kept[name] = files[name]
    BY <1>1, NamesAre DEF Without, ChunkNames
  <2> HIDE DEF kept
  <2>4. /\ DOMAIN files' = DOMAIN kept \cup ChunkNames({m})
        /\ \A name \in DOMAIN kept : files'[name] = files[name]
        /\ \A name \in ChunkNames({m}) : name \notin DOMAIN kept => files'[name] = << >>
    BY <2>2, <2>3 DEF Opened
  <2>5. \A name \in ChunkNames({m}) : name \notin DOMAIN kept => name \notin DOMAIN files
    BY <1>2, <2>1, <2>3 DEF ChunkNames
  <2>6. FilesFit'
    <3>1. DOMAIN files' \subseteq ChunkTypes \X (0..adds)
      BY <1>1, <1>2, <2>1, <2>3, <2>4 DEF FilesFit, IsDirectory, ChunkNames
    <3>2. \A name \in DOMAIN files' : IF name[1] = "rows" THEN IsRows(files'[name])
                                                          ELSE files'[name] \in Seq(LineByte)
      BY <1>1, <2>3, <2>4, NoRowsAreRows, EmptySeq DEF FilesFit, IsDirectory
    <3>3. QED BY <1>1, <3>1, <3>2 DEF FilesFit, IsDirectory
  <2>7. KeptRows
    <3> SUFFICES ASSUME NEW c \in Nat PROVE RowsOf(c)' = RowsOf(c)
      BY DEF KeptRows
    <3>1. CASE c \in DeletedAbove
      <4>1. RowsOf(c) = << >>
        BY <1>1, <2>1, <3>1, RowFiles, NoRowsAreNoBytes DEF NumRows
      <4>2. <<"rows", c>> \notin DOMAIN files'
        BY <1>2, <2>1, <2>3, <2>4, <3>1 DEF ChunkNames
      <4>3. QED BY <4>1, <4>2 DEF RowsOf, RowsIn
    <3>2. CASE c \notin DeletedAbove
      <4>1. <<"rows", c>> \in DOMAIN files => <<"rows", c>> \in DOMAIN kept
        BY <2>3, <3>2
      <4>2. CASE <<"rows", c>> \in DOMAIN files
        BY <2>4, <4>1, <4>2 DEF RowsOf, RowsIn
      <4>3. CASE <<"rows", c>> \notin DOMAIN files
        <5>1. <<"rows", c>> \notin DOMAIN kept
          BY <2>3, <4>3
        <5>2. <<"rows", c>> \in DOMAIN files' => files'[<<"rows", c>>] = << >>
          BY <2>4, <5>1
        <5>3. QED BY <4>3, <5>2 DEF RowsOf, RowsIn
      <4>4. QED BY <4>2, <4>3
    <3>3. QED BY <3>1, <3>2
  <2>8. RowsFit'
    <3> SUFFICES ASSUME NEW c \in Nat, NEW i \in 0..NumRows(c)' - 1
                 PROVE  RowFits(RowIn(RowsOf(c), i), c)'
      BY DEF RowsFit
    <3>1. i \in 0..NumRows(c) - 1 /\ RowsOf(c)' = RowsOf(c) /\ NumRows(c) \in Nat
      BY <1>1, <2>7, NumRowsKept, RowFiles DEF KeptRows
    <3>2. PICK row : row = RowIn(RowsOf(c), i) /\ RowFits(row, c)
      BY <1>1, <3>1 DEF RowsFit
    <3>3. NumRows(c) # 0
      BY <3>1
    <3>4. c \notin DeletedAbove
      BY <2>1, <3>3
    <3>5. RowFits(row, c)'
      BY <1>1, <2>3, <2>4, <3>2, <3>4 DEF RowFits, HasLineOf
    <3>6. QED BY <3>1, <3>2, <3>5
  <2>9. /\ NumRows(m)' = NumRows(m) /\ NumRows(m) \in 0..RowsPerChunk
        /\ \A c \in Nat : c < m => NumRows(c)' = RowsPerChunk
    <3>1. \A c \in Nat : NumRows(c)' = NumRows(c) /\ NumRows(c) \in Nat
      BY <1>1, <2>7, NoRowsLost
    <3>2. \A c \in Nat : c < t => NumRows(c) = RowsPerChunk
      BY <1>2 DEF DiskFits
    <3>3. \A c \in Nat : c < m => c < t
      BY <2>1
    <3>4. NumRows(m) <= RowsPerChunk
      <4>1. CASE m = t
        BY <1>2, <4>1 DEF DiskFits
      <4>2. CASE m # t
        BY <1>1, <2>1, <3>2, <4>2
      <4>3. QED BY <4>1, <4>2
    <3>5. QED BY <1>1, <2>1, <3>1, <3>2, <3>3, <3>4
  <2>10. count' = NumRows(m) /\ lastID' \in Nat /\ lastID' <= adds
    <3> DEFINE bytes == files'[<<"rows", m>>]
               n == getChunkRowCount(bytes)
    <3>1. <<"rows", m>> \in DOMAIN files'
      BY <2>4 DEF ChunkNames, ChunkTypes
    <3>2. bytes = RowsOf(m)'  /\ n = NumRows(m)
      BY <2>9, <3>1 DEF RowsOf, RowsIn, NumRows
    <3>3. CASE n = 0
      <4>1. LoadedRows(files', m) = [count |-> 0, lastID |-> 0]
        BY <3>3 DEF LoadedRows
      <4>2. QED BY <1>1, <2>2, <3>2, <3>3, <4>1
    <3>4. CASE n # 0
      <4>1. n - 1 \in 0..n - 1 /\ n \in Nat
        BY <2>9, <3>2, <3>4
      <4> PICK k \in Nat : k = n - 1
        BY <4>1
      <4> PICK row : row = RowIn(bytes, k)
        OBVIOUS
      <4>2. row \in StoredRow /\ RowFits(row, m)'
        <5>1. k \in 0..NumRows(m)' - 1
          BY <2>9, <3>2, <4>1
        <5>2. RowIn(RowsOf(m)', k) = row
          BY <3>2
        <5>3. RowIn(RowsOf(m)', k) \in StoredRow
          BY <2>1, <2>6, <5>1, NextRowFiles
        <5>4. RowFits(RowIn(RowsOf(m), k), m)'
          BY <2>1, <2>8, <5>1 DEF RowsFit
        <5>5. QED BY <5>2, <5>3, <5>4
      <4>3. /\ HasLine(files'[<<"match", m>>], row.match)
            /\ HasLine(files'[<<"aux", m>>], row.aux)
        <5>1. /\ <<"match", m>> \in DOMAIN files' /\ IsLine(files'[<<"match", m>>], row.match, row.order)
              /\ <<"aux", m>> \in DOMAIN files' /\ IsLine(files'[<<"aux", m>>], row.aux, row.order)
          BY <4>2 DEF RowFits, HasLineOf
        <5>2. files'[<<"match", m>>] \in Seq(LineByte) /\ files'[<<"aux", m>>] \in Seq(LineByte)
          BY <2>6, <5>1 DEF FilesFit, IsDirectory
        <5>3. QED BY <5>1, <5>2, LinesAreRead
      <4>4. LoadedRows(files', m) = [count |-> n, lastID |-> row.id]
        BY <3>4, <4>3 DEF LoadedRows
      <4>5. row.id \in Nat /\ row.id <= adds
        BY <1>1, <4>2 DEF RowFits, StoredRow, Row
      <4>6. QED BY <2>2, <3>2, <4>4, <4>5
    <3>5. QED BY <3>3, <3>4
  <2>11. CountsFit'
    <3>1. m <= adds
      BY <1>1, <1>2, <2>1
    <3>2. QED BY <1>4, <2>1, <2>2, <2>9, <2>10, <3>1
  <2>12. ChunksFit'
    <3>1. bottom' = 0 /\ top' = m /\ Pending' = 0 /\ count' = NumRows(m)
      BY <1>3, <2>2, <2>10
    <3>2. NumRows(top)' = NumRows(m)
      BY <2>9, <3>1 DEF NumRows, RowsOf
    <3>3. \A name \in DOMAIN files' : name[2] <= m
      BY <2>1, <2>3, <2>4 DEF ChunkNames
    <3>4. \A c \in bottom'..top' - 1 : c \in Nat /\ c < m
      BY <2>1, <3>1
    <3>5. \A c \in Nat : ~(c < bottom')
      BY <3>1
    <3>6. bottom' <= top' /\ NumRows(top)' <= count' - Pending' /\ NumRows(top)' = count' - Pending'
      BY <2>1, <2>9, <3>1, <3>2
    <3>7. \A c \in Nat : c < top' => NumRows(c)' <= RowsPerChunk
      BY <1>1, <2>9, <3>1
    <3>8. \A c \in bottom'..top' - 1 : NumRows(c)' = RowsPerChunk
      BY <2>9, <3>4
    <3>9. \A name \in DOMAIN files' : name[2] <= top'
      BY <3>1, <3>3
    <3>10. QED BY <3>1, <3>5, <3>6, <3>7, <3>8, <3>9 DEF ChunksFit
  <2>13. QED BY <1>1, <1>3, <2>6, <2>7, <2>8, <2>11, <2>12 DEF Inv
<1>7. QED BY <1>5, <1>6

-----------------------------------------------------------------------------
(* The files there are at first *)

Used(n) == { c \in 0..n : c * RowsPerChunk < n }
Size(n, c) == Min({RowsPerChunk, n - c * RowsPerChunk})
FirstRow(c, i) ==
    [id |-> c * RowsPerChunk + i, order |-> c * RowsPerChunk + i,
     aux |-> 2 * (i - 1), match |-> 2 * (i - 1)]
BytesFor(row) ==
    [rows |-> RowBytes(row),
     match |-> LineBytes([of |-> row.order, id |-> 0]),
     aux |-> LineBytes([of |-> row.order, id |-> row.id])]

\* The rows there are at first fill their chunks one after the other.
LEMMA SizesAre ==
    ASSUME NEW n \in Nat, NEW c \in Used(n)
    PROVE  /\ Size(n, c) \in 1..RowsPerChunk /\ c \in 0..n
           /\ c * RowsPerChunk \in Nat /\ c * RowsPerChunk + Size(n, c) <= n
           /\ Size(n, c) = IF RowsPerChunk <= n - c * RowsPerChunk THEN RowsPerChunk
                                                                  ELSE n - c * RowsPerChunk
<1>1. RowsPerChunk \in Nat /\ RowsPerChunk >= 1 /\ c \in 0..n
  BY ConstantsFit DEF Used
<1> PICK before \in Nat : before = c * RowsPerChunk
  BY <1>1
<1>2. before < n
  BY DEF Used
<1>3. Size(n, c) = IF RowsPerChunk <= n - before THEN RowsPerChunk ELSE n - before
  <2>1. RowsPerChunk \in Int /\ n - before \in Int /\ Size(n, c) = Min({RowsPerChunk, n - before})
    BY <1>1 DEF Size
  <2>2. QED BY <2>1, MinMaxOfTwo
<1>4. QED BY <1>1, <1>2, <1>3

\* The files there are at first, byte by byte.
LEMMA FilesAdded ==
    ASSUME NEW n \in Nat
    PROVE  /\ DOMAIN RowsAdded(n) = ChunkTypes \X Used(n)
           /\ \A type \in ChunkTypes, c \in Used(n) :
                 RowsAdded(n)[<<type, c>>] =
                    [k \in 1..2 * Size(n, c) |->
                       BytesFor(FirstRow(c, (k + 1) \div 2))[type][2 - (k % 2)]]
<1>1. DOMAIN RowsAdded(n) = ChunkTypes \X Used(n)
  BY DEF RowsAdded, Used, ChunkNames
<1>2. ASSUME NEW type \in ChunkTypes, NEW c \in Used(n)
      PROVE  RowsAdded(n)[<<type, c>>] =
                    [k \in 1..2 * Size(n, c) |->
                       BytesFor(FirstRow(c, (k + 1) \div 2))[type][2 - (k % 2)]]
  <2> DEFINE rows == [i \in 1..Size(n, c) |-> FirstRow(c, i)]
  <2>1. RowsAdded(n)[<<type, c>>] =
           [k \in 1..2 * Len(rows) |-> BytesFor(rows[(k + 1) \div 2])[type][2 - (k % 2)]]
    <3>1. <<type, c>> \in ChunkNames(Used(n)) /\ <<type, c>>[1] = type /\ <<type, c>>[2] = c
      BY DEF ChunkNames
    <3> DEFINE rowsOf(d) == [i \in 1..Size(n, d) |-> FirstRow(d, i)]
               contents(t, d) == [k \in 1..2 * Len(rowsOf(d)) |->
                                    BytesFor(rowsOf(d)[(k + 1) \div 2])[t][2 - (k % 2)]]
    <3>2. RowsAdded(n) = [name \in ChunkNames(Used(n)) |-> contents(name[1], name[2])]
      BY DEF RowsAdded, Used, Size, FirstRow, BytesFor
    <3>3. contents(type, c) =
             [k \in 1..2 * Len(rows) |-> BytesFor(rows[(k + 1) \div 2])[type][2 - (k % 2)]]
      OBVIOUS
    <3> HIDE DEF contents, rows
    <3>4. RowsAdded(n)[<<type, c>>] = contents(type, c)
      BY <3>1, <3>2
    <3>5. QED BY <3>3, <3>4
  <2>2. Size(n, c) \in Nat
    BY SizesAre
  <2>3. Len(rows) = Size(n, c)
    BY <2>2
  <2>4. \A k \in 1..2 * Size(n, c) : (k + 1) \div 2 \in 1..Size(n, c)
    BY <2>2
  <2>5. \A k \in 1..2 * Size(n, c) : rows[(k + 1) \div 2] = FirstRow(c, (k + 1) \div 2)
    BY <2>4
  <2> HIDE DEF rows
  <2>6. QED BY <2>1, <2>3, <2>5
<1>3. QED BY <1>1, <1>2

BytesAreOf(Bytes, c, s, type) ==
    \A i \in 1..s : \A m \in {1, 2} : BytesFor(FirstRow(c, i))[type][m] \in Bytes

\* The files of a chunk in use: whole rows, and the lines of each at its offsets.
AreFirstBytes(bytes, Bytes, c, s, type) ==
    /\ s \in Nat /\ bytes \in Seq(Bytes) /\ Len(bytes) = 2 * s
    /\ \A i \in 0..s - 1 :
          /\ i + 1 \in 1..s
          /\ bytes[2 * i + 1] = BytesFor(FirstRow(c, i + 1))[type][1]
          /\ bytes[2 * i + 2] = BytesFor(FirstRow(c, i + 1))[type][2]
LEMMA BytesAdded ==
    ASSUME NEW n \in Nat, NEW c \in Used(n), NEW type \in ChunkTypes,
           NEW bytes, bytes = RowsAdded(n)[<<type, c>>], NEW s, s = Size(n, c),
           NEW Bytes, BytesAreOf(Bytes, c, s, type)
    PROVE  AreFirstBytes(bytes, Bytes, c, s, type)
<1> DEFINE byte(k) == BytesFor(FirstRow(c, (k + 1) \div 2))[type][2 - (k % 2)]
<1>1. s \in Nat
  BY SizesAre, ConstantsFit
<1>2. bytes = [k \in 1..2 * s |-> byte(k)]
  BY <1>1, FilesAdded
<1>3. bytes \in Seq(Bytes) /\ Len(bytes) = 2 * s
  <2>1. ASSUME NEW k \in 1..2 * s PROVE byte(k) \in Bytes
    <3>1. (k + 1) \div 2 \in 1..s /\ 2 - (k % 2) \in {1, 2}
      BY <1>1
    <3>2. QED BY <3>1 DEF BytesAreOf
  <2> HIDE DEF byte
  <2>2. 2 * s \in Nat
    BY <1>1
  <2>3. QED BY <1>2, <2>1, <2>2
<1> HIDE DEF byte
<1>4. \A k \in 1..2 * s : bytes[k] = byte(k)
  BY <1>2
<1>5. ASSUME NEW i \in 0..s - 1
      PROVE  /\ i + 1 \in 1..s
             /\ bytes[2 * i + 1] = BytesFor(FirstRow(c, i + 1))[type][1]
             /\ bytes[2 * i + 2] = BytesFor(FirstRow(c, i + 1))[type][2]
  <2>1. /\ 2 * i + 1 \in 1..2 * s /\ 2 * i + 2 \in 1..2 * s
        /\ ((2 * i + 1) + 1) \div 2 = i + 1 /\ ((2 * i + 2) + 1) \div 2 = i + 1
        /\ 2 - ((2 * i + 1) % 2) = 1 /\ 2 - ((2 * i + 2) % 2) = 2
    BY <1>1
  <2>2. bytes[2 * i + 1] = byte(2 * i + 1) /\ bytes[2 * i + 2] = byte(2 * i + 2)
    BY <1>4, <2>1
  <2>3. i + 1 \in 1..s
    BY <1>1
  <2>4. QED BY <2>1, <2>2, <2>3 DEF byte
<1>6. QED BY <1>1, <1>3, <1>5 DEF AreFirstBytes

\* The rows there are at first, each with its lines.
LEMMA FirstRowsAre ==
    ASSUME NEW n \in Nat, NEW c \in Used(n), NEW i \in 1..Size(n, c)
    PROVE  /\ FirstRow(c, i) \in StoredRow /\ FirstRow(c, i).id <= n
           /\ FirstRow(c, i).match = 2 * (i - 1) /\ FirstRow(c, i).aux = 2 * (i - 1)
<1>1. i \in Nat /\ i >= 1 /\ i <= Size(n, c) /\ Size(n, c) \in Nat /\ 2 * (i - 1) \in Nat
  BY SizesAre, ConstantsFit
<1> PICK before \in Nat : before = c * RowsPerChunk
  BY SizesAre
<1>2. before + Size(n, c) <= n
  BY SizesAre
<1>3. before + i \in Nat /\ before + i # 0 /\ before + i <= n
  BY <1>1, <1>2
<1>4. QED BY <1>1, <1>3 DEF FirstRow, StoredRow, Row

\* What is written for one row.
LEMMA BytesForFit ==
    ASSUME NEW row \in StoredRow
    PROVE  /\ BytesFor(row)["rows"] = << <<row, 1>>, <<row, 2>> >>
           /\ \A type \in {"match", "aux"} :
                 \E text \in [of : Nat, id : Nat] :
                    /\ BytesFor(row)[type] = LineBytes(text)
                    /\ text.of = row.order
<1>1. BytesFor(row)["rows"] = << <<row, 1>>, <<row, 2>> >>
  BY DEF BytesFor, RowBytes
<1>2. /\ BytesFor(row)["match"] = LineBytes([of |-> row.order, id |-> 0])
      /\ BytesFor(row)["aux"] = LineBytes([of |-> row.order, id |-> row.id])
      /\ row.order \in Nat /\ row.id \in Nat
  BY DEF BytesFor, StoredRow, Row
<1>3. QED BY <1>1, <1>2

\* The files there are at first fit each other.
LEMMA FirstFilesFit ==
    ASSUME adds \in Nat, files = RowsAdded(adds)
    PROVE  /\ FilesFit /\ RowsFit
           /\ \A c \in Used(adds) : NumRows(c) = Size(adds, c)
           /\ \A c \in Nat : c \notin Used(adds) => NumRows(c) = 0
           /\ DOMAIN files = ChunkTypes \X Used(adds)
<1>1. DOMAIN files = ChunkTypes \X Used(adds) /\ Used(adds) \subseteq 0..adds
  BY FilesAdded DEF Used
<1>2. ASSUME NEW c \in Used(adds), NEW s, s = Size(adds, c)
      PROVE  /\ s \in Nat /\ IsRows(files[<<"rows", c>>])
             /\ getChunkRowCount(files[<<"rows", c>>]) = s
             /\ \A i \in 0..s - 1 : RowIn(files[<<"rows", c>>], i) = FirstRow(c, i + 1)
  <2> PICK bytes : bytes = files[<<"rows", c>>]
    OBVIOUS
  <2>1. \A i \in 1..s : /\ FirstRow(c, i) \in StoredRow
                        /\ BytesFor(FirstRow(c, i))["rows"] = << <<FirstRow(c, i), 1>>, <<FirstRow(c, i), 2>> >>
    BY <1>2, FirstRowsAre, BytesForFit
  <2>2. /\ s \in Nat /\ bytes \in Seq(StoredRow \X {1, 2}) /\ Len(bytes) = 2 * s
        /\ \A i \in 0..s - 1 :
              /\ i + 1 \in 1..s
              /\ bytes[2 * i + 1] = BytesFor(FirstRow(c, i + 1))["rows"][1]
              /\ bytes[2 * i + 2] = BytesFor(FirstRow(c, i + 1))["rows"][2]
    <3>1. \A i \in 1..s : \A m \in {1, 2} : BytesFor(FirstRow(c, i))["rows"][m] \in StoredRow \X {1, 2}
      BY <2>1
    <3>2. "rows" \in ChunkTypes /\ bytes = RowsAdded(adds)[<<"rows", c>>]
      BY DEF ChunkTypes
    <3>6. PICK Bytes : Bytes = StoredRow \X {1, 2}
      OBVIOUS
    <3>3. BytesAreOf(Bytes, c, s, "rows")
      BY <3>1, <3>6 DEF BytesAreOf
    <3>4. AreFirstBytes(bytes, Bytes, c, s, "rows")
      BY <1>2, <3>2, <3>3, BytesAdded
    <3>5. QED BY <3>4, <3>6 DEF AreFirstBytes
  <2>3. getChunkRowCount(bytes) = s
    BY <2>2 DEF getChunkRowCount, RowByteSize
  <2>4. \A i \in 0..s - 1 : /\ bytes[2 * i + 1] = <<FirstRow(c, i + 1), 1>>
                            /\ bytes[2 * i + 2] = <<FirstRow(c, i + 1), 2>>
    <3> SUFFICES ASSUME NEW i \in 0..s - 1
                 PROVE  /\ bytes[2 * i + 1] = <<FirstRow(c, i + 1), 1>>
                        /\ bytes[2 * i + 2] = <<FirstRow(c, i + 1), 2>>
      OBVIOUS
    <3> PICK row : row = FirstRow(c, i + 1)
      OBVIOUS
    <3>1. /\ BytesFor(row)["rows"] = << <<row, 1>>, <<row, 2>> >>
          /\ bytes[2 * i + 1] = BytesFor(row)["rows"][1]
          /\ bytes[2 * i + 2] = BytesFor(row)["rows"][2]
      BY <2>1, <2>2
    <3>2. QED BY <3>1
  <2>5. IsRows(bytes)
    <3>1. \A i \in 0..s - 1 : bytes[2 * i + 1][2] = 1 /\ bytes[2 * i + 2] = <<bytes[2 * i + 1][1], 2>>
      BY <2>4
    <3>2. QED BY <2>2, <2>3, <3>1 DEF IsRows
  <2>6. ASSUME NEW i \in 0..s - 1 PROVE RowIn(bytes, i) = FirstRow(c, i + 1)
    <3>1. bytes[2 * i + 1] = <<RowIn(bytes, i), 1>>
      BY <2>3, <2>5, RowsAreRead
    <3>2. QED BY <2>4, <3>1
  <2>7. QED BY <2>2, <2>3, <2>5, <2>6
<1>3. ASSUME NEW c \in Used(adds), NEW s, s = Size(adds, c), NEW type \in {"match", "aux"}
      PROVE  /\ files[<<type, c>>] \in Seq(LineByte)
             /\ \A i \in 0..s - 1 : IsLine(files[<<type, c>>], 2 * i, FirstRow(c, i + 1).order)
  <2> PICK bytes : bytes = files[<<type, c>>]
    OBVIOUS
  <2>1. ASSUME NEW i \in 1..s
        PROVE  LET line == BytesFor(FirstRow(c, i))[type]
               IN /\ line[1] \in LineByte /\ line[2] \in LineByte
                  /\ ~line[1].end /\ line[1].text.of = FirstRow(c, i).order
                  /\ line[2].end /\ line[2].text.of = FirstRow(c, i).order
    <3>1. FirstRow(c, i) \in StoredRow
      BY <1>3, FirstRowsAre
    <3>2. PICK text \in [of : Nat, id : Nat] : /\ BytesFor(FirstRow(c, i))[type] = LineBytes(text)
                                              /\ text.of = FirstRow(c, i).order
      BY <3>1, BytesForFit
    <3>3. QED BY <3>2 DEF LineBytes, LineByte
  <2>2. /\ s \in Nat /\ bytes \in Seq(LineByte) /\ Len(bytes) = 2 * s
        /\ \A i \in 0..s - 1 :
              /\ i + 1 \in 1..s
              /\ bytes[2 * i + 1] = BytesFor(FirstRow(c, i + 1))[type][1]
              /\ bytes[2 * i + 2] = BytesFor(FirstRow(c, i + 1))[type][2]
    <3>1. \A i \in 1..s : \A m \in {1, 2} : BytesFor(FirstRow(c, i))[type][m] \in LineByte
      BY <2>1
    <3>2. type \in ChunkTypes /\ bytes = RowsAdded(adds)[<<type, c>>]
      BY DEF ChunkTypes
    <3> PICK Bytes : Bytes = LineByte
      OBVIOUS
    <3>3. BytesAreOf(Bytes, c, s, type)
      BY <3>1 DEF BytesAreOf
    <3>4. AreFirstBytes(bytes, Bytes, c, s, type)
      BY <1>3, <3>2, <3>3, BytesAdded
    <3>5. QED BY <3>4 DEF AreFirstBytes
  <2>3. ASSUME NEW i \in 0..s - 1 PROVE IsLine(bytes, 2 * i, FirstRow(c, i + 1).order)
    <3>1. i + 1 \in 1..s /\ 2 * i \in Nat /\ 2 * i + 2 <= 2 * s
      BY <2>2
    <3>2. QED BY <2>1, <2>2, <3>1 DEF IsLine
  <2>4. QED BY <2>2, <2>3
<1>4. FilesFit
  <2>1. \A name \in DOMAIN files : IF name[1] = "rows" THEN IsRows(files[name])
                                                       ELSE files[name] \in Seq(LineByte)
    <3> SUFFICES ASSUME NEW type \in ChunkTypes, NEW c \in Used(adds)
                 PROVE  IF type = "rows" THEN IsRows(files[<<type, c>>])
                                         ELSE files[<<type, c>>] \in Seq(LineByte)
      BY <1>1
    <3>1. QED BY <1>2, <1>3 DEF ChunkTypes
  <2>2. QED BY <1>1, <2>1 DEF FilesFit, IsDirectory
<1>5. \A c \in Used(adds) : NumRows(c) = Size(adds, c) /\ RowsOf(c) = files[<<"rows", c>>]
  BY <1>1, <1>2 DEF NumRows, RowsOf, RowsIn, ChunkTypes
<1>6. \A c \in Nat : c \notin Used(adds) => NumRows(c) = 0
  <2>1. \A c \in Nat : c \notin Used(adds) => <<"rows", c>> \notin DOMAIN files
    BY <1>1
  <2>2. QED BY <1>4, <2>1, RowFiles
<1>7. RowsFit
  <2> SUFFICES ASSUME NEW c \in Nat, NEW i \in 0..NumRows(c) - 1
               PROVE  RowFits(RowIn(RowsOf(c), i), c)
    BY DEF RowsFit
  <2>1. c \in Used(adds) /\ i \in 0..Size(adds, c) - 1
    <3>1. NumRows(c) # 0
      OBVIOUS
    <3>2. c \in Used(adds)
      BY <1>6, <3>1
    <3>3. QED BY <1>5, <3>2
  <2>2. i + 1 \in 1..Size(adds, c) /\ (i + 1) - 1 = i
    <3> PICK s \in Nat : s = Size(adds, c)
      BY <1>2, <2>1
    <3>1. i \in 0..s - 1
      BY <2>1
    <3>2. QED BY <3>1
  <2> PICK row : row = FirstRow(c, i + 1)
    OBVIOUS
  <2>3. RowIn(RowsOf(c), i) = row
    BY <1>2, <1>5, <2>1
  <2>4. row \in StoredRow /\ row.id <= adds /\ row.match = 2 * i /\ row.aux = 2 * i
    BY <2>1, <2>2, FirstRowsAre
  <2>5. \A type \in {"match", "aux"} : HasLineOf(type, c, 2 * i, row.order)
    BY <1>1, <1>3, <2>1 DEF HasLineOf, ChunkTypes
  <2>6. QED BY <2>3, <2>4, <2>5 DEF RowFits
<1>8. QED BY <1>1, <1>4, <1>5, <1>6, <1>7

\* The chunks in use are those up to the top, and only that may not be full.
LEMMA FirstChunksFit ==
    ASSUME NEW n \in Nat, NEW t \in Nat,
           t = IF n = 0 THEN 0 ELSE (n - 1) \div RowsPerChunk
    PROVE  /\ t <= n
           /\ n - t * RowsPerChunk \in 0..RowsPerChunk
           /\ n # 0 => Used(n) = 0..t /\ Size(n, t) = n - t * RowsPerChunk
           /\ n = 0 => Used(n) = {}
           /\ \A c \in Nat : c < t => c \in Used(n) /\ Size(n, c) = RowsPerChunk
<1> PICK R \in Nat : R = RowsPerChunk /\ R >= 1
  BY ConstantsFit
<1>1. CASE n = 0
  <2>1. t = 0 /\ 0 * R = 0
    BY <1>1
  <2>2. Used(n) = {}
    <3>1. \A c \in 0..0 : ~(c * R < 0)
      OBVIOUS
    <3>2. QED BY <1>1, <3>1 DEF Used
  <2>3. QED BY <1>1, <2>1, <2>2
<1>2. CASE n # 0
  <2>1. t * R \in Nat /\ t * R <= n - 1 /\ n - 1 < t * R + R
    <3>1. t = (n - 1) \div R /\ n - 1 \in Nat
      BY <1>2
    <3>2. QED BY <3>1
  <2>2. t <= n
    <3>1. t <= t * R
      OBVIOUS
    <3>2. QED BY <2>1, <3>1
  <2>3. \A c \in Nat : c <= t => c * R < n
    <3> SUFFICES ASSUME NEW c \in Nat, c <= t PROVE c * R < n
      OBVIOUS
    <3>1. c * R \in Nat /\ c * R <= t * R
      OBVIOUS
    <3>2. QED BY <2>1, <3>1
  <2>4. \A c \in Nat : c > t => ~(c * R < n)
    <3> SUFFICES ASSUME NEW c \in Nat, c > t PROVE ~(c * R < n)
      OBVIOUS
    <3>1. c * R \in Nat /\ c * R >= t * R + R
      OBVIOUS
    <3>2. QED BY <2>1, <3>1
  <2>5. \A c \in Nat : c < t => n - c * R >= R /\ c * R \in Nat
    <3> SUFFICES ASSUME NEW c \in Nat, c < t PROVE n - c * R >= R /\ c * R \in Nat
      OBVIOUS
    <3>1. c * R \in Nat /\ c * R + R <= t * R
      OBVIOUS
    <3>2. QED BY <2>1, <3>1
  <2>6. Used(n) = 0..t
    <3>1. \A c \in 0..n : c * R < n <=> c \in 0..t
      BY <2>3, <2>4
    <3>2. 0..t \subseteq 0..n
      BY <2>2
    <3>3. QED BY <3>1, <3>2 DEF Used
  <2>7. \A c \in Nat : c <= t =>
           Size(n, c) = IF RowsPerChunk <= n - c * RowsPerChunk THEN RowsPerChunk
                                                                ELSE n - c * RowsPerChunk
    <3> TAKE c \in Nat
    <3> HAVE c <= t
    <3>1. c \in Used(n)
      BY <2>6
    <3>2. QED BY <3>1, SizesAre
  <2>8. ASSUME NEW c \in Nat, c < t PROVE c \in Used(n) /\ Size(n, c) = RowsPerChunk
    <3>1. c \in Used(n) /\ n - c * R >= R
      BY <2>5, <2>6, <2>8
    <3>2. Size(n, c) = IF R <= n - c * R THEN R ELSE n - c * R
      BY <2>7, <2>8
    <3>3. R <= n - c * R
      BY <2>5, <3>1
    <3>4. QED BY <3>1, <3>2, <3>3
  <2>9. n - t * R \in 1..R
    BY <2>1
  <2>10. Size(n, t) = n - t * RowsPerChunk
    <3> PICK m \in 1..R : m = n - t * RowsPerChunk
      BY <2>9
    <3>1. Size(n, t) = IF R <= m THEN R ELSE m
      BY <2>7
    <3>2. QED BY <3>1
  <2>11. QED BY <1>2, <2>2, <2>6, <2>8, <2>9, <2>10
<1>3. QED BY <1>1, <1>2

\* All fits in a first state, with any rows in the files.
LEMMA InitFits == Init => Inv
<1> SUFFICES ASSUME Init PROVE Inv
  OBVIOUS
<1>1. /\ case \in Cases /\ adds \in Nat /\ case.rows = adds /\ case.adds \in Nat
      /\ files = RowsAdded(adds) /\ bottom = 0 /\ up = TRUE
      /\ count = adds - top * RowsPerChunk /\ lastID = adds
      /\ top = IF adds = 0 THEN 0 ELSE (adds - 1) \div RowsPerChunk
      /\ RowsPerChunk \in Nat /\ RowsPerChunk >= 1
  BY ConstantsFit DEF Init
<1>2. /\ FilesFit /\ RowsFit
      /\ \A c \in Used(adds) : NumRows(c) = Size(adds, c)
      /\ \A c \in Nat : c \notin Used(adds) => NumRows(c) = 0
      /\ DOMAIN files = ChunkTypes \X Used(adds)
  BY <1>1, FirstFilesFit
<1>3. top \in Nat
  BY <1>1
<1>4. /\ top <= adds /\ count \in 0..RowsPerChunk
      /\ adds # 0 => Used(adds) = 0..top /\ Size(adds, top) = count
      /\ adds = 0 => Used(adds) = {}
      /\ \A c \in Nat : c < top => c \in Used(adds) /\ Size(adds, c) = RowsPerChunk
  BY <1>1, <1>3, FirstChunksFit
<1>5. AddersFit /\ DeletionFits /\ ReadersFit /\ Waiting = {} /\ Pending = 0
  <2>1. Idle
    BY DEF Init, Idle
  <2>2. QED BY <2>1, IdleKeeps
<1>6. CountsFit
  <2>1. IsFiniteSet(Waiting) /\ Cardinality(Waiting) = 0
    BY <1>5, FS_EmptySet
  <2>2. QED BY <1>1, <1>3, <1>4, <2>1 DEF CountsFit
<1>7. NumRows(top) = count /\ \A c \in Nat : c < top => NumRows(c) = RowsPerChunk
  <2>1. CASE adds = 0
    <3>1. top = 0 /\ count = 0
      BY <1>1, <2>1
    <3>2. QED BY <1>2, <1>4, <2>1, <3>1
  <2>2. CASE adds # 0
    BY <1>2, <1>3, <1>4, <2>2
  <2>3. QED BY <2>1, <2>2
<1>8. ChunksFit
  <2>1. \A name \in DOMAIN files : name[2] <= top
    <3>1. \A name \in DOMAIN files : name[2] \in Used(adds)
      BY <1>2
    <3>2. QED BY <1>3, <1>4, <3>1
  <2>2. \A c \in bottom..top - 1 : c \in Nat /\ c < top
    BY <1>1, <1>3
  <2>3. \A c \in Nat : ~(c < bottom)
    BY <1>1
  <2>4. bottom <= top /\ NumRows(top) <= count - Pending /\ NumRows(top) = count - Pending
    BY <1>1, <1>3, <1>4, <1>5, <1>7
  <2>5. QED BY <1>1, <1>7, <2>1, <2>2, <2>3, <2>4 DEF ChunksFit
<1>9. QED BY <1>1, <1>2, <1>5, <1>6, <1>8 DEF Inv

-----------------------------------------------------------------------------
(* Every step keeps it *)

\* A step that changes nothing keeps the invariant.
LEMMA StutterStep == Inv /\ UNCHANGED vars => Inv'
<1> SUFFICES ASSUME Inv, UNCHANGED vars PROVE Inv'
  OBVIOUS
<1>1. UNCHANGED <<files, up, bottom, top, count, lastID, lock, add, adds, del, it, case>>
  BY DEF vars, fields
<1>2. UNCHANGED <<FilesFit, RowsFit, AddersFit>>
  BY <1>1 DEF FilesFit, IsDirectory, RowsFit, RowFits, HasLineOf, RowsOf, NumRows, RowsIn, AddersFit,
              HolderFits, AddedFile
<1>3. UNCHANGED <<CountsFit, DeletionFits, ReadersFit>>
  BY <1>1 DEF CountsFit, Waiting, DeletionFits, NumRows, RowsOf, RowsIn, ReadersFit, IsReading,
              ReaderFits, Held
<1>4. UNCHANGED <<ChunksFit, DownFits>>
  BY <1>1 DEF ChunksFit, Pending, IsExact, IsEmptied, NumRows, RowsOf, RowsIn, DownFits, DiskFits
<1>5. QED BY <1>1, <1>2, <1>3, <1>4 DEF Inv

\* Every step of every goroutine keeps the invariant, and so do a crash and a load.
LEMMA StepFits == FaultsAreApart /\ Inv /\ [Next]_vars => Inv'
<1> SUFFICES ASSUME FaultsAreApart, Inv, [Next]_vars PROVE Inv'
  OBVIOUS
<1>1. ASSUME NEW a \in Adders, AddNext(a) PROVE Inv'
  BY <1>1, CallAddStep, LockAddStep, OpenChunkFileStep, AppendLineStep, AppendRowStep,
     FailOpenStep, FailWriteStep DEF AddNext
<1>2. ASSUME NEW r \in Readers, IterateNext(r) PROVE Inv'
  BY <1>2, ReadRowStep, ReadMatchStep, StopIterateStep DEF IterateNext
<1>3. ASSUME NEW r \in Readers, NEW call \in IterateCalls, Iterate(r, call) PROVE Inv'
  BY <1>3, IterateStep
<1>4. ASSUME NEW isID \in BOOLEAN, Search(isID) PROVE Inv'
  BY <1>4, SearchStep
<1>5. ASSUME NEW t \in 1..MaxAdds, DeleteChunksOlderThan(t) PROVE Inv'
  BY <1>5, DeleteStep
<1>6. CASE RemoveFile
  BY <1>6, RemoveFileStep
<1>7. CASE Crash
  BY <1>7, CrashStep
<1>8. CASE Restart
  BY <1>8, RestartStep
<1>9. CASE UNCHANGED vars
  BY <1>9, StutterStep
<1>10. QED BY <1>1, <1>2, <1>3, <1>4, <1>5, <1>6, <1>7, <1>8, <1>9 DEF Next

\* In every state of a run the files, the counters and what every goroutine is doing fit
\* each other.
THEOREM StorageFits == ASSUME FaultsAreApart PROVE Spec => []Inv
<1>1. Init => Inv
  BY InitFits
<1>2. Inv /\ [Next]_vars => Inv'
  BY StepFits
<1>3. QED BY <1>1, <1>2, PTL DEF Spec

\* A finite set of numbers has a greatest.
LEMMA GreatestNumber ==
    ASSUME NEW S, IsFiniteSet(S), S # {}, \A n \in S : n \in Int
    PROVE  \E m \in S : \A n \in S : m >= n
<1> DEFINE Bad == { s \in SUBSET S : s # {} /\ ~\E m \in s : \A n \in s : m >= n }
<1> SUFFICES ASSUME Bad # {} PROVE FALSE
  OBVIOUS
<1>1. PICK s \in Bad : \A u \in Bad : ~(u \subseteq s /\ u # s)
  <2> PICK T : T = Bad
    OBVIOUS
  <2>1. T \in SUBSET SUBSET S /\ T # {}
    OBVIOUS
  <2> HIDE DEF Bad
  <2>2. \E t \in T : \A u \in T : ~(u \subseteq t /\ u # t)
    BY <2>1, SmallestSet
  <2>3. QED BY <2>2
<1>2. PICK x \in s : TRUE
  OBVIOUS
<1>3. s \ {x} \notin Bad
  BY <1>1, <1>2
<1>4. s \ {x} # {}
  BY <1>2
<1>5. PICK m \in s \ {x} : \A n \in s \ {x} : m >= n
  BY <1>3, <1>4
<1>6. \E k \in s : \A n \in s : k >= n
  <2>1. x \in Int /\ m \in Int /\ \A n \in s : n \in Int
    BY <1>2, <1>5
  <2>2. CASE x >= m
    BY <1>2, <1>5, <2>1, <2>2
  <2>3. CASE m >= x
    BY <1>2, <1>5, <2>1, <2>3
  <2>4. QED BY <2>1, <2>2, <2>3
<1>7. QED BY <1>6

\* Add is called no more often than the bound of its behaviour says.
LEMMA AddsAreBounded ==
    ASSUME CountsFit
    PROVE  MaxAdds \in Nat /\ adds <= MaxAdds
<1> DEFINE total == [c \in Cases |-> c.rows + c.adds]
           totals == { c.rows + c.adds : c \in Cases }
<1>1. \A c \in Cases : c.rows \in Nat /\ c.adds \in Nat
  BY ConstantsFit
<1>2. total \in Surjection(Cases, totals)
  BY DEF Surjection
<1>3. IsFiniteSet(totals)
  BY <1>2, ConstantsFit, FS_Surjection
<1>4. totals \subseteq Int /\ totals \subseteq Nat /\ case.rows + case.adds \in totals
  BY <1>1 DEF CountsFit
<1>5. PICK m \in totals : \A n \in totals : m >= n
  BY <1>3, <1>4, GreatestNumber
<1>6. Max(totals) = m
  BY <1>4, <1>5, MaxIs
<1>7. case.rows + case.adds <= m /\ m \in Nat
  BY <1>4, <1>5
<1>8. QED BY <1>4, <1>6, <1>7 DEF CountsFit, MaxAdds

\* The files are those of a chunk there has been, and every variable has its type.
THEOREM TypesAreRight == ASSUME FaultsAreApart PROVE Spec => []TypeOK
<1>1. Inv => TypeOK
  <2> SUFFICES ASSUME Inv PROVE TypeOK
    OBVIOUS
  <2>1. FilesFit /\ AddersFit /\ CountsFit /\ DeletionFits /\ ReadersFit
    BY DEF Inv
  <2>2. MaxAdds \in Nat /\ adds \in Nat /\ adds <= MaxAdds /\ lastID <= adds /\ lastID \in Nat
    BY <2>1, AddsAreBounded, BoundsFit DEF CountsFit
  <2>3. DOMAIN files \subseteq ChunkTypes \X (0..MaxAdds) /\ lastID \in 0..MaxAdds
    <3>1. 0..adds \subseteq 0..MaxAdds
      BY <2>2
    <3>2. QED BY <2>1, <2>2, <3>1 DEF FilesFit, IsDirectory
  <2>4. \A a \in Adders : add[a].at \in {"idle", "lock", "open", "write"}
    BY <2>1 DEF AddersFit, Adding
  <2>5. \A r \in Readers : it[r].at \in {"idle", "row", "match", "done", "stopped"}
    BY <2>1 DEF ReadersFit, Iteration
  <2>6. del.at \in {"idle"} \cup ChunkTypes
    BY <2>1 DEF DeletionFits
  <2>7. QED BY <2>1, <2>3, <2>4, <2>5, <2>6 DEF TypeOK, CountsFit, AddersFit
<1>2. QED BY <1>1, StorageFits, PTL

-----------------------------------------------------------------------------
(* What is stored *)

\* Every row in the files is in a chunk from bottom to top.
LEMMA RowsAreReachable ==
    ASSUME Inv
    PROVE  StoredRowsAreReachable
<1> SUFFICES ASSUME up, NEW p \in RowPositions
             PROVE  /\ p[1] >= bottom
                    /\ p[1] < top \/ (p[1] = top /\ p[2] < count)
                    /\ p[2] < RowsPerChunk
  BY DEF StoredRowsAreReachable
<1>1. FilesFit /\ CountsFit /\ ChunksFit
  BY DEF Inv
<1>2. /\ p[1] \in Nat /\ p[2] \in 0..NumRows(p[1]) - 1 /\ <<"rows", p[1]>> \in DOMAIN files
      /\ NumRows(p[1]) \in Nat
  BY <1>1, RowPositionsAre, RowFiles
<1>3. p[1] <= top /\ top \in Nat /\ bottom \in Nat /\ count \in 0..RowsPerChunk
  BY <1>1, <1>2 DEF ChunksFit, CountsFit
<1>4. p[1] >= bottom
  <2>1. CASE p[1] < bottom
    BY <1>1, <1>2, <2>1 DEF ChunksFit
  <2>2. QED BY <1>2, <1>3, <2>1
<1>5. CASE p[1] < top
  <2>1. NumRows(p[1]) <= RowsPerChunk
    BY <1>1, <1>2, <1>5 DEF ChunksFit
  <2>2. QED BY <1>2, <1>4, <1>5, <2>1, ConstantsFit
<1>6. CASE p[1] = top
  <2>1. NumRows(top) <= count - Pending /\ Pending \in {0, 1}
    BY <1>1 DEF ChunksFit, Pending
  <2>2. p[2] < count
    BY <1>2, <1>3, <1>6, <2>1
  <2>3. QED BY <1>2, <1>3, <1>4, <1>6, <2>2, ConstantsFit
<1>7. QED BY <1>2, <1>3, <1>5, <1>6

\* The lines a row points to are its own.
LEMMA LinesBelong ==
    ASSUME Inv
    PROVE  LinesBelongToTheirRow
<1> SUFFICES ASSUME NEW p \in RowPositions, NEW type \in {"match", "aux"}
             PROVE  /\ HasLine(files[<<type, p[1]>>], RowAt(p)[type])
                    /\ \A n \in 1..2 :
                          LineIn(files[<<type, p[1]>>], RowAt(p)[type])[n].text.of = RowAt(p).order
  BY DEF LinesBelongToTheirRow
<1>1. FilesFit /\ RowsFit
  BY DEF Inv
<1>2. /\ p[1] \in Nat /\ p[2] \in 0..NumRows(p[1]) - 1 /\ RowAt(p) = RowIn(RowsOf(p[1]), p[2])
  <2>1. p \in Nat \X Int /\ p[2] \in 0..NumRows(p[1]) - 1
    BY <1>1, RowPositionsAre
  <2>2. RowAt(p) = RowIn(RowsOf(p[1]), p[2])
    BY <1>1, RowPositionsAre
  <2>3. QED BY <2>1, <2>2
<1>3. RowFits(RowAt(p), p[1])
  BY <1>1, <1>2 DEF RowsFit
<1> PICK row : row = RowAt(p)
  OBVIOUS
<1> PICK bytes : bytes = files[<<type, p[1]>>]
  OBVIOUS
<1>4. IsLine(bytes, row[type], row.order) /\ <<type, p[1]>> \in DOMAIN files
  BY <1>3 DEF RowFits, HasLineOf
<1>5. bytes \in Seq(LineByte)
  BY <1>1, <1>4 DEF FilesFit, IsDirectory
<1>6. HasLine(bytes, row[type]) /\ \A n \in 1..2 : LineIn(bytes, row[type])[n].text.of = row.order
  BY <1>4, <1>5, LinesAreRead
<1>7. QED BY <1>6

\* When nothing is being added or deleted, the rows are those of full chunks and of the
\* top one.
LEMMA QuietRowsAre ==
    ASSUME Inv, IsQuiet, IsExact
    PROVE  RowPositions = ((bottom..top - 1) \X (0..RowsPerChunk - 1)) \cup ({top} \X (0..count - 1))
<1>1. /\ FilesFit /\ CountsFit /\ ChunksFit /\ Pending = 0 /\ \A c : ~IsEmptied(c)
  BY DEF Inv, IsQuiet, Pending, IsEmptied
<1>2. /\ top \in Nat /\ bottom \in Nat /\ count \in Nat /\ bottom <= top
      /\ RowsPerChunk \in Nat
  BY <1>1, ConstantsFit DEF CountsFit, ChunksFit
<1>3. NumRows(top) = count /\ \A c \in bottom..top - 1 : NumRows(c) = RowsPerChunk
  BY <1>1, <1>2 DEF ChunksFit
<1>4. \A p \in RowPositions :
        /\ p \in Nat \X Int /\ p[2] \in 0..NumRows(p[1]) - 1
        /\ p[1] >= bottom /\ p[1] <= top
  <2>1. \A p \in RowPositions : p[1] >= bottom /\ (p[1] < top \/ p[1] = top)
    BY RowsAreReachable DEF IsQuiet, StoredRowsAreReachable
  <2>2. \A p \in RowPositions : p \in Nat \X Int /\ p[2] \in 0..NumRows(p[1]) - 1
    BY <1>1, RowPositionsAre
  <2>3. QED BY <1>2, <2>1, <2>2
<1>5. ASSUME NEW p \in RowPositions
      PROVE  p \in ((bottom..top - 1) \X (0..RowsPerChunk - 1)) \cup ({top} \X (0..count - 1))
  <2>1. CASE p[1] = top
    BY <1>3, <1>4, <2>1
  <2>2. CASE p[1] # top
    <3>1. p[1] \in bottom..top - 1
      BY <1>2, <1>4, <2>2
    <3>2. QED BY <1>3, <1>4, <3>1
  <2>3. QED BY <2>1, <2>2
<1>6. ASSUME NEW c \in Nat, NEW i \in 0..NumRows(c) - 1
      PROVE  <<c, i>> \in RowPositions
  <2>1. NumRows(c) # 0
    OBVIOUS
  <2>2. <<"rows", c>> \in DOMAIN files
    BY <1>1, <2>1, RowFiles
  <2>3. <<c, i>> \in Nat \X Int /\ <<c, i>>[1] = c /\ <<c, i>>[2] = i
    OBVIOUS
  <2>4. QED BY <1>1, <2>2, <2>3, RowPositionsAre
<1>7. ASSUME NEW p \in ((bottom..top - 1) \X (0..RowsPerChunk - 1)) \cup ({top} \X (0..count - 1))
      PROVE  p \in RowPositions
  <2>1. CASE p \in (bottom..top - 1) \X (0..RowsPerChunk - 1)
    <3>1. p[1] \in Nat /\ p[1] \in bottom..top - 1 /\ p[2] \in 0..RowsPerChunk - 1 /\ p = <<p[1], p[2]>>
      BY <1>2, <2>1
    <3>2. QED BY <1>3, <1>6, <3>1
  <2>2. CASE p \in {top} \X (0..count - 1)
    <3>1. p[1] = top /\ p[2] \in 0..count - 1 /\ p = <<p[1], p[2]>>
      BY <2>2
    <3>2. QED BY <1>2, <1>3, <1>6, <3>1
  <2>3. QED BY <2>1, <2>2
<1>8. QED BY <1>5, <1>7

\* An interval is finite, and has as many numbers as its ends say.
LEMMA SizeOfInterval ==
    ASSUME NEW m \in Nat, NEW n \in Nat, m <= n
    PROVE  IsFiniteSet(m..n - 1) /\ Cardinality(m..n - 1) = n - m
<1>1. PICK k \in Int : k = n - 1
  OBVIOUS
<1>2. IsFiniteSet(m..k) /\ Cardinality(m..k) = IF m > k THEN 0 ELSE k - m + 1
  BY <1>1, FS_Interval
<1>3. QED BY <1>1, <1>2

\* Between calls totalRowCount counts the rows, where files open and lines are written
\* whole.
LEMMA RowsAreCounted ==
    ASSUME Inv
    PROVE  CountIsExact
<1> SUFFICES ASSUME IsQuiet, IsExact PROVE totalRowCount = Cardinality(RowPositions)
  BY DEF CountIsExact, IsExact
<1>1. /\ top \in Nat /\ bottom \in Nat /\ count \in Nat /\ bottom <= top
      /\ RowsPerChunk \in Nat
  BY ConstantsFit DEF Inv, IsQuiet, CountsFit, ChunksFit
<1> DEFINE full == (bottom..top - 1) \X (0..RowsPerChunk - 1)
           last == {top} \X (0..count - 1)
<1>2. IsFiniteSet(full) /\ Cardinality(full) = (top - bottom) * RowsPerChunk
  <2>1. IsFiniteSet(bottom..top - 1) /\ Cardinality(bottom..top - 1) = top - bottom
    BY <1>1, SizeOfInterval
  <2>2. IsFiniteSet(0..RowsPerChunk - 1) /\ Cardinality(0..RowsPerChunk - 1) = RowsPerChunk
    <3>1. Cardinality(0..RowsPerChunk - 1) = RowsPerChunk - 0 /\ IsFiniteSet(0..RowsPerChunk - 1)
      BY <1>1, SizeOfInterval
    <3>2. QED BY <1>1, <3>1
  <2>3. /\ IsFiniteSet(full)
        /\ Cardinality(full) = Cardinality(bottom..top - 1) * Cardinality(0..RowsPerChunk - 1)
    BY <2>1, <2>2, FS_Product
  <2>4. QED BY <2>1, <2>2, <2>3
<1>3. IsFiniteSet(last) /\ Cardinality(last) = count
  <2>1. IsFiniteSet({top}) /\ Cardinality({top}) = 1
    BY FS_Singleton
  <2>2. IsFiniteSet(0..count - 1) /\ Cardinality(0..count - 1) = count
    <3>1. Cardinality(0..count - 1) = count - 0 /\ IsFiniteSet(0..count - 1)
      BY <1>1, SizeOfInterval
    <3>2. QED BY <1>1, <3>1
  <2>3. /\ IsFiniteSet(last)
        /\ Cardinality(last) = Cardinality({top}) * Cardinality(0..count - 1)
    BY <2>1, <2>2, FS_Product
  <2>4. Cardinality(last) = 1 * count
    BY <2>1, <2>2, <2>3, Zenon
  <2>5. QED BY <1>1, <2>3, <2>4
<1>4. full \cap last = {}
  BY <1>1
<1> HIDE DEF full, last
<1>5. Cardinality(full \cup last) = Cardinality(full) + Cardinality(last) - Cardinality(full \cap last)
  BY <1>2, <1>3, FS_Union
<1>6. (top - bottom) * RowsPerChunk \in Nat
  BY <1>1
<1>7. Cardinality(full \cup last) = (top - bottom) * RowsPerChunk + count
  <2>1. Cardinality(full \cap last) = 0
    BY <1>4, FS_EmptySet
  <2> PICK many \in Nat : many = (top - bottom) * RowsPerChunk
    BY <1>6
  <2>2. QED BY <1>1, <1>2, <1>3, <1>5, <2>1
<1>8. RowPositions = full \cup last
  BY QuietRowsAre DEF full, last
<1>9. totalRowCount = (top - bottom) * RowsPerChunk + count
  <2>1. CASE isEmpty
    <3>1. bottom = top /\ count = 0
      BY <2>1 DEF isEmpty
    <3>2. (top - bottom) * RowsPerChunk = 0
      BY <1>1, <3>1
    <3>3. QED BY <2>1, <3>1, <3>2 DEF totalRowCount
  <2>2. CASE ~isEmpty
    BY <2>2 DEF totalRowCount
  <2>3. QED BY <2>1, <2>2
<1>10. QED BY <1>7, <1>8, <1>9

\* Whatever has failed and after every load, every stored row is where Iterate and
\* BinarySearch look and has its own lines, and the rows are counted.
THEOREM StorageStaysConsistent == ASSUME FaultsAreApart PROVE Spec => []StorageIsConsistent
<1>1. Inv => StorageIsConsistent
  BY RowsAreReachable, LinesBelong, RowsAreCounted DEF StorageIsConsistent
<1>2. QED BY <1>1, StorageFits, PTL

-----------------------------------------------------------------------------
(* Ranks *)

\* The rows of some positions in the order of these.
Sorted(S, row) == [n \in 1..Cardinality(S) |-> row[CHOOSE p \in S : Rank(p, S) = n]]

Earlier(p, S) == { q \in S : IsBefore(q, p) }
Agree(S, row, other) == \A p \in S : row[p] = other[p]
AllBefore(S, T) == \A q \in S, p \in T : IsBefore(q, p)
IsAppended(more, s, x) == more = Append(s, x)

\* Positions have ranks from one to their number, each its own.
LEMMA RanksGrow ==
    ASSUME NEW S \in SUBSET (Nat \X Int), IsFiniteSet(S), NEW p \in S
    PROVE  /\ Cardinality(S) \in Nat
           /\ Rank(p, S) \in 1..Cardinality(S)
           /\ \A q \in S : q # p => Rank(q, S) # Rank(p, S)
<1>1. \A q \in S : q \in Nat \X Int /\ q[1] \in Int /\ q[2] \in Int /\ q = <<q[1], q[2]>>
  OBVIOUS
<1>2. \A q \in S : /\ Earlier(q, S) \subseteq S /\ q \in Earlier(q, S)
                   /\ Rank(q, S) = Cardinality(Earlier(q, S))
  BY <1>1 DEF Earlier, IsBefore, Rank
<1>3. \A q \in S : /\ IsFiniteSet(Earlier(q, S)) /\ Cardinality(Earlier(q, S)) \in Nat
                   /\ Cardinality(Earlier(q, S)) <= Cardinality(S)
  BY <1>2, FS_Subset, FS_CardinalityType
<1>4. ASSUME NEW q \in S, NEW r \in S, q # r, IsBefore(q, r)
      PROVE  Rank(q, S) # Rank(r, S)
  <2>1. Earlier(q, S) \subseteq Earlier(r, S)
    BY <1>1, <1>4 DEF Earlier, IsBefore
  <2>2. r \notin Earlier(q, S)
    BY <1>1, <1>4 DEF Earlier, IsBefore
  <2>3. Cardinality(Earlier(q, S)) < Cardinality(Earlier(r, S))
    <3>1. IsFiniteSet(Earlier(r, S)) /\ Earlier(q, S) # Earlier(r, S)
      BY <1>2, <1>3, <2>2
    <3>2. /\ Cardinality(Earlier(q, S)) \in Nat /\ Cardinality(Earlier(r, S)) \in Nat
      BY <1>3
    <3>3. /\ Cardinality(Earlier(q, S)) <= Cardinality(Earlier(r, S))
          /\ Cardinality(Earlier(q, S)) # Cardinality(Earlier(r, S))
      BY <2>1, <3>1, FS_Subset
    <3>4. QED BY <3>2, <3>3
  <2>4. QED BY <1>2, <1>3, <2>3
<1>5. ASSUME NEW q \in S, q # p PROVE Rank(q, S) # Rank(p, S)
  <2>1. IsBefore(q, p) \/ IsBefore(p, q)
    BY <1>1 DEF IsBefore
  <2>2. QED BY <1>4, <1>5, <2>1
<1>6. Cardinality(S) \in Nat
  BY FS_CardinalityType
<1>7. Rank(p, S) \in 1..Cardinality(S)
  <2>1. Cardinality(Earlier(p, S)) # 0
    BY <1>2, <1>3, FS_EmptySet
  <2>2. QED BY <1>2, <1>3, <1>6, <2>1
<1>8. QED BY <1>5, <1>6, <1>7

\* Every rank is the rank of one position.
LEMMA SortedIs ==
    ASSUME NEW S \in SUBSET (Nat \X Int), IsFiniteSet(S), NEW row
    PROVE  /\ Cardinality(S) \in Nat
           /\ DOMAIN Sorted(S, row) = 1..Cardinality(S)
           /\ \A n \in 1..Cardinality(S) : \E p \in S : Rank(p, S) = n
           /\ \A p \in S : /\ Rank(p, S) \in 1..Cardinality(S)
                           /\ Sorted(S, row)[Rank(p, S)] = row[p]
<1> DEFINE n == Cardinality(S)
           rank == [p \in S |-> Rank(p, S)]
<1>1. n \in Nat /\ IsFiniteSet(1..n) /\ Cardinality(1..n) = n
  <2>1. n \in Nat
    BY FS_CardinalityType
  <2>2. QED BY <2>1, FS_Interval
<1>2. \A p \in S : Rank(p, S) \in 1..n /\ \A q \in S : q # p => Rank(q, S) # Rank(p, S)
  BY RanksGrow
<1>3. rank \in Injection(S, 1..n)
  BY <1>2 DEF Injection, IsInjective
<1>4. rank \in Surjection(S, 1..n)
  BY <1>1, <1>3, FS_Injection
<1>5. \A m \in 1..n : \E p \in S : Rank(p, S) = m
  BY <1>4 DEF Surjection
<1>6. ASSUME NEW p \in S PROVE Sorted(S, row)[Rank(p, S)] = row[p]
  <2> DEFINE q == CHOOSE q \in S : Rank(q, S) = Rank(p, S)
  <2>1. q \in S /\ Rank(q, S) = Rank(p, S)
    OBVIOUS
  <2>2. q = p
    BY <1>2, <2>1
  <2>3. Sorted(S, row)[Rank(p, S)] = row[q]
    BY <1>2 DEF Sorted
  <2>4. QED BY <2>2, <2>3
<1>7. QED BY <1>1, <1>2, <1>5, <1>6 DEF Sorted

\* A position after all others adds its row at the end ...
LEMMA SortedGrows ==
    ASSUME NEW S \in SUBSET (Nat \X Int), IsFiniteSet(S), NEW x \in Nat \X Int, x \notin S,
           AllBefore(S, {x}), NEW row, NEW more, Agree(S, more, row)
    PROVE  IsAppended(Sorted(S \cup {x}, more), Sorted(S, row), more[x])
<1> DEFINE T == S \cup {x}
<1>0. (\A p \in S : IsBefore(p, x)) /\ (\A p \in S : more[p] = row[p])
  BY DEF AllBefore, Agree
<1>1. /\ T \in SUBSET (Nat \X Int) /\ IsFiniteSet(T) /\ Cardinality(T) = Cardinality(S) + 1
      /\ Cardinality(S) \in Nat
  BY FS_AddElement, FS_CardinalityType
<1>2. \A p \in S : ~IsBefore(x, p)
  <2> SUFFICES ASSUME NEW p \in S PROVE ~IsBefore(x, p)
    OBVIOUS
  <2>1. /\ p[1] \in Int /\ p[2] \in Int /\ p = <<p[1], p[2]>> /\ x[1] \in Int /\ x[2] \in Int
        /\ x = <<x[1], x[2]>> /\ p # x /\ IsBefore(p, x)
    BY <1>0
  <2>2. QED BY <2>1 DEF IsBefore
<1>3. \A p \in S : Rank(p, T) = Rank(p, S)
  <2> SUFFICES ASSUME NEW p \in S PROVE { q \in T : IsBefore(q, p) } = { q \in S : IsBefore(q, p) }
    BY DEF Rank
  <2>1. QED BY <1>2
<1>4. Rank(x, T) = Cardinality(S) + 1
  <2>1. IsBefore(x, x)
    BY DEF IsBefore
  <2>2. { q \in T : IsBefore(q, x) } = T
    BY <1>0, <2>1
  <2>3. QED BY <1>1, <2>2 DEF Rank
<1> HIDE DEF T
<1>5. /\ DOMAIN Sorted(S, row) = 1..Cardinality(S)
      /\ \A n \in 1..Cardinality(S) : \E p \in S : Rank(p, S) = n
      /\ \A p \in S : Rank(p, S) \in 1..Cardinality(S) /\ Sorted(S, row)[Rank(p, S)] = row[p]
  BY SortedIs
<1>6. /\ DOMAIN Sorted(T, more) = 1..Cardinality(S) + 1
      /\ \A p \in T : Sorted(T, more)[Rank(p, T)] = more[p]
  BY <1>1, SortedIs
<1>7. \A n \in 1..Cardinality(S) : Sorted(T, more)[n] = Sorted(S, row)[n]
  <2> SUFFICES ASSUME NEW n \in 1..Cardinality(S) PROVE Sorted(T, more)[n] = Sorted(S, row)[n]
    OBVIOUS
  <2>1. PICK p \in S : Rank(p, S) = n
    BY <1>5
  <2>2. p \in T /\ Rank(p, T) = n
    BY <1>3, <2>1 DEF T
  <2>3. QED BY <1>0, <1>5, <1>6, <2>1, <2>2
<1>8. Sorted(T, more)[Cardinality(S) + 1] = more[x]
  <2>1. x \in T
    BY DEF T
  <2>2. QED BY <1>4, <1>6, <2>1
<1> DEFINE s == Sorted(S, row)
           t == Sorted(T, more)
<1>9. /\ s = [n \in 1..Cardinality(S) |-> s[n]]
      /\ t = [n \in 1..Cardinality(S) + 1 |-> t[n]]
  BY <1>1 DEF Sorted
<1> HIDE DEF s, t
<1>10. t = Append(s, more[x])
  <2>1. Len(s) = Cardinality(S)
    BY <1>1, <1>9
  <2>2. Append(s, more[x]) = [n \in 1..Cardinality(S) + 1 |->
                                IF n <= Cardinality(S) THEN s[n] ELSE more[x]]
    BY <1>1, <1>9, <2>1
  <2>3. \A n \in 1..Cardinality(S) + 1 : t[n] = IF n <= Cardinality(S) THEN s[n] ELSE more[x]
    BY <1>1, <1>7, <1>8 DEF s, t
  <2>4. QED BY <1>9, <2>2, <2>3
<1>11. QED BY <1>10 DEF s, t, T, IsAppended

\* ... and positions before all others take theirs away at the beginning.
LEMMA SortedIsCut ==
    ASSUME NEW S \in SUBSET (Nat \X Int), IsFiniteSet(S), NEW T \in SUBSET S,
           AllBefore(S \ T, T), NEW row, NEW less, Agree(T, less, row)
    PROVE  /\ Cardinality(S) \in Nat /\ Cardinality(T) \in Nat
           /\ Cardinality(T) <= Cardinality(S)
           /\ Cardinality(T) = Cardinality(S) => T = S
           /\ Sorted(T, less) =
                 SubSeq(Sorted(S, row), Cardinality(S) - Cardinality(T) + 1, Cardinality(S))
<1>1. /\ IsFiniteSet(T) /\ Cardinality(S) \in Nat /\ Cardinality(T) \in Nat
      /\ Cardinality(T) <= Cardinality(S)
      /\ Cardinality(T) = Cardinality(S) => T = S
  BY FS_Subset, FS_CardinalityType
<1> DEFINE k == Cardinality(S) - Cardinality(T)
<1>2. IsFiniteSet(S \ T) /\ Cardinality(S \ T) = k
  <2>1. S \cap T = T
    OBVIOUS
  <2>2. IsFiniteSet(S \ T) /\ Cardinality(S \ T) = Cardinality(S) - Cardinality(S \cap T)
    BY FS_Difference
  <2>3. QED BY <2>1, <2>2
<1>3. ASSUME NEW p \in T PROVE Rank(p, S) = Rank(p, T) + k
  <2>1. Earlier(p, S) = Earlier(p, T) \cup (S \ T) /\ Earlier(p, T) \cap (S \ T) = {}
    BY DEF Earlier, AllBefore
  <2>2. IsFiniteSet(Earlier(p, T)) /\ Cardinality(Earlier(p, T)) \in Nat
    <3>1. Earlier(p, T) \subseteq T
      BY DEF Earlier
    <3>2. QED BY <1>1, <3>1, FS_Subset, FS_CardinalityType
  <2>3. Cardinality(Earlier(p, T) \cup (S \ T)) =
           Cardinality(Earlier(p, T)) + Cardinality(S \ T) - Cardinality(Earlier(p, T) \cap (S \ T))
    BY <1>2, <2>2, FS_Union
  <2>4. Cardinality(Earlier(p, T) \cap (S \ T)) = 0
    BY <2>1, FS_EmptySet
  <2>5. Rank(p, S) = Cardinality(Earlier(p, S)) /\ Rank(p, T) = Cardinality(Earlier(p, T))
    BY DEF Rank, Earlier
  <2>6. QED BY <1>1, <1>2, <2>1, <2>2, <2>3, <2>4, <2>5
<1>4. \A p \in S : Rank(p, S) \in 1..Cardinality(S) /\ Sorted(S, row)[Rank(p, S)] = row[p]
  BY SortedIs
<1>5. /\ \A n \in 1..Cardinality(T) : \E p \in T : Rank(p, T) = n
      /\ \A p \in T : Rank(p, T) \in 1..Cardinality(T) /\ Sorted(T, less)[Rank(p, T)] = less[p]
  BY <1>1, SortedIs
<1>6. ASSUME NEW n \in 1..Cardinality(T)
      PROVE  n + k \in 1..Cardinality(S) /\ Sorted(T, less)[n] = Sorted(S, row)[n + k]
  <2>1. PICK p \in T : Rank(p, T) = n
    BY <1>5
  <2>2. Rank(p, S) = n + k
    BY <1>3, <2>1
  <2>3. Sorted(S, row)[n + k] = row[p] /\ n + k \in 1..Cardinality(S)
    BY <1>4, <2>2
  <2>4. Sorted(T, less)[n] = less[p]
    BY <1>5, <2>1
  <2>5. QED BY <2>3, <2>4 DEF Agree
<1> DEFINE s == Sorted(S, row)
           t == Sorted(T, less)
<1>7. /\ s = [n \in 1..Cardinality(S) |-> s[n]]
      /\ t = [n \in 1..Cardinality(T) |-> t[n]]
  BY <1>1 DEF Sorted
<1> HIDE DEF s, t
<1>8. t = SubSeq(s, k + 1, Cardinality(S))
  <2> PICK m \in Nat : m = Cardinality(S)
    BY <1>1
  <2> PICK l \in Nat : l = Cardinality(T) /\ l <= m
    BY <1>1
  <2>1. SubSeq(s, (m - l) + 1, m) = [n \in 1..l |-> s[n + (m - l)]]
    <3>1. SubSeq(s, (m - l) + 1, m) = [i \in 1..(1 + m - ((m - l) + 1)) |-> s[i + ((m - l) + 1) - 1]]
      OBVIOUS
    <3>2. 1 + m - ((m - l) + 1) = l /\ \A i \in 1..l : i + ((m - l) + 1) - 1 = i + (m - l)
      OBVIOUS
    <3>3. QED BY <3>1, <3>2
  <2>2. \A n \in 1..l : t[n] = s[n + (m - l)]
    BY <1>6 DEF s, t
  <2>3. QED BY <1>7, <2>1, <2>2
<1>9. QED BY <1>1, <1>8 DEF s, t

-----------------------------------------------------------------------------
(* The log *)

Rows == [p \in RowPositions |-> RowAt(p)]

\* The log is the rows in the order of their positions.
LEMMA StoredIs ==
    Inv => /\ RowPositions \in SUBSET (Nat \X Int) /\ IsFiniteSet(RowPositions)
           /\ Stored = Sorted(RowPositions, Rows)
           /\ Stored \in Seq(Row)
<1> SUFFICES ASSUME Inv
             PROVE  /\ RowPositions \in SUBSET (Nat \X Int) /\ IsFiniteSet(RowPositions)
                    /\ Stored = Sorted(RowPositions, Rows)
                    /\ Stored \in Seq(Row)
  OBVIOUS
<1>1. FilesFit /\ CountsFit /\ top \in Nat /\ count \in 0..RowsPerChunk /\ adds \in Nat
  BY DEF Inv, CountsFit
<1>2. /\ RowPositions \in SUBSET (Nat \X Int)
      /\ \A p \in RowPositions : RowAt(p) \in StoredRow /\ p[2] \in 0..NumRows(p[1]) - 1
      /\ \A p \in RowPositions : <<"rows", p[1]>> \in DOMAIN files
  BY <1>1, RowPositionsAre
<1>3. \A p \in RowPositions : p[1] \in 0..adds /\ p[2] \in 0..RowsPerChunk - 1
  <2>1. \A p \in RowPositions : p[1] \in 0..adds
    BY <1>1, <1>2 DEF FilesFit, IsDirectory
  <2>2. CASE up
    <3>1. \A p \in RowPositions : p[2] < RowsPerChunk
      BY <2>2, RowsAreReachable DEF StoredRowsAreReachable
    <3>2. QED BY <1>1, <1>2, <2>1, <3>1, ConstantsFit, RowFiles
  <2>3. CASE ~up
    <3>1. PICK t \in 0..adds : DiskFits(t)
      BY <2>3 DEF Inv, DownFits
    <3>2. \A p \in RowPositions : p[1] \in Nat /\ NumRows(p[1]) <= RowsPerChunk /\ NumRows(p[1]) \in Nat
      <4> SUFFICES ASSUME NEW p \in RowPositions
                   PROVE  p[1] \in Nat /\ NumRows(p[1]) <= RowsPerChunk /\ NumRows(p[1]) \in Nat
        OBVIOUS
      <4>1. p[1] \in Nat /\ p[1] <= t /\ NumRows(p[1]) \in Nat
        BY <1>1, <1>2, <2>1, <3>1, RowFiles DEF DiskFits
      <4>2. CASE p[1] = t
        BY <3>1, <4>1, <4>2 DEF DiskFits
      <4>3. CASE p[1] # t
        BY <3>1, <4>1, <4>3, ConstantsFit DEF DiskFits
      <4>4. QED BY <4>1, <4>2, <4>3
    <3>3. \A p \in RowPositions : p[2] \in 0..RowsPerChunk - 1
      BY <1>2, <3>2, ConstantsFit
    <3>4. QED BY <2>1, <3>3
  <2>4. QED BY <2>2, <2>3
<1>4. IsFiniteSet(RowPositions)
  <2>1. IsFiniteSet(0..adds) /\ IsFiniteSet(0..RowsPerChunk - 1)
    <3>1. PICK last \in Int : last = RowsPerChunk - 1
      BY ConstantsFit
    <3>2. IsFiniteSet(0..adds) /\ IsFiniteSet(0..last)
      BY <1>1, FS_Interval
    <3>3. QED BY <3>1, <3>2
  <2>2. IsFiniteSet((0..adds) \X (0..RowsPerChunk - 1))
    BY <2>1, FS_Product
  <2>3. RowPositions \subseteq (0..adds) \X (0..RowsPerChunk - 1)
    BY <1>2, <1>3
  <2>4. QED BY <2>2, <2>3, FS_Subset
<1>5. StoredPositions = RowPositions
  <2>1. Garbled.id = 0
    BY DEF Garbled
  <2>2. QED BY <1>2, <2>1 DEF StoredPositions, StoredRow
<1> PICK S : S = RowPositions
  OBVIOUS
<1> PICK row : row = Rows
  OBVIOUS
<1>6. /\ Cardinality(S) \in Nat
      /\ DOMAIN Sorted(S, row) = 1..Cardinality(S)
      /\ \A n \in 1..Cardinality(S) : \E p \in S : Rank(p, S) = n
      /\ \A p \in S : Rank(p, S) \in 1..Cardinality(S) /\ Sorted(S, row)[Rank(p, S)] = row[p]
  BY <1>2, <1>4, SortedIs
<1>7. \A p \in S : row[p] = RowAt(p)
  BY DEF Rows
<1>8. ASSUME NEW n \in 1..Cardinality(S)
      PROVE  (CHOOSE x \in RankedRows(S) : x.rank = n).row = Sorted(S, row)[n]
  <2> DEFINE x == CHOOSE x \in RankedRows(S) : x.rank = n
  <2>1. PICK p \in S : Rank(p, S) = n
    BY <1>6
  <2>2. [rank |-> n, row |-> RowAt(p)] \in RankedRows(S)
    BY <2>1 DEF RankedRows
  <2>3. x \in RankedRows(S) /\ x.rank = n
    BY <2>2
  <2> HIDE DEF x
  <2>4. PICK q \in S : x = [rank |-> Rank(q, S), row |-> RowAt(q)]
    BY <2>3 DEF RankedRows
  <2>5. Sorted(S, row)[n] = row[q]
    BY <1>6, <2>3, <2>4
  <2>6. x.row = Sorted(S, row)[n]
    BY <1>7, <2>4, <2>5
  <2>7. QED BY <2>6 DEF x
<1>9. Stored = Sorted(S, row)
  <2>1. Stored = [n \in 1..Cardinality(S) |-> (CHOOSE x \in RankedRows(S) : x.rank = n).row]
    BY <1>5 DEF Stored
  <2>2. Sorted(S, row) = [n \in 1..Cardinality(S) |-> Sorted(S, row)[n]]
    BY DEF Sorted
  <2>3. QED BY <1>8, <2>1, <2>2, Zenon
<1>10. Sorted(S, row) \in Seq(Row)
  <2>1. \A n \in 1..Cardinality(S) : Sorted(S, row)[n] \in Row
    <3> SUFFICES ASSUME NEW n \in 1..Cardinality(S) PROVE Sorted(S, row)[n] \in Row
      OBVIOUS
    <3>1. PICK p \in S : Rank(p, S) = n
      BY <1>6
    <3>2. Sorted(S, row)[n] = RowAt(p) /\ RowAt(p) \in StoredRow
      BY <1>2, <1>6, <1>7, <3>1
    <3>3. QED BY <3>2 DEF StoredRow
  <2>2. Sorted(S, row) = [n \in 1..Cardinality(S) |-> Sorted(S, row)[n]]
    BY DEF Sorted
  <2> DEFINE s == Sorted(S, row)
  <2> HIDE DEF s
  <2>3. s \in Seq(Row)
    BY <1>6, <2>1, <2>2 DEF s
  <2>4. QED BY <2>3 DEF s
<1>11. QED BY <1>2, <1>4, <1>9, <1>10

\* The same of the state a step ends in.
LEMMA NextStoredIs ==
    Inv' => (/\ RowPositions \in SUBSET (Nat \X Int) /\ IsFiniteSet(RowPositions)
             /\ Stored = Sorted(RowPositions, Rows)
             /\ Stored \in Seq(Row))'
  BY StoredIs, PTL

\* A position is a chunk with a file of rows and an index below their number.
LEMMA PositionsAre ==
    FilesFit => /\ \A p : p \in RowPositions
                             <=> /\ p \in Nat \X Int /\ <<"rows", p[1]>> \in DOMAIN files
                                 /\ p[2] \in 0..NumRows(p[1]) - 1
                /\ \A p \in RowPositions : /\ RowAt(p) = RowIn(RowsOf(p[1]), p[2])
                                           /\ RowAt(p) \in StoredRow
  BY RowPositionsAre

\* The same of the state a step ends in.
LEMMA NextPositionsAre ==
    FilesFit' => (/\ \A p : p \in RowPositions
                               <=> /\ p \in Nat \X Int /\ <<"rows", p[1]>> \in DOMAIN files
                                   /\ p[2] \in 0..NumRows(p[1]) - 1
                  /\ \A p \in RowPositions : /\ RowAt(p) = RowIn(RowsOf(p[1]), p[2])
                                             /\ RowAt(p) \in StoredRow)'
  BY PositionsAre, PTL

\* Files that are created have no rows yet.
LEMMA OpenedKeepsRows ==
    ASSUME NEW names, files' = Opened(files, names)
    PROVE  KeptRows
<1>1. /\ DOMAIN files' = DOMAIN files \cup names
      /\ \A name \in DOMAIN files : files'[name] = files[name]
      /\ \A name \in names : name \notin DOMAIN files => files'[name] = << >>
  BY DEF Opened
<1>2. QED BY <1>1 DEF KeptRows, RowsOf, RowsIn

\* Lines of match and aux data are not rows.
LEMMA LinesKeepRows ==
    ASSUME NEW type \in {"match", "aux"}, NEW c, NEW bytes, files' = [files EXCEPT ![<<type, c>>] = bytes]
    PROVE  KeptRows
<1>1. DOMAIN files' = DOMAIN files /\ \A d : <<"rows", d>> # <<type, c>>
  OBVIOUS
<1>2. \A d : <<"rows", d>> \in DOMAIN files => files'[<<"rows", d>>] = files[<<"rows", d>>]
  BY <1>1
<1>3. QED BY <1>1, <1>2 DEF KeptRows, RowsOf, RowsIn

\* Nothing but an Add that succeeds and a deletion changes the rows of a chunk.
LEMMA RowsStay ==
    ASSUME FaultsAreApart, Inv, [Next]_vars
    PROVE  KeptRows \/ (\E a \in Adders : AppendRow(a)) \/ (RemoveFile /\ del.at = "rows")
<1>1. ASSUME UNCHANGED files PROVE KeptRows
  BY <1>1 DEF KeptRows, RowsOf
<1>2. ASSUME NEW a \in Adders, AddNext(a) PROVE KeptRows \/ AppendRow(a)
  <2>1. CASE CallAdd(a) \/ LockAdd(a) \/ FailOpen(a)
    BY <1>1, <2>1 DEF CallAdd, LockAdd, FailOpen
  <2>2. CASE OpenChunkFile(a)
    BY <2>2, OpenedKeepsRows DEF OpenChunkFile
  <2>3. ASSUME NEW part, files' = [files EXCEPT ![AddedFile(a)] = @ \o part],
               add[a].type \in {"match", "aux"}
        PROVE  KeptRows
    <3> PICK bytes : bytes = files[AddedFile(a)] \o part
      OBVIOUS
    <3>1. files' = [files EXCEPT ![<<add[a].type, top>>] = bytes]
      BY <2>3 DEF AddedFile
    <3>2. QED BY <2>3, <3>1, LinesKeepRows
  <2>4. add[a].type \in ChunkTypes
    BY DEF Inv, AddersFit, Adding
  <2>5. CASE AppendLine(a)
    <3>1. add[a].type \in {"match", "aux"} /\ files' = [files EXCEPT ![AddedFile(a)] = @ \o AddedBytes(a)]
      BY <2>4, <2>5 DEF AppendLine, ChunkTypes
    <3>2. QED BY <2>3, <3>1
  <2>6. CASE FailWrite(a)
    <3>1. add[a].type # "rows"
      BY <2>6 DEF FailWrite, FaultsAreApart, Inv, CountsFit
    <3>2. PICK n \in 0..1 : files' = [files EXCEPT ![AddedFile(a)] = @ \o SubSeq(AddedBytes(a), 1, n)]
      BY <2>6 DEF FailWrite
    <3>3. QED BY <2>3, <2>4, <3>1, <3>2 DEF ChunkTypes
  <2>7. QED BY <1>2, <2>1, <2>2, <2>5, <2>6 DEF AddNext
<1>3. ASSUME NEW r \in Readers, IterateNext(r) PROVE KeptRows
  <2>1. CASE ReadRow(r)
    BY <1>1, <2>1, OpenedKeepsRows DEF ReadRow
  <2>2. CASE ReadMatch(r)
    BY <1>1, <2>2, OpenedKeepsRows DEF ReadMatch
  <2>3. CASE StopIterate(r)
    BY <1>1, <2>3 DEF StopIterate
  <2>4. QED BY <1>3, <2>1, <2>2, <2>3 DEF IterateNext
<1>4. ASSUME NEW r \in Readers, NEW call \in IterateCalls, Iterate(r, call) PROVE KeptRows
  BY <1>1, <1>4 DEF Iterate
<1>5. ASSUME NEW isID \in BOOLEAN, Search(isID) PROVE KeptRows
  BY <1>5, OpenedKeepsRows DEF Search
<1>6. ASSUME NEW t, DeleteChunksOlderThan(t) PROVE KeptRows
  BY <1>6, OpenedKeepsRows DEF DeleteChunksOlderThan
<1>7. CASE RemoveFile /\ del.at # "rows"
  <2>1. del.at \in {"match", "aux"} /\ files' = Without(files, {<<del.at, del.chunk>>})
    BY <1>7 DEF RemoveFile, Inv, DeletionFits, ChunkTypes
  <2>2. \A d : <<"rows", d>> \in DOMAIN files' <=> <<"rows", d>> \in DOMAIN files
    BY <2>1 DEF Without
  <2>3. \A d : <<"rows", d>> \in DOMAIN files' => files'[<<"rows", d>>] = files[<<"rows", d>>]
    BY <2>1 DEF Without
  <2>4. QED BY <2>2, <2>3 DEF KeptRows, RowsOf, RowsIn
<1>8. CASE Crash
  BY <1>1, <1>8 DEF Crash
<1>9. CASE Restart
  BY <1>9, RestartStep
<1>10. CASE UNCHANGED vars
  BY <1>1, <1>10 DEF vars
<1>11. QED BY <1>2, <1>3, <1>4, <1>5, <1>6, <1>7, <1>8, <1>9, <1>10 DEF Next

\* Then the rows are where they were, and the log stays as it is.
LEMMA PositionsStay ==
    ASSUME Inv, Inv', KeptRows
    PROVE  /\ RowPositions' = RowPositions
           /\ \A p \in RowPositions : RowAt(p)' = RowAt(p)
<1>1. FilesFit /\ FilesFit'
  BY DEF Inv
<1>2. /\ \A p : p \in RowPositions
                  <=> /\ p \in Nat \X Int /\ <<"rows", p[1]>> \in DOMAIN files
                      /\ p[2] \in 0..NumRows(p[1]) - 1
      /\ \A p \in RowPositions : RowAt(p) = RowIn(RowsOf(p[1]), p[2])
  BY <1>1, PositionsAre
<1>3. /\ \A p : p \in RowPositions'
                  <=> /\ p \in Nat \X Int /\ <<"rows", p[1]>> \in DOMAIN files'
                      /\ p[2] \in 0..NumRows(p[1])' - 1
      /\ \A p \in RowPositions' : RowAt(p)' = RowIn(RowsOf(p[1])', p[2])
  BY <1>1, NextPositionsAre
<1>4. \A c \in Nat : /\ RowsOf(c)' = RowsOf(c) /\ NumRows(c)' = NumRows(c)
                     /\ \A i \in 0..NumRows(c) - 1 : <<"rows", c>> \in DOMAIN files /\ <<"rows", c>> \in DOMAIN files'
  <2> SUFFICES ASSUME NEW c \in Nat
               PROVE  /\ RowsOf(c)' = RowsOf(c) /\ NumRows(c)' = NumRows(c)
                      /\ \A i \in 0..NumRows(c) - 1 : <<"rows", c>> \in DOMAIN files /\ <<"rows", c>> \in DOMAIN files'
    OBVIOUS
  <2>1. RowsOf(c)' = RowsOf(c) /\ NumRows(c)' = NumRows(c) /\ NumRows(c) \in Nat
    BY <1>1, NumRowsKept, RowFiles DEF KeptRows
  <2>2. NumRows(c) # 0 => <<"rows", c>> \in DOMAIN files /\ <<"rows", c>> \in DOMAIN files'
    BY <1>1, <2>1, RowFiles, NextRowFiles
  <2>3. QED BY <2>1, <2>2
<1>5. \A p : p \in Nat \X Int => p[1] \in Nat
  OBVIOUS
<1>6. \A p : p \in RowPositions' <=> p \in RowPositions
  BY <1>2, <1>3, <1>4, <1>5
<1>7. \A p \in RowPositions : RowAt(p)' = RowAt(p)
  BY <1>2, <1>3, <1>4, <1>5, <1>6
<1>8. RowPositions' = RowPositions
  BY <1>6
<1>9. QED BY <1>7, <1>8

\* The log stays where no row is appended and none removed.
LEMMA LogStays ==
    ASSUME Inv, Inv', KeptRows
    PROVE  Stored' = Stored
<1>1. RowPositions' = RowPositions /\ \A p \in RowPositions : RowAt(p)' = RowAt(p)
  BY PositionsStay
<1>2. Rows' = Rows
  BY <1>1 DEF Rows
<1>3. QED BY <1>1, <1>2, StoredIs, NextStoredIs

\* An Add that succeeds appends its row to the rows of the top chunk.
LEMMA RowIsAdded ==
    ASSUME Inv, NEW a \in Adders, AppendRow(a), NEW t \in Nat, t = top
    PROVE  LET n == NumRows(t)
           IN /\ n \in Nat /\ NumRows(t)' = n + 1
              /\ <<"rows", t>> \in DOMAIN files /\ DOMAIN files' = DOMAIN files
              /\ \A i \in 0..n - 1 : RowIn(RowsOf(t)', i) = RowIn(RowsOf(t), i)
              /\ \A c \in Nat : c # t => RowsOf(c)' = RowsOf(c)
<1>1. /\ FilesFit /\ lock = a /\ HolderFits(a) /\ add[a] \in Adding /\ add[a].type = "rows"
      /\ lastID \in Nat /\ AddedFile(a) \in DOMAIN files
  BY HoldersFit DEF AppendRow, HolderFits
<1> DEFINE row == [id |-> lastID, order |-> add[a].order,
                   aux |-> add[a].pos.aux, match |-> add[a].pos.match]
<1>2. /\ <<"rows", t>> \in DOMAIN files
      /\ files' = [files EXCEPT ![<<"rows", t>>] = @ \o RowBytes(row)]
  BY <1>1 DEF AppendRow, AddedFile, AddedBytes
<1>3. row \in StoredRow
  <2>1. /\ HasLineOf("match", top, row.match, row.order)
        /\ HasLineOf("aux", top, row.aux, row.order)
        /\ lastID >= 1
    BY <1>1 DEF HolderFits
  <2>2. row.match \in Nat /\ row.aux \in Nat /\ row.order \in Nat
    BY <1>1, <2>1 DEF HasLineOf, IsLine, Adding
  <2>3. QED BY <1>1, <2>1, <2>2 DEF StoredRow, Row
<1> PICK new \in StoredRow : new = row
  BY <1>3
<1> HIDE DEF row
<1> DEFINE n == NumRows(t)
<1>4. /\ RowsOf(t)' = RowsOf(t) \o RowBytes(new)
      /\ DOMAIN files' = DOMAIN files
      /\ \A name \in DOMAIN files : name # <<"rows", t>> => files'[name] = files[name]
  BY <1>2 DEF RowsOf, RowsIn
<1>5. /\ getChunkRowCount(RowsOf(t) \o RowBytes(new)) = n + 1
      /\ \A i \in 0..n - 1 : RowIn(RowsOf(t) \o RowBytes(new), i) = RowIn(RowsOf(t), i)
      /\ n \in Nat
  BY <1>1, RowFiles, RowIsAppended DEF NumRows
<1> HIDE DEF n
<1>6. \A c \in Nat : c # t => RowsOf(c)' = RowsOf(c)
  BY <1>4 DEF RowsOf, RowsIn
<1>7. NumRows(t)' = n + 1
  BY <1>4, <1>5 DEF NumRows
<1>8. QED BY <1>2, <1>4, <1>5, <1>6, <1>7 DEF n

\* The log grows at its end by the row an Add appends.
LEMMA LogGrows ==
    ASSUME Inv, Inv', NEW a \in Adders, AppendRow(a)
    PROVE  \E row \in Row : Stored' = Append(Stored, row)
<1>1. FilesFit /\ FilesFit' /\ CountsFit /\ top \in Nat /\ up
  BY DoersAreUp DEF Inv, CountsFit, AppendRow
<1> PICK t \in Nat : t = top
  BY <1>1
<1> PICK n \in Nat : n = NumRows(t)
  BY <1>1, RowFiles
<1>2. /\ NumRows(t)' = n + 1
      /\ <<"rows", t>> \in DOMAIN files /\ DOMAIN files' = DOMAIN files
      /\ \A i \in 0..n - 1 : RowIn(RowsOf(t)', i) = RowIn(RowsOf(t), i)
      /\ \A c \in Nat : c # t => RowsOf(c)' = RowsOf(c)
  BY RowIsAdded
<1>3. \A c \in Nat : c # t => NumRows(c)' = NumRows(c)
  BY <1>2 DEF NumRows
<1>4. /\ \A p : p \in RowPositions
                  <=> /\ p \in Nat \X Int /\ <<"rows", p[1]>> \in DOMAIN files
                      /\ p[2] \in 0..NumRows(p[1]) - 1
      /\ \A p \in RowPositions : RowAt(p) = RowIn(RowsOf(p[1]), p[2])
  BY <1>1, PositionsAre
<1>5. /\ \A p : p \in RowPositions'
                  <=> /\ p \in Nat \X Int /\ <<"rows", p[1]>> \in DOMAIN files'
                      /\ p[2] \in 0..NumRows(p[1])' - 1
      /\ \A p \in RowPositions' : RowAt(p)' = RowIn(RowsOf(p[1])', p[2]) /\ RowAt(p)' \in StoredRow
  BY <1>1, NextPositionsAre
<1> PICK x : x = <<t, n>> /\ x \in Nat \X Int /\ x[1] = t /\ x[2] = n
  <2>1. n \in Int /\ <<t, n>> \in Nat \X Int
    OBVIOUS
  <2>2. QED BY <2>1
<1>6. \A p \in Nat \X Int : p = <<p[1], p[2]>> /\ p[1] \in Nat /\ p[2] \in Int
  OBVIOUS
<1>7. RowPositions' = RowPositions \cup {x}
  <2>1. ASSUME NEW p \in Nat \X Int
        PROVE  p \in RowPositions' <=> p \in RowPositions \/ p = x
    <3>1. CASE p[1] # t
      <4>1. p[1] \in Nat /\ p # x
        BY <1>6, <3>1
      <4>2. NumRows(p[1])' = NumRows(p[1])
        BY <1>3, <3>1, <4>1
      <4>3. QED BY <1>2, <1>4, <1>5, <4>1, <4>2
    <3>2. CASE p[1] = t
      <4>1. p = <<t, p[2]>> /\ p[2] \in Int
        BY <1>6, <3>2
      <4>2. p[2] \in 0..n <=> p[2] \in 0..n - 1 \/ p = x
        BY <4>1
      <4>3. p \in RowPositions' <=> p[2] \in 0..n
        <5>1. NumRows(p[1])' = n + 1 /\ 0..(n + 1) - 1 = 0..n
          BY <1>2, <3>2 DEF NumRows, RowsOf
        <5>2. QED BY <1>2, <1>5, <3>2, <5>1
      <4>4. p \in RowPositions <=> p[2] \in 0..n - 1
        BY <1>2, <1>4, <3>2
      <4>5. QED BY <4>2, <4>3, <4>4
    <3>3. QED BY <3>1, <3>2
  <2>2. RowPositions \subseteq Nat \X Int /\ RowPositions' \subseteq Nat \X Int
    BY <1>4, <1>5
  <2>3. QED BY <2>1, <2>2
<1>8. x \notin RowPositions
  <2>1. NumRows(x[1]) = n /\ x[2] \notin 0..n - 1
    OBVIOUS
  <2>2. QED BY <1>4, <2>1
<1>9. \A p \in RowPositions : IsBefore(p, x)
  <2> SUFFICES ASSUME NEW p \in RowPositions PROVE IsBefore(p, x)
    OBVIOUS
  <2>1. p[1] < t \/ p[1] = t
    BY <1>1, RowsAreReachable DEF StoredRowsAreReachable
  <2>2. p[1] = t => p[2] <= n
    <3>1. p[2] \in 0..NumRows(p[1]) - 1
      BY <1>4
    <3>2. p[1] = t => p[2] \in 0..n - 1
      BY <3>1
    <3>3. QED BY <3>2
  <2>3. QED BY <2>1, <2>2 DEF IsBefore
<1>10. ASSUME NEW p \in RowPositions PROVE Rows'[p] = Rows[p]
  <2>1. RowAt(p)' = RowIn(RowsOf(p[1])', p[2]) /\ RowAt(p) = RowIn(RowsOf(p[1]), p[2])
    BY <1>4, <1>5, <1>7
  <2>2. p[1] \in Nat /\ p[2] \in 0..NumRows(p[1]) - 1
    BY <1>4, <1>6
  <2>3. RowIn(RowsOf(p[1])', p[2]) = RowIn(RowsOf(p[1]), p[2])
    <3>1. CASE p[1] # t
      BY <1>2, <2>2, <3>1
    <3>2. CASE p[1] = t
      <4>1. p[2] \in 0..n - 1
        BY <2>2, <3>2
      <4>2. RowsOf(p[1]) = RowsOf(t) /\ RowsOf(p[1])' = RowsOf(t)'
        BY <3>2 DEF RowsOf
      <4>3. QED BY <1>2, <4>1, <4>2
    <3>3. QED BY <3>1, <3>2
  <2>4. QED BY <1>7, <2>1, <2>3 DEF Rows
<1>11. Rows'[x] \in Row
  <2>1. Rows'[x] = RowAt(x)' /\ RowAt(x)' \in StoredRow
    BY <1>5, <1>7 DEF Rows
  <2>2. QED BY <2>1 DEF StoredRow
<1>12. /\ RowPositions \in SUBSET (Nat \X Int) /\ IsFiniteSet(RowPositions)
       /\ Stored = Sorted(RowPositions, Rows) /\ Stored' = Sorted(RowPositions', Rows')
  BY StoredIs, NextStoredIs
<1> PICK S : S = RowPositions
  OBVIOUS
<1> PICK more : more = Rows'
  OBVIOUS
<1> PICK row : row = Rows
  OBVIOUS
<1>13. IsAppended(Sorted(S \cup {x}, more), Sorted(S, row), more[x])
  <2>1. /\ S \in SUBSET (Nat \X Int) /\ IsFiniteSet(S) /\ x \notin S
        /\ AllBefore(S, {x})
    BY <1>8, <1>9, <1>12 DEF AllBefore
  <2>2. Agree(S, more, row)
    BY <1>10 DEF Agree
  <2>3. QED BY <2>1, <2>2, SortedGrows
<1>14. QED BY <1>7, <1>11, <1>12, <1>13 DEF IsAppended

\* A chunk that is removed is the first one, and its rows are the first of the log.
LEMMA LogIsCut ==
    ASSUME Inv, Inv', RemoveFile, del.at = "rows"
    PROVE  \/ Stored' = Stored
           \/ /\ Len(Stored') < Len(Stored)
              /\ Stored' = SubSeq(Stored, Len(Stored) - Len(Stored') + 1, Len(Stored))
<1>1. /\ FilesFit /\ FilesFit' /\ CountsFit /\ up /\ del.at # "idle" /\ bottom \in Nat
      /\ RowsFit /\ DeletionFits /\ ChunksFit
  BY DoersAreUp DEF Inv, CountsFit, RemoveFile
<1> PICK b \in Nat : b = bottom
  BY <1>1
<1>2. /\ getChunkRowCount(RowsIn(files', b)) = 0
      /\ \A c \in Nat : c # b => RowsOf(c)' = RowsOf(c)
      /\ \A c \in Nat : c # b => (<<"rows", c>> \in DOMAIN files' <=> <<"rows", c>> \in DOMAIN files)
  BY <1>1, RemovalFits DEF ChunkTypes
<1>3. \A c \in Nat : NumRows(c)' = IF c = b THEN 0 ELSE NumRows(c)
  BY <1>2 DEF NumRows, RowsOf
<1>4. /\ \A p : p \in RowPositions
                  <=> /\ p \in Nat \X Int /\ <<"rows", p[1]>> \in DOMAIN files
                      /\ p[2] \in 0..NumRows(p[1]) - 1
      /\ \A p \in RowPositions : RowAt(p) = RowIn(RowsOf(p[1]), p[2])
  BY <1>1, PositionsAre
<1>5. /\ \A p : p \in RowPositions'
                  <=> /\ p \in Nat \X Int /\ <<"rows", p[1]>> \in DOMAIN files'
                      /\ p[2] \in 0..NumRows(p[1])' - 1
      /\ \A p \in RowPositions' : RowAt(p)' = RowIn(RowsOf(p[1])', p[2])
  BY <1>1, NextPositionsAre
<1>6. \A p \in Nat \X Int : p = <<p[1], p[2]>> /\ p[1] \in Nat /\ p[2] \in Int
  OBVIOUS
<1>7. \A p : p \in RowPositions' <=> p \in RowPositions /\ p[1] # b
  <2> SUFFICES ASSUME NEW p \in Nat \X Int
               PROVE  p \in RowPositions' <=> p \in RowPositions /\ p[1] # b
    BY <1>4, <1>5
  <2>1. p[1] \in Nat
    BY <1>6
  <2>2. CASE p[1] = b
    <3>1. p[2] \notin 0..NumRows(p[1])' - 1
      BY <1>3, <2>1, <2>2
    <3>2. QED BY <1>5, <2>2, <3>1
  <2>3. CASE p[1] # b
    BY <1>2, <1>3, <1>4, <1>5, <2>1, <2>3
  <2>4. QED BY <2>2, <2>3
<1>8. ASSUME NEW q \in RowPositions \ RowPositions', NEW p \in RowPositions'
      PROVE  IsBefore(q, p)
  <2>1. q[1] = b /\ p[1] # b /\ p \in RowPositions /\ p[1] \in Nat
    BY <1>4, <1>6, <1>7
  <2>2. p[1] >= b
    BY <1>1, <2>1, RowsAreReachable DEF StoredRowsAreReachable
  <2>3. QED BY <2>1, <2>2 DEF IsBefore
<1>9. ASSUME NEW p \in RowPositions' PROVE Rows'[p] = Rows[p]
  <2>1. p \in RowPositions /\ p[1] # b /\ p[1] \in Nat
    BY <1>4, <1>6, <1>7
  <2>2. RowAt(p)' = RowAt(p)
    BY <1>2, <1>4, <1>5, <2>1
  <2>3. QED BY <2>1, <2>2 DEF Rows
<1>10. /\ RowPositions \in SUBSET (Nat \X Int) /\ IsFiniteSet(RowPositions)
       /\ Stored = Sorted(RowPositions, Rows) /\ Stored' = Sorted(RowPositions', Rows')
  BY StoredIs, NextStoredIs
<1> PICK S : S = RowPositions
  OBVIOUS
<1> PICK T : T = RowPositions'
  OBVIOUS
<1> PICK less : less = Rows'
  OBVIOUS
<1> PICK row : row = Rows
  OBVIOUS
<1>11. T \in SUBSET S
  BY <1>7
<1>12. /\ Cardinality(S) \in Nat /\ Cardinality(T) \in Nat
       /\ Cardinality(T) <= Cardinality(S)
       /\ Cardinality(T) = Cardinality(S) => T = S
       /\ Sorted(T, less) =
             SubSeq(Sorted(S, row), Cardinality(S) - Cardinality(T) + 1, Cardinality(S))
  <2>1. AllBefore(S \ T, T) /\ Agree(T, less, row)
    BY <1>8, <1>9 DEF AllBefore, Agree
  <2>2. QED BY <1>10, <1>11, <2>1, SortedIsCut
<1>13. Len(Sorted(S, row)) = Cardinality(S) /\ Len(Sorted(T, less)) = Cardinality(T)
  BY <1>12 DEF Sorted
<1>14. CASE Cardinality(T) = Cardinality(S)
  <2>1. RowPositions' = RowPositions
    BY <1>12, <1>14
  <2>2. Rows' = Rows
    <3>1. \A p \in RowPositions : RowAt(p)' = RowAt(p)
      BY <1>9, <2>1 DEF Rows
    <3>2. QED BY <2>1, <3>1 DEF Rows
  <2>3. QED BY <1>10, <2>1, <2>2
<1>15. CASE Cardinality(T) # Cardinality(S)
  <2>1. Cardinality(T) < Cardinality(S)
    BY <1>12, <1>15
  <2>2. Stored = Sorted(S, row) /\ Stored' = Sorted(T, less)
    BY <1>10
  <2>3. QED BY <1>12, <1>13, <2>1, <2>2
<1>16. QED BY <1>14, <1>15

\* Whatever chunks and files the rows are in, nothing but Add and DeleteChunksOlderThan
\* changes them: the rows are a log that grows at its end and is cut at its beginning.
THEOREM RowsAreALog == ASSUME FaultsAreApart PROVE Spec => ImplementsRowLog
<1>1. Init => Log!Init
  BY InitFits, StoredIs DEF Log!Init
<1>2. Inv /\ Inv' /\ [Next]_vars => [Log!Next]_Stored
  <2> SUFFICES ASSUME Inv, Inv', [Next]_vars PROVE Log!Next \/ Stored' = Stored
    OBVIOUS
  <2>1. CASE KeptRows
    BY <2>1, LogStays
  <2>2. ASSUME NEW a \in Adders, AppendRow(a) PROVE Log!Next
    <3>1. PICK row \in Row : Stored' = Append(Stored, row)
      BY <2>2, LogGrows
    <3>2. Stored \in Seq(Row)
      BY StoredIs
    <3> PICK s \in Seq(Row) : s = Stored
      BY <3>2
    <3> PICK t : t = Stored'
      OBVIOUS
    <3>3. /\ t = Append(s, row) /\ t \in Seq(Row) /\ Len(t) = Len(s) + 1 /\ Len(s) \in Nat
          /\ \A i \in 1..Len(s) : t[i] = s[i]
          /\ t[Len(s) + 1] = row
      BY <3>1, AppendProperties
    <3>4. t # << >> /\ t[Len(t)] = row
      BY <3>3
    <3>5. SubSeq(t, 1, Len(t) - 1) = s
      <4>1. Len(t) - 1 = Len(s)
        BY <3>3
      <4>2. SubSeq(t, 1, Len(s)) = s
        BY <3>3
      <4>3. QED BY <4>1, <4>2
    <3>6. Log!Add
      BY <3>4, <3>5 DEF Log!Add, Log!Front, Log!Last, Front, Last
    <3>7. QED BY <3>6 DEF Log!Next
  <2>3. CASE RemoveFile /\ del.at = "rows"
    BY <2>3, LogIsCut DEF Log!Next, Log!DeleteOldest
  <2>4. QED BY <2>1, <2>2, <2>3, RowsStay
<1>3. QED BY <1>1, <1>2, StorageFits, PTL DEF Spec, ImplementsRowLog, Log!Spec

-----------------------------------------------------------------------------
(* Iterating *)

Cursor(i) == <<i.chunk, i.index>>
SeenOrders(i) == { i.seen[n].order : n \in 1..Len(i.seen) }
IsAhead(i, p) == IF i.forward THEN IsBefore(Cursor(i), p) ELSE IsBefore(p, Cursor(i))
OrdersAhead(i) == { RowAt(p).order : p \in { q \in RowPositions : IsAhead(i, q) } }

InOrder(i) ==
    \A m, n \in 1..Len(i.seen) : m > n => IsPast(i.forward, i.seen[m].place, i.seen[n].place)
IsFurther(i) == \A n \in 1..Len(i.seen) : IsPast(i.forward, Cursor(i), i.seen[n].place)

\* What is due has been seen or is still ahead, and what has been seen is behind; a file
\* that has been removed is that of a chunk that gets no rows any more.
IsFitting(i) ==
    /\ InOrder(i)
    /\ i.at = "done" => i.due \subseteq SeenOrders(i)
    /\ i.at \in {"row", "match"} =>
          /\ IsFurther(i)
          /\ i.due \subseteq SeenOrders(i) \cup OrdersAhead(i)
          /\ i.rows.state = "unlinked" => i.chunk < top /\ NumRows(i.chunk) = 0
IterationsFit == \A r \in Readers : IsFitting(it[r])

\* A cursor and the positions are pairs of numbers.
LEMMA CursorsAre ==
    ASSUME NEW i \in Iteration
    PROVE  /\ i.chunk \in Nat /\ i.index \in Int /\ i.forward \in BOOLEAN
           /\ Cursor(i) \in Nat \X Int /\ Cursor(i)[1] = i.chunk /\ Cursor(i)[2] = i.index
           /\ i.seen \in Seq(Sight) /\ Len(i.seen) \in Nat
           /\ \A n \in 1..Len(i.seen) : i.seen[n].place \in Nat \X Int
<1>1. /\ i.chunk \in Nat /\ i.index \in Int /\ i.forward \in BOOLEAN /\ i.seen \in Seq(Sight)
  BY DEF Iteration
<1>2. Len(i.seen) \in Nat /\ \A n \in 1..Len(i.seen) : i.seen[n] \in Sight
  BY <1>1
<1>3. QED BY <1>1, <1>2 DEF Cursor, Sight

\* The order of the positions, either way.
LEMMA PastIsOrdered ==
    ASSUME NEW forward \in BOOLEAN, NEW p \in Nat \X Int, NEW q \in Nat \X Int, NEW s \in Nat \X Int,
           IsPast(forward, p, q), IsPast(forward, q, s)
    PROVE  IsPast(forward, p, s)
<1>1. /\ p = <<p[1], p[2]>> /\ p[1] \in Nat /\ p[2] \in Int
      /\ q = <<q[1], q[2]>> /\ q[1] \in Nat /\ q[2] \in Int
      /\ s = <<s[1], s[2]>> /\ s[1] \in Nat /\ s[2] \in Int
  OBVIOUS
<1>2. CASE forward
  BY <1>1, <1>2 DEF IsPast, IsBefore
<1>3. CASE ~forward
  BY <1>1, <1>3 DEF IsPast, IsBefore
<1>4. QED BY <1>2, <1>3

IsInside(p) ==
    /\ p \in Nat \X Int /\ p[1] >= bottom /\ p[2] \in 0..RowsPerChunk - 1
    /\ p[1] < top \/ (p[1] = top /\ p[2] < count)

MovedTo(i, chunk, index) ==
    [i EXCEPT !.at = "row", !.chunk = chunk, !.index = index,
              !.rows = IF chunk = i.chunk THEN @ ELSE NotOpen,
              !.lines = IF chunk = i.chunk THEN @ ELSE NotOpen]
Ended(i) == [i EXCEPT !.at = "done", !.rows = NotOpen, !.lines = NotOpen]

\* The end of the loop's body moves on to the next or the previous position there is.
LEMMA MovesOn ==
    ASSUME CountsFit, NEW i \in Iteration, i.chunk <= top, NEW m, m = Moved(i)
    PROVE  /\ m.seen = i.seen /\ m.due = i.due /\ m.forward = i.forward /\ m.at \in {"row", "done"}
           /\ m.at = "row" => IsPast(i.forward, Cursor(m), Cursor(i))
           /\ \A p : IsInside(p) /\ IsAhead(i, p) /\ p # Cursor(i) => m.at = "row" /\ IsAhead(m, p)
           /\ m.rows.state = "unlinked" => m.rows = i.rows /\ m.chunk = i.chunk
<1>1. /\ i.chunk \in Nat /\ i.index \in Int /\ top \in Nat /\ bottom \in Nat /\ count \in Nat
      /\ RowsPerChunk \in Nat /\ RowsPerChunk >= 1 /\ i.forward \in BOOLEAN
  BY ConstantsFit DEF Iteration, CountsFit
<1> DEFINE Steps(k) == /\ k.seen = i.seen /\ k.due = i.due /\ k.forward = i.forward
                       /\ k.rows.state = "unlinked" => k.rows = i.rows /\ k.chunk = i.chunk
<1>2. ASSUME NEW chunk, NEW index
      PROVE  LET k == MovedTo(i, chunk, index)
             IN Steps(k) /\ k.at = "row" /\ k.chunk = chunk /\ k.index = index
  BY DEF MovedTo, Iteration, NotOpen
<1>3. Steps(Ended(i)) /\ Ended(i).at = "done"
  BY DEF Ended, Iteration, NotOpen
<1> HIDE DEF Steps
<1> DEFINE Ahead(k) == /\ k.at \in {"row", "done"}
                       /\ k.at = "row" => IsPast(i.forward, Cursor(k), Cursor(i))
                       /\ \A p : IsInside(p) /\ IsAhead(i, p) /\ p # Cursor(i) => k.at = "row" /\ IsAhead(k, p)
<1>4. ASSUME i.forward
      PROVE  Steps(m) /\ Ahead(m)
  <2> PICK next \in Int : next = i.index + 1
    BY <1>1
  <2>1. m = CASE i.chunk = top /\ next >= count -> Ended(i)
              [] ~(i.chunk = top /\ next >= count) /\ next < RowsPerChunk -> MovedTo(i, i.chunk, next)
              [] ~(i.chunk = top /\ next >= count) /\ next >= RowsPerChunk ->
                    IF i.chunk + 1 > top THEN Ended(i) ELSE MovedTo(i, i.chunk + 1, 0)
    BY <1>4, Zenon DEF Moved, MovedTo, Ended
  <2>2. \A p : IsInside(p) /\ IsAhead(i, p) /\ p # Cursor(i)
                  <=> IsInside(p) /\ (p[1] > i.chunk \/ (p[1] = i.chunk /\ p[2] >= next))
    BY <1>1, <1>4 DEF IsInside, IsAhead, IsBefore, Cursor
  <2>3. ASSUME NEW chunk \in Nat, NEW index \in Int, m = MovedTo(i, chunk, index),
               chunk > i.chunk \/ (chunk = i.chunk /\ index >= next),
               \A p : IsInside(p) /\ (p[1] > i.chunk \/ (p[1] = i.chunk /\ p[2] >= next))
                         => p[1] > chunk \/ (p[1] = chunk /\ p[2] >= index)
        PROVE  Steps(m) /\ Ahead(m)
    <3>0. Steps(m) /\ m.at = "row" /\ m.chunk = chunk /\ m.index = index
      BY <1>2, <2>3
    <3>1. Steps(m) /\ m.at = "row" /\ m.chunk = chunk /\ m.index = index /\ m.forward
      <4>1. m.forward = i.forward
        BY <3>0, Zenon DEF Steps
      <4>2. QED BY <1>4, <3>0, <4>1, Zenon
    <3>2. IsPast(i.forward, Cursor(m), Cursor(i))
      BY <1>1, <1>4, <2>3, <3>1 DEF IsPast, IsBefore, Cursor
    <3>3. \A p : IsInside(p) /\ IsAhead(i, p) /\ p # Cursor(i) => IsAhead(m, p)
      BY <2>2, <2>3, <3>1 DEF IsAhead, IsBefore, Cursor, IsInside
    <3>4. QED BY <3>1, <3>2, <3>3
  <2>4. ASSUME m = Ended(i),
               \A p : IsInside(p) => ~(p[1] > i.chunk \/ (p[1] = i.chunk /\ p[2] >= next))
        PROVE  Steps(m) /\ Ahead(m)
    BY <1>3, <2>2, <2>4
  <2>5. CASE i.chunk = top /\ next >= count
    <3>1. m = Ended(i)
      BY <2>1, <2>5
    <3>2. \A p : IsInside(p) => ~(p[1] > i.chunk \/ (p[1] = i.chunk /\ p[2] >= next))
      BY <1>1, <2>5 DEF IsInside
    <3>3. QED BY <2>4, <3>1, <3>2
  <2>6. CASE ~(i.chunk = top /\ next >= count) /\ next < RowsPerChunk
    <3>1. m = MovedTo(i, i.chunk, next)
      BY <1>1, <2>1, <2>6
    <3>2. QED BY <1>1, <2>3, <3>1
  <2>7. CASE ~(i.chunk = top /\ next >= count) /\ next >= RowsPerChunk
    <3>1. m = IF i.chunk + 1 > top THEN Ended(i) ELSE MovedTo(i, i.chunk + 1, 0)
      BY <1>1, <2>1, <2>7
    <3>2. \A p : IsInside(p) /\ (p[1] > i.chunk \/ (p[1] = i.chunk /\ p[2] >= next))
                   => p[1] >= i.chunk + 1 /\ p[1] <= top /\ p[1] \in Nat /\ p[2] >= 0
      BY <1>1, <2>7 DEF IsInside
    <3>3. CASE i.chunk + 1 > top
      <4>1. \A p : IsInside(p) => ~(p[1] > i.chunk \/ (p[1] = i.chunk /\ p[2] >= next))
        BY <1>1, <3>2, <3>3
      <4>2. QED BY <2>4, <3>1, <3>3, <4>1
    <3>4. CASE ~(i.chunk + 1 > top)
      <4>1. i.chunk + 1 \in Nat /\ i.chunk + 1 > i.chunk
        BY <1>1
      <4>2. \A p : IsInside(p) /\ (p[1] > i.chunk \/ (p[1] = i.chunk /\ p[2] >= next))
                     => p[1] > i.chunk + 1 \/ (p[1] = i.chunk + 1 /\ p[2] >= 0)
        BY <1>1, <3>2
      <4>3. QED BY <2>3, <3>1, <3>4, <4>1, <4>2
    <3>5. QED BY <3>3, <3>4
  <2>8. QED BY <1>1, <2>5, <2>6, <2>7
<1>5. ASSUME ~i.forward
      PROVE  Steps(m) /\ Ahead(m)
  <2> PICK next \in Int : next = i.index - 1
    BY <1>1
  <2>1. m = CASE next >= 0 -> MovedTo(i, i.chunk, next)
              [] next < 0 -> IF i.chunk - 1 < bottom THEN Ended(i)
                             ELSE MovedTo(i, i.chunk - 1, RowsPerChunk - 1)
    BY <1>5, Zenon DEF Moved, MovedTo, Ended
  <2>2. \A p : IsInside(p) /\ IsAhead(i, p) /\ p # Cursor(i)
                  <=> IsInside(p) /\ (p[1] < i.chunk \/ (p[1] = i.chunk /\ p[2] <= next))
    BY <1>1, <1>5 DEF IsInside, IsAhead, IsBefore, Cursor
  <2>3. ASSUME NEW chunk \in Nat, NEW index \in Int, m = MovedTo(i, chunk, index),
               chunk < i.chunk \/ (chunk = i.chunk /\ index <= next),
               \A p : IsInside(p) /\ (p[1] < i.chunk \/ (p[1] = i.chunk /\ p[2] <= next))
                         => p[1] < chunk \/ (p[1] = chunk /\ p[2] <= index)
        PROVE  Steps(m) /\ Ahead(m)
    <3>1. Steps(m) /\ m.at = "row" /\ m.chunk = chunk /\ m.index = index /\ ~m.forward
      BY <1>2, <1>5, <2>3 DEF Steps
    <3>2. IsPast(i.forward, Cursor(m), Cursor(i))
      BY <1>1, <1>5, <2>3, <3>1 DEF IsPast, IsBefore, Cursor
    <3>3. \A p : IsInside(p) /\ IsAhead(i, p) /\ p # Cursor(i) => IsAhead(m, p)
      BY <2>2, <2>3, <3>1 DEF IsAhead, IsBefore, Cursor, IsInside
    <3>4. QED BY <3>1, <3>2, <3>3
  <2>4. ASSUME m = Ended(i),
               \A p : IsInside(p) => ~(p[1] < i.chunk \/ (p[1] = i.chunk /\ p[2] <= next))
        PROVE  Steps(m) /\ Ahead(m)
    BY <1>3, <2>2, <2>4
  <2>5. CASE next >= 0
    <3>1. m = MovedTo(i, i.chunk, next)
      BY <2>1, <2>5
    <3>2. QED BY <1>1, <2>3, <3>1
  <2>6. CASE next < 0
    <3>1. m = IF i.chunk - 1 < bottom THEN Ended(i) ELSE MovedTo(i, i.chunk - 1, RowsPerChunk - 1)
      BY <2>1, <2>6
    <3>2. \A p : IsInside(p) /\ (p[1] < i.chunk \/ (p[1] = i.chunk /\ p[2] <= next))
                   => p[1] <= i.chunk - 1 /\ p[1] >= bottom /\ p[1] \in Nat /\ p[2] <= RowsPerChunk - 1
      BY <1>1, <2>6 DEF IsInside
    <3>3. CASE i.chunk - 1 < bottom
      <4>1. \A p : IsInside(p) => ~(p[1] < i.chunk \/ (p[1] = i.chunk /\ p[2] <= next))
        BY <1>1, <3>2, <3>3
      <4>2. QED BY <2>4, <3>1, <3>3, <4>1
    <3>4. CASE ~(i.chunk - 1 < bottom)
      <4>1. i.chunk - 1 \in Nat /\ i.chunk - 1 < i.chunk /\ RowsPerChunk - 1 \in Int
        BY <1>1, <3>4
      <4>2. \A p : IsInside(p) /\ (p[1] < i.chunk \/ (p[1] = i.chunk /\ p[2] <= next))
                     => p[1] < i.chunk - 1 \/ (p[1] = i.chunk - 1 /\ p[2] <= RowsPerChunk - 1)
        BY <1>1, <3>2
      <4>3. QED BY <2>3, <3>1, <3>4, <4>1, <4>2
    <3>5. QED BY <3>3, <3>4
  <2>7. QED BY <2>5, <2>6
<1>6. QED BY <1>1, <1>4, <1>5 DEF Steps

-----------------------------------------------------------------------------
(* What an iteration passes *)

\* A row that is seen is seen at the cursor, after those that have been seen before.
LEMMA SeesInOrder ==
    ASSUME NEW i \in Iteration, NEW row \in StoredRow, InOrder(i), IsFurther(i),
           NEW o, o = Saw(i, row)
    PROVE  /\ InOrder(o) /\ SeenOrders(o) = SeenOrders(i) \cup {row.order}
           /\ \A n \in 1..Len(o.seen) :
                 o.seen[n].place = Cursor(o) \/ IsPast(o.forward, Cursor(o), o.seen[n].place)
           /\ o.index = i.index /\ o.forward = i.forward /\ o.due = i.due
<1>1. i.seen \in Seq(Sight) /\ i.chunk \in Nat /\ i.index \in Int /\ row.order \in Nat
  BY DEF Iteration, StoredRow, Row
<1> PICK sight \in Sight : sight = [order |-> row.order, place |-> <<i.chunk, i.index>>]
  BY <1>1 DEF Sight
<1>2. o = [i EXCEPT !.seen = Append(i.seen, sight)]
  BY DEF Saw
<1>3. /\ o.seen = Append(i.seen, sight) /\ o.chunk = i.chunk /\ o.index = i.index
      /\ o.forward = i.forward /\ o.due = i.due
  BY <1>2 DEF Iteration
<1>4. /\ Len(o.seen) = Len(i.seen) + 1 /\ Len(i.seen) \in Nat
      /\ o.seen[Len(i.seen) + 1] = sight
      /\ \A n \in 1..Len(i.seen) : o.seen[n] = i.seen[n]
  BY <1>1, <1>3, AppendProperties
<1>5. sight.place = Cursor(i) /\ sight.place = Cursor(o) /\ sight.order = row.order
  BY <1>3 DEF Cursor
<1>6. \A n \in 1..Len(i.seen) : IsPast(i.forward, Cursor(i), i.seen[n].place)
  BY DEF IsFurther
<1>7. \A n \in 1..Len(o.seen) : n \in 1..Len(i.seen) \/ n = Len(i.seen) + 1
  BY <1>4
<1>8. InOrder(o)
  <2> SUFFICES ASSUME NEW m \in 1..Len(o.seen), NEW n \in 1..Len(o.seen), m > n
               PROVE  IsPast(o.forward, o.seen[m].place, o.seen[n].place)
    BY DEF InOrder
  <2>1. n \in 1..Len(i.seen) /\ o.seen[n] = i.seen[n]
    BY <1>4, <1>7
  <2>2. CASE m \in 1..Len(i.seen)
    BY <1>3, <1>4, <2>1, <2>2 DEF InOrder
  <2>3. CASE m = Len(i.seen) + 1
    BY <1>3, <1>4, <1>5, <1>6, <2>1, <2>3
  <2>4. QED BY <1>7, <2>2, <2>3
<1>9. SeenOrders(o) = SeenOrders(i) \cup {row.order}
  <2>1. SeenOrders(o) \subseteq SeenOrders(i) \cup {row.order}
    BY <1>4, <1>5, <1>7 DEF SeenOrders
  <2>2. SeenOrders(i) \subseteq SeenOrders(o)
    BY <1>4 DEF SeenOrders
  <2>3. Len(i.seen) + 1 \in 1..Len(o.seen)
    BY <1>4
  <2>4. row.order \in SeenOrders(o)
    BY <1>4, <1>5, <2>3 DEF SeenOrders
  <2>5. QED BY <2>1, <2>2, <2>4
<1>10. \A n \in 1..Len(o.seen) :
          o.seen[n].place = Cursor(o) \/ IsPast(o.forward, Cursor(o), o.seen[n].place)
  BY <1>3, <1>4, <1>5, <1>6, <1>7
<1>11. QED BY <1>3, <1>8, <1>9, <1>10

\* What is due at the cursor has been seen, and the reader moves on.
LEMMA PassesOn ==
    ASSUME Inv, up, NEW o \in Iteration, o.chunk <= top, InOrder(o),
           \A n \in 1..Len(o.seen) :
              o.seen[n].place = Cursor(o) \/ IsPast(o.forward, Cursor(o), o.seen[n].place),
           o.due \subseteq SeenOrders(o) \cup OrdersAhead(o),
           Cursor(o) \in RowPositions => RowAt(Cursor(o)).order \in SeenOrders(o),
           o.rows.state = "unlinked" => o.chunk < top /\ NumRows(o.chunk) = 0,
           NEW m \in Iteration, m = Moved(o)
    PROVE  IsFitting(m)
<1>1. CountsFit /\ FilesFit
  BY DEF Inv
<1>2. /\ m.seen = o.seen /\ m.due = o.due /\ m.forward = o.forward /\ m.at \in {"row", "done"}
      /\ m.at = "row" => IsPast(o.forward, Cursor(m), Cursor(o))
      /\ \A p : IsInside(p) /\ IsAhead(o, p) /\ p # Cursor(o) => m.at = "row" /\ IsAhead(m, p)
      /\ m.rows.state = "unlinked" => m.rows = o.rows /\ m.chunk = o.chunk
  BY <1>1, MovesOn
<1>3. InOrder(m) /\ SeenOrders(m) = SeenOrders(o)
  BY <1>2 DEF InOrder, SeenOrders
<1>4. \A p \in RowPositions : IsInside(p)
  <2>1. \A p \in RowPositions : p \in Nat \X Int /\ p[2] \in 0..NumRows(p[1]) - 1
    BY <1>1, PositionsAre
  <2>2. \A p \in RowPositions : /\ p[1] >= bottom
                                /\ p[1] < top \/ (p[1] = top /\ p[2] < count)
                                /\ p[2] < RowsPerChunk
    BY RowsAreReachable DEF StoredRowsAreReachable
  <2>3. QED BY <2>1, <2>2, ConstantsFit DEF IsInside
<1>5. ASSUME NEW n \in m.due, n \notin SeenOrders(m)
      PROVE  m.at = "row" /\ n \in OrdersAhead(m)
  <2>1. n \in OrdersAhead(o)
    BY <1>2, <1>3, <1>5
  <2>2. PICK p \in RowPositions : IsAhead(o, p) /\ n = RowAt(p).order
    BY <2>1 DEF OrdersAhead
  <2>3. p # Cursor(o)
    BY <1>3, <1>5, <2>2
  <2>4. m.at = "row" /\ IsAhead(m, p)
    BY <1>2, <1>4, <2>2, <2>3
  <2>5. QED BY <2>2, <2>4 DEF OrdersAhead
<1>6. m.at = "row" => IsFurther(m)
  <2> SUFFICES ASSUME m.at = "row", NEW n \in 1..Len(m.seen)
               PROVE  IsPast(m.forward, Cursor(m), m.seen[n].place)
    BY DEF IsFurther
  <2>1. n \in 1..Len(o.seen) /\ m.seen[n] = o.seen[n] /\ IsPast(o.forward, Cursor(m), Cursor(o))
    BY <1>2
  <2>2. CASE o.seen[n].place = Cursor(o)
    BY <1>2, <2>1, <2>2
  <2>3. CASE IsPast(o.forward, Cursor(o), o.seen[n].place)
    <3>1. /\ o.forward \in BOOLEAN /\ Cursor(m) \in Nat \X Int /\ Cursor(o) \in Nat \X Int
          /\ o.seen[n].place \in Nat \X Int
      BY <2>1, CursorsAre
    <3> PICK p \in Nat \X Int : p = Cursor(m)
      BY <3>1
    <3> PICK q \in Nat \X Int : q = Cursor(o)
      BY <3>1
    <3> PICK s \in Nat \X Int : s = o.seen[n].place
      BY <3>1
    <3>2. IsPast(o.forward, p, s)
      BY <2>1, <2>3, <3>1, PastIsOrdered
    <3>3. QED BY <1>2, <2>1, <3>2
  <2>4. QED BY <2>1, <2>2, <2>3
<1>7. m.rows.state = "unlinked" => m.chunk < top /\ NumRows(m.chunk) = 0
  BY <1>2
<1>8. m.at = "done" => m.due \subseteq SeenOrders(m)
  BY <1>5
<1>9. m.at = "row" => m.due \subseteq SeenOrders(m) \cup OrdersAhead(m)
  BY <1>5
<1>10. QED BY <1>2, <1>3, <1>6, <1>7, <1>8, <1>9 DEF IsFitting

\* A step that leaves a reader where it is, and every row that is due to it.
LEMMA FittingStays ==
    ASSUME NEW i, NEW j, IsFitting(i),
           /\ j.at = i.at /\ j.chunk = i.chunk /\ j.index = i.index /\ j.forward = i.forward
           /\ j.seen = i.seen /\ j.due \subseteq i.due,
           \A p \in RowPositions : RowAt(p).order \in j.due => p \in RowPositions' /\ RowAt(p)' = RowAt(p),
           j.at \in {"row", "match"} /\ j.rows.state = "unlinked" =>
              j.chunk < top' /\ NumRows(j.chunk)' = 0
    PROVE  IsFitting(j)'
<1>1. /\ InOrder(j) /\ SeenOrders(j) = SeenOrders(i) /\ Cursor(j) = Cursor(i)
      /\ IsFurther(i) => IsFurther(j)
  BY DEF IsFitting, InOrder, SeenOrders, IsFurther, Cursor
<1>2. \A p : IsAhead(i, p) => IsAhead(j, p)
  BY <1>1 DEF IsAhead
<1>3. \A n \in j.due : n \in OrdersAhead(i) => n \in OrdersAhead(j)'
  <2> SUFFICES ASSUME NEW n \in j.due, n \in OrdersAhead(i) PROVE n \in OrdersAhead(j)'
    OBVIOUS
  <2>1. PICK p \in RowPositions : IsAhead(i, p) /\ n = RowAt(p).order
    BY DEF OrdersAhead
  <2>2. p \in RowPositions' /\ RowAt(p)' = RowAt(p) /\ IsAhead(j, p)
    BY <1>2, <2>1
  <2>3. OrdersAhead(j)' = { RowAt(q)'.order : q \in { u \in RowPositions' : IsAhead(j, u) } }
    BY DEF OrdersAhead, IsAhead, Cursor, IsBefore
  <2>4. QED BY <2>1, <2>2, <2>3
<1>4. j.at = "done" => j.due \subseteq SeenOrders(j)
  BY <1>1 DEF IsFitting
<1>5. j.at \in {"row", "match"} => IsFurther(j) /\ j.due \subseteq SeenOrders(j) \cup OrdersAhead(j)'
  BY <1>1, <1>3 DEF IsFitting
<1>6. QED BY <1>1, <1>4, <1>5 DEF IsFitting, InOrder, SeenOrders, IsFurther, Cursor

-----------------------------------------------------------------------------
(* Iterations stay complete *)

\* Steps of others, that keep the rows.
LEMMA OthersFit ==
    ASSUME Inv, Inv', up, NEW s \in Readers, IsFitting(it[s]), it'[s] = it[s], KeptRows,
           top' \in Nat, top' >= top
    PROVE  IsFitting(it[s])'
<1>1. /\ RowPositions' = RowPositions /\ \A p \in RowPositions : RowAt(p)' = RowAt(p)
      /\ it[s] \in Iteration /\ top \in Nat
  BY PositionsStay DEF Inv, ReadersFit, CountsFit
<1> PICK i \in Iteration : i = it[s]
  BY <1>1
<1>2. i.chunk \in Nat /\ IsFitting(i)
  BY DEF Iteration
<1>3. i.at \in {"row", "match"} /\ i.rows.state = "unlinked" => i.chunk < top' /\ NumRows(i.chunk)' = 0
  <2>1. i.at \in {"row", "match"} /\ i.rows.state = "unlinked" => i.chunk < top /\ NumRows(i.chunk) = 0
    BY <1>2 DEF IsFitting
  <2>2. NumRows(i.chunk)' = NumRows(i.chunk)
    BY <1>2, NumRowsKept
  <2>3. QED BY <1>1, <1>2, <2>1, <2>2
<1>4. IsFitting(i)'
  BY <1>1, <1>2, <1>3, FittingStays
<1>5. it'[s] = i
  OBVIOUS
<1>6. QED BY <1>4, <1>5 DEF IsFitting, InOrder, SeenOrders, IsFurther, Cursor, OrdersAhead, IsAhead

\* What fits as an iteration fits as that of its reader, in the state a step ends in.
LEMMA NextFitting ==
    ASSUME NEW s, NEW i, it'[s] = i, IsFitting(i)'
    PROVE  IsFitting(it[s])'
  BY DEF IsFitting, InOrder, SeenOrders, IsFurther, Cursor, OrdersAhead, IsAhead

\* Steps of one reader.
LEMMA ReaderStepFits ==
    ASSUME Inv, Inv', up, IterationsFit, KeptRows, UNCHANGED top,
           NEW r \in Readers, NEW m \in Iteration, it' = [it EXCEPT ![r] = m], IsFitting(m)
    PROVE  IterationsFit'
<1>1. /\ RowPositions' = RowPositions /\ \A p \in RowPositions : RowAt(p)' = RowAt(p)
      /\ it \in [Readers -> Iteration] /\ top \in Nat /\ top' \in Nat /\ top' >= top
  BY PositionsStay DEF Inv, ReadersFit, CountsFit
<1> SUFFICES ASSUME NEW s \in Readers PROVE IsFitting(it[s])'
  BY DEF IterationsFit
<1>2. CASE s # r
  <2>1. it'[s] = it[s] /\ IsFitting(it[s])
    BY <1>1, <1>2 DEF IterationsFit
  <2>2. QED BY <1>1, <2>1, OthersFit
<1>3. CASE s = r
  <2>1. it'[s] = m
    BY <1>1, <1>3
  <2>2. m.at \in {"row", "match"} /\ m.rows.state = "unlinked" => m.chunk < top' /\ NumRows(m.chunk)' = 0
    <3>1. m.chunk \in Nat
      BY DEF Iteration
    <3>2. NumRows(m.chunk)' = NumRows(m.chunk)
      BY <3>1, NumRowsKept
    <3>3. QED BY <3>2 DEF IsFitting
  <2>3. IsFitting(m)'
    BY <1>1, <2>2, FittingStays
  <2>4. QED BY <2>1, <2>3, NextFitting
<1>4. QED BY <1>2, <1>3

\* A new iteration has all its rows ahead.
LEMMA IterateFits ==
    ASSUME Inv, Inv', IterationsFit, NEW r \in Readers, NEW call \in IterateCalls, Iterate(r, call)
    PROVE  IterationsFit'
<1>1. /\ CountsFit /\ ChunksFit /\ bottom <= top /\ up /\ UNCHANGED <<files, top>>
      /\ it \in [Readers -> Iteration] /\ it' \in [Readers -> Iteration]
  BY DEF Inv, Iterate, fields, ChunksFit, ReadersFit
<1>2. KeptRows
  BY <1>1 DEF KeptRows, RowsOf
<1>3. PICK start \in Start(call) :
          it' = [it EXCEPT ![r] =
                   [NotIterating EXCEPT
                      !.at = "row", !.chunk = start[1], !.index = start[2],
                      !.forward = call.forward, !.match = call.match,
                      !.due = { RowAt(p).order : p \in { q \in RowPositions :
                                  IF call.forward THEN IsBefore(start, q)
                                                  ELSE IsBefore(q, start) } }]]
  BY DEF Iterate
<1>4. start \in Nat \X Int
  BY <1>1, StartFits
<1>5. PICK m \in Iteration : m = it'[r]
  BY <1>1
<1>6. /\ m.at = "row" /\ m.chunk = start[1] /\ m.index = start[2] /\ m.forward = call.forward
      /\ m.seen = << >> /\ m.rows = NotOpen
      /\ m.due = { RowAt(p).order : p \in { q \in RowPositions :
                     IF call.forward THEN IsBefore(start, q) ELSE IsBefore(q, start) } }
  BY <1>1, <1>3, <1>5 DEF NotIterating
<1>7. it' = [it EXCEPT ![r] = m]
  BY <1>1, <1>3, <1>5
<1>8. Cursor(m) = start
  BY <1>4, <1>6 DEF Cursor
<1>9. m.due = OrdersAhead(m)
  BY <1>6, <1>8 DEF OrdersAhead, IsAhead
<1>10. IsFitting(m)
  BY <1>6, <1>9 DEF IsFitting, InOrder, IsFurther, NotOpen
<1>11. QED BY <1>1, <1>2, <1>7, <1>10, ReaderStepFits

\* An iteration that is stopped owes no rows.
LEMMA StopIterateFits ==
    ASSUME Inv, Inv', IterationsFit, NEW r \in Readers, StopIterate(r)
    PROVE  IterationsFit'
<1>1. /\ up /\ UNCHANGED <<files, top>>
      /\ it \in [Readers -> Iteration] /\ it' \in [Readers -> Iteration]
  BY DoersAreUp DEF Inv, StopIterate, fields, ReadersFit
<1>2. KeptRows
  BY <1>1 DEF KeptRows, RowsOf
<1>3. PICK m \in Iteration : m = it'[r]
  BY <1>1
<1>4. it' = [it EXCEPT ![r] = m]
  BY <1>1, <1>3 DEF StopIterate
<1>5. m.at = "stopped" /\ m.forward = it[r].forward /\ m.seen = it[r].seen
  BY <1>1, <1>3 DEF StopIterate, Iteration
<1>6. IsFitting(m)
  BY <1>5 DEF IterationsFit, IsFitting, InOrder
<1>7. QED BY <1>1, <1>2, <1>4, <1>6, ReaderStepFits

\* A row that is in the directory is read at its place, whether the reader has just opened
\* the file or not.
LEMMA ReadsWhatIsThere ==
    ASSUME Inv, NEW i \in Iteration, IsFitting(i), i.at \in {"row", "match"},
           NEW bytes, i.rows.state # "unlinked" => bytes = RowsOf(i.chunk),
           Cursor(i) \in RowPositions
    PROVE  HasRow(bytes, i.index) /\ RowIn(bytes, i.index) = RowAt(Cursor(i))
<1>1. FilesFit /\ i.chunk \in Nat /\ i.index \in Int
  BY DEF Inv, Iteration
<1>2. Cursor(i)[1] = i.chunk /\ Cursor(i)[2] = i.index
  BY DEF Cursor
<1>3. i.index \in 0..NumRows(i.chunk) - 1 /\ RowAt(Cursor(i)) = RowIn(RowsOf(i.chunk), i.index)
  BY <1>1, <1>2, PositionsAre
<1>4. NumRows(i.chunk) # 0 /\ i.rows.state # "unlinked"
  BY <1>1, <1>3 DEF IsFitting
<1>5. HasRow(RowsOf(i.chunk), i.index)
  BY <1>1, <1>3, RowFiles
<1>6. QED BY <1>3, <1>4, <1>5

\* A reader that has read its row moves on; a place where there is none is passed over.
LEMMA MovingFits ==
    ASSUME Inv, up, NEW i \in Iteration, IsFitting(i), i.at \in {"row", "match"}, i.chunk <= top,
           NEW bytes, i.rows.state # "unlinked" => bytes = RowsOf(i.chunk),
           HasRow(bytes, i.index) => RowIn(bytes, i.index) \in StoredRow,
           NEW opened \in Iteration,
           /\ opened.chunk = i.chunk /\ opened.index = i.index /\ opened.forward = i.forward
           /\ opened.seen = i.seen /\ opened.due = i.due
           /\ opened.rows = i.rows \/ opened.rows = Live,
           NEW m \in Iteration,
           \/ ~HasRow(bytes, i.index) /\ m = Moved(opened)
           \/ HasRow(bytes, i.index) /\ m = Moved(Saw(opened, RowIn(bytes, i.index)))
    PROVE  IsFitting(m)
<1>1. Cursor(i) \in RowPositions => HasRow(bytes, i.index) /\ RowIn(bytes, i.index) = RowAt(Cursor(i))
  BY ReadsWhatIsThere
<1>2. /\ Cursor(opened) = Cursor(i) /\ InOrder(opened) /\ IsFurther(opened)
      /\ SeenOrders(opened) = SeenOrders(i)
      /\ opened.due \subseteq SeenOrders(opened) \cup OrdersAhead(opened)
      /\ opened.rows.state = "unlinked" => opened.chunk < top /\ NumRows(opened.chunk) = 0
  BY DEF IsFitting, InOrder, IsFurther, SeenOrders, Cursor, OrdersAhead, IsAhead, Live
<1>3. CASE ~HasRow(bytes, i.index)
  <2>1. m = Moved(opened)
    BY <1>3
  <2>2. \A n \in 1..Len(opened.seen) :
           opened.seen[n].place = Cursor(opened) \/ IsPast(opened.forward, Cursor(opened), opened.seen[n].place)
    BY <1>2 DEF IsFurther
  <2>3. Cursor(opened) \notin RowPositions
    BY <1>1, <1>2, <1>3
  <2>4. QED BY <1>2, <2>1, <2>2, <2>3, PassesOn
<1>4. CASE HasRow(bytes, i.index)
  <2> PICK row \in StoredRow : row = RowIn(bytes, i.index)
    BY <1>4
  <2> PICK o : o = Saw(opened, row)
    OBVIOUS
  <2>1. m = Moved(o)
    BY <1>4
  <2>2. /\ o \in Iteration /\ o.chunk = opened.chunk /\ o.rows = opened.rows
    BY SeenFits
  <2>3. /\ InOrder(o) /\ SeenOrders(o) = SeenOrders(opened) \cup {row.order}
        /\ \A n \in 1..Len(o.seen) :
              o.seen[n].place = Cursor(o) \/ IsPast(o.forward, Cursor(o), o.seen[n].place)
        /\ o.index = opened.index /\ o.forward = opened.forward /\ o.due = opened.due
    BY <1>2, SeesInOrder
  <2>4. Cursor(o) = Cursor(i) /\ OrdersAhead(o) = OrdersAhead(opened)
    BY <1>2, <2>2, <2>3 DEF Cursor, OrdersAhead, IsAhead
  <2>5. Cursor(o) \in RowPositions => RowAt(Cursor(o)).order \in SeenOrders(o)
    BY <1>1, <2>3, <2>4
  <2>6. o.due \subseteq SeenOrders(o) \cup OrdersAhead(o)
    BY <1>2, <2>3, <2>4
  <2>7. o.rows.state = "unlinked" => o.chunk < top /\ NumRows(o.chunk) = 0
    BY <1>2, <2>2
  <2>8. o.chunk <= top
    BY <2>2
  <2>9. QED BY <2>1, <2>2, <2>3, <2>5, <2>6, <2>7, <2>8, PassesOn
<1>5. QED BY <1>3, <1>4

\* A reader that stays where it is.
LEMMA StayingFits ==
    ASSUME NEW i, IsFitting(i), i.at \in {"row", "match"}, NEW m,
           /\ m.at \in {"row", "match"} /\ m.chunk = i.chunk /\ m.index = i.index
           /\ m.forward = i.forward /\ m.seen = i.seen /\ m.due = i.due
           /\ m.rows = i.rows \/ m.rows = Live
    PROVE  IsFitting(m)
  BY DEF IsFitting, InOrder, IsFurther, SeenOrders, Cursor, OrdersAhead, IsAhead, Live

\* The row at the cursor is handed out, or waits for its line.
LEMMA ReadRowFits ==
    ASSUME FaultsAreApart, Inv, Inv', IterationsFit, NEW r \in Readers, ReadRow(r)
    PROVE  IterationsFit'
<1>1. /\ FilesFit /\ RowsFit /\ CountsFit /\ up /\ UNCHANGED <<top, adds>>
      /\ it[r].at = "row" /\ ReaderFits(r)
      /\ it \in [Readers -> Iteration] /\ it' \in [Readers -> Iteration] /\ it[r] \in Iteration
  BY DoersAreUp DEF Inv, ReadRow, fields, ReadersFit, IsReading
<1> PICK i \in Iteration : i = it[r]
  BY <1>1
<1> PICK m \in Iteration : m = it'[r]
  BY <1>1
<1>2. PICK c \in 0..top : c = i.chunk
  BY <1>1 DEF ReaderFits, Iteration, CountsFit
<1> DEFINE opened == [i EXCEPT !.rows = IF @ = NotOpen THEN Live ELSE @]
           bytes == IF i.rows.state = "unlinked" THEN i.rows.bytes ELSE files'[<<"rows", c>>]
           next == CASE ~HasRow(bytes, i.index) -> Moved(opened)
                     [] HasRow(bytes, i.index) /\ i.match -> [opened EXCEPT !.at = "match"]
                     [] HasRow(bytes, i.index) /\ ~i.match -> Moved(Saw(opened, RowIn(bytes, i.index)))
<1>3. /\ files' = IF i.rows = NotOpen THEN Opened(files, {<<"rows", c>>}) ELSE files
      /\ it' = [it EXCEPT ![r] = next]
  BY <1>2 DEF ReadRow
<1>4. m = next /\ it' = [it EXCEPT ![r] = m]
  BY <1>1, <1>3
<1>5. /\ FilesFit' /\ KeptRows /\ DOMAIN files \subseteq DOMAIN files'
      /\ i.rows = NotOpen => <<"rows", c>> \in DOMAIN files'
  BY <1>1, <1>3, ReaderOpens DEF ChunkTypes
<1>6. i.rows \in {NotOpen, Live} \/ (i.rows.state = "unlinked" /\ IsRows(i.rows.bytes))
  BY DEF Iteration, Handle
<1>7. i.rows.state # "unlinked" => <<"rows", c>> \in DOMAIN files' /\ bytes = RowsOf(c)
  <2>1. ASSUME i.rows.state # "unlinked" PROVE <<"rows", c>> \in DOMAIN files'
    BY <1>1, <1>2, <1>5, <1>6, <2>1 DEF ReaderFits, NotOpen, Live
  <2>2. <<"rows", c>> \in DOMAIN files' => RowsOf(c)' = files'[<<"rows", c>>]
    BY DEF RowsOf, RowsIn
  <2>3. c \in Nat /\ RowsOf(c)' = RowsOf(c)
    BY <1>5 DEF KeptRows
  <2>4. QED BY <2>1, <2>2, <2>3
<1>8. /\ opened \in Iteration /\ opened.chunk = i.chunk /\ opened.index = i.index
      /\ opened.forward = i.forward /\ opened.seen = i.seen /\ opened.due = i.due
      /\ opened.rows = i.rows \/ opened.rows = Live
      /\ opened.at = i.at
  <2>1. PICK rows \in Handle({ b \in Seq(StoredRow \X {1, 2}) : IsRows(b) }) :
           rows = IF i.rows = NotOpen THEN Live ELSE i.rows
    BY DEF Iteration, Handle
  <2>2. opened = [i EXCEPT !.rows = rows]
    BY <2>1
  <2>3. QED BY <2>1, <2>2 DEF Iteration
<1> HIDE DEF opened
<1>9. IsRows(bytes)
  <2>1. CASE i.rows.state = "unlinked"
    BY <1>6, <2>1 DEF NotOpen, Live
  <2>2. CASE i.rows.state # "unlinked"
    BY <1>1, <1>7, <2>2, RowFiles
  <2>3. QED BY <2>1, <2>2
<1> HIDE DEF bytes
<1>10. HasRow(bytes, i.index) => RowIn(bytes, i.index) \in StoredRow
  BY <1>9, RowsAreRead DEF Iteration
<1>11. IsFitting(i) /\ i.at \in {"row", "match"} /\ i.chunk <= top
  BY <1>1, <1>2 DEF IterationsFit, CountsFit
<1>12. IsFitting(m)
  <2>1. CASE HasRow(bytes, i.index) /\ i.match
    <3>1. m = [opened EXCEPT !.at = "match"]
      BY <1>4, <2>1
    <3>2. /\ m.at = "match" /\ m.chunk = i.chunk /\ m.index = i.index
          /\ m.forward = i.forward /\ m.seen = i.seen /\ m.due = i.due
          /\ m.rows = i.rows \/ m.rows = Live
      BY <1>8, <3>1 DEF Iteration
    <3>3. QED BY <1>11, <3>2, StayingFits
  <2>2. CASE ~(HasRow(bytes, i.index) /\ i.match)
    <3>1. \/ ~HasRow(bytes, i.index) /\ m = Moved(opened)
          \/ HasRow(bytes, i.index) /\ m = Moved(Saw(opened, RowIn(bytes, i.index)))
      BY <1>4, <2>2
    <3>2. i.rows.state # "unlinked" => bytes = RowsOf(i.chunk)
      BY <1>2, <1>7
    <3>3. QED BY <1>1, <1>8, <1>10, <1>11, <3>1, <3>2, MovingFits
  <2>3. QED BY <2>1, <2>2
<1>13. QED BY <1>1, <1>4, <1>5, <1>12, ReaderStepFits

\* The row whose line was read is handed out.
LEMMA ReadMatchFits ==
    ASSUME FaultsAreApart, Inv, Inv', IterationsFit, NEW r \in Readers, ReadMatch(r)
    PROVE  IterationsFit'
<1>1. /\ FilesFit /\ RowsFit /\ CountsFit /\ up /\ UNCHANGED <<top, adds>>
      /\ it[r].at = "match" /\ ReaderFits(r)
      /\ it \in [Readers -> Iteration] /\ it' \in [Readers -> Iteration] /\ it[r] \in Iteration
  BY DoersAreUp DEF Inv, ReadMatch, fields, ReadersFit, IsReading
<1> PICK i \in Iteration : i = it[r]
  BY <1>1
<1> PICK m \in Iteration : m = it'[r]
  BY <1>1
<1>2. PICK c \in 0..top : c = i.chunk
  BY <1>1 DEF ReaderFits, Iteration, CountsFit
<1> DEFINE opened == [i EXCEPT !.lines = IF @ = NotOpen THEN Live ELSE @]
           bytes == Held(i.rows, <<"rows", c>>)
           lines == IF i.lines.state = "unlinked" THEN i.lines.bytes ELSE files'[<<"match", c>>]
           row == RowIn(bytes, i.index)
           next == IF HasLine(lines, row.match) THEN Moved(Saw(opened, row))
                                                ELSE [opened EXCEPT !.at = "row"]
<1>3. /\ files' = IF i.lines = NotOpen THEN Opened(files, {<<"match", c>>}) ELSE files
      /\ it' = [it EXCEPT ![r] = next]
  BY <1>2 DEF ReadMatch
<1>4. m = next /\ it' = [it EXCEPT ![r] = m]
  BY <1>1, <1>3
<1>5. KeptRows
  BY <1>1, <1>3, ReaderOpens DEF ChunkTypes
<1>6. /\ i.rows.state # "none" /\ HasRow(bytes, i.index)
      /\ i.rows.state = "live" => <<"rows", c>> \in DOMAIN files
  BY <1>1, <1>2 DEF ReaderFits
<1>7. i.rows = Live \/ (i.rows.state = "unlinked" /\ IsRows(i.rows.bytes))
  BY <1>6 DEF Iteration, Handle, NotOpen
<1>8. i.rows.state # "unlinked" => bytes = RowsOf(c)
  BY <1>6, <1>7 DEF Held, Live, RowsOf, RowsIn
<1>9. /\ opened \in Iteration /\ opened.chunk = i.chunk /\ opened.index = i.index
      /\ opened.forward = i.forward /\ opened.seen = i.seen /\ opened.due = i.due
      /\ opened.rows = i.rows
  <2>1. PICK handle \in Handle(Seq(LineByte)) : handle = IF i.lines = NotOpen THEN Live ELSE i.lines
    BY DEF Iteration, Handle
  <2>2. opened = [i EXCEPT !.lines = handle]
    BY <2>1
  <2>3. QED BY <2>1, <2>2 DEF Iteration
<1> HIDE DEF opened
<1>10. IsRows(bytes)
  <2>1. CASE i.rows.state = "unlinked"
    BY <1>7, <2>1 DEF Held, Live
  <2>2. CASE i.rows.state # "unlinked"
    BY <1>1, <1>8, <2>2, RowFiles
  <2>3. QED BY <2>1, <2>2
<1> HIDE DEF bytes, lines
<1>11. row \in StoredRow
  BY <1>6, <1>10, RowsAreRead DEF Iteration
<1>12. IsFitting(i) /\ i.at \in {"row", "match"} /\ i.chunk <= top
  BY <1>1, <1>2 DEF IterationsFit, CountsFit
<1>13. IsFitting(m)
  <2>1. CASE HasLine(lines, row.match)
    <3>1. m = Moved(Saw(opened, RowIn(bytes, i.index)))
      BY <1>4, <2>1
    <3>2. i.rows.state # "unlinked" => bytes = RowsOf(i.chunk)
      BY <1>2, <1>8
    <3>3. QED BY <1>1, <1>6, <1>9, <1>11, <1>12, <3>1, <3>2, MovingFits
  <2>2. CASE ~HasLine(lines, row.match)
    <3>1. m = [opened EXCEPT !.at = "row"]
      BY <1>4, <2>2
    <3>2. /\ m.at = "row" /\ m.chunk = i.chunk /\ m.index = i.index
          /\ m.forward = i.forward /\ m.seen = i.seen /\ m.due = i.due
          /\ m.rows = i.rows
      BY <1>9, <3>1 DEF Iteration
    <3>3. QED BY <1>12, <3>2, StayingFits
  <2>3. QED BY <2>1, <2>2
<1>14. QED BY <1>1, <1>4, <1>5, <1>13, ReaderStepFits

\* A row that is appended is beyond every cursor that goes backward, and ahead of others.
LEMMA AppendRowFits ==
    ASSUME Inv, Inv', IterationsFit, NEW a \in Adders, AppendRow(a)
    PROVE  IterationsFit'
<1>1. /\ FilesFit /\ FilesFit' /\ top \in Nat /\ UNCHANGED <<top, it>>
      /\ it \in [Readers -> Iteration]
  BY DEF Inv, CountsFit, AppendRow, fields, ReadersFit
<1> PICK t \in Nat : t = top
  BY <1>1
<1> PICK n \in Nat : n = NumRows(t)
  BY <1>1, RowFiles
<1>2. /\ NumRows(t)' = n + 1
      /\ <<"rows", t>> \in DOMAIN files /\ DOMAIN files' = DOMAIN files
      /\ \A k \in 0..n - 1 : RowIn(RowsOf(t)', k) = RowIn(RowsOf(t), k)
      /\ \A c \in Nat : c # t => RowsOf(c)' = RowsOf(c)
  BY RowIsAdded
<1>3. \A c \in Nat : c # t => NumRows(c)' = NumRows(c)
  BY <1>2 DEF NumRows
<1>4. ASSUME NEW p \in RowPositions
      PROVE  p \in RowPositions' /\ RowAt(p)' = RowAt(p)
  <2>1. /\ p \in Nat \X Int /\ <<"rows", p[1]>> \in DOMAIN files
        /\ p[2] \in 0..NumRows(p[1]) - 1 /\ RowAt(p) = RowIn(RowsOf(p[1]), p[2])
        /\ p[1] \in Nat
    BY <1>1, PositionsAre
  <2>2. /\ p[2] \in 0..NumRows(p[1])' - 1
        /\ RowIn(RowsOf(p[1])', p[2]) = RowIn(RowsOf(p[1]), p[2])
    <3>1. CASE p[1] = t
      <4>1. p[2] \in 0..n - 1 /\ NumRows(p[1])' = n + 1
        BY <1>2, <2>1, <3>1
      <4>2. QED BY <1>2, <3>1, <4>1
    <3>2. CASE p[1] # t
      BY <1>2, <1>3, <2>1, <3>2
    <3>3. QED BY <3>1, <3>2
  <2>3. p \in RowPositions'
    BY <1>1, <1>2, <2>1, <2>2, NextPositionsAre
  <2>4. RowAt(p)' = RowIn(RowsOf(p[1])', p[2])
    BY <1>1, <2>3, NextPositionsAre
  <2>5. QED BY <2>1, <2>2, <2>3, <2>4
<1> SUFFICES ASSUME NEW s \in Readers PROVE IsFitting(it[s])'
  BY DEF IterationsFit
<1> PICK i \in Iteration : i = it[s]
  BY <1>1
<1>5. IsFitting(i) /\ it'[s] = i /\ i.chunk \in Nat
  BY <1>1 DEF IterationsFit, Iteration
<1>6. i.at \in {"row", "match"} /\ i.rows.state = "unlinked" => i.chunk < top' /\ NumRows(i.chunk)' = 0
  <2>1. i.at \in {"row", "match"} /\ i.rows.state = "unlinked" => i.chunk < top /\ NumRows(i.chunk) = 0
    BY <1>5 DEF IsFitting
  <2>2. i.chunk < t => NumRows(i.chunk)' = NumRows(i.chunk)
    BY <1>3, <1>5
  <2>3. QED BY <1>1, <2>1, <2>2
<1>7. IsFitting(i)'
  BY <1>4, <1>5, <1>6, FittingStays
<1>8. QED BY <1>5, <1>7, NextFitting

\* The rows of a file that is removed are no longer due.
LEMMA RemovedRowsAreNotDue ==
    ASSUME NEW i \in Iteration, NEW type, NEW c, NEW after, after = AfterRemoval(i, <<type, c>>),
           type = "rows", NEW p \in RowPositions, RowAt(p).order \in after.due
    PROVE  p[1] # c
<1> DEFINE rows == { RowAt(q).order : q \in { u \in RowPositions : u[1] = c } }
<1>1. after.due = i.due \ rows
  BY DEF AfterRemoval, Iteration
<1>2. p[1] = c => RowAt(p).order \in rows
  OBVIOUS
<1>3. QED BY <1>1, <1>2

\* The rows of a file that is removed are owed to no iteration.
LEMMA RemoveFileFits ==
    ASSUME Inv, Inv', IterationsFit, RemoveFile
    PROVE  IterationsFit'
<1>1. /\ FilesFit /\ FilesFit' /\ UNCHANGED top /\ top \in Nat /\ bottom \in Nat
      /\ it \in [Readers -> Iteration]
      /\ del.at \in ChunkTypes /\ del.at # "idle"
      /\ it' = [s \in Readers |-> AfterRemoval(it[s], <<del.at, del.chunk>>)]
  BY DEF Inv, CountsFit, RemoveFile, ReadersFit, DeletionFits
<1> PICK b \in Nat : b = bottom
  BY <1>1
<1> PICK type \in ChunkTypes : type = del.at
  BY <1>1
<1>2. /\ b < top /\ del.chunk = b
      /\ getChunkRowCount(RowsIn(files', b)) = 0
      /\ del.at # "rows" => NumRows(bottom) = 0
      /\ \A c \in Nat : c # b => RowsOf(c)' = RowsOf(c)
      /\ \A c \in Nat : c # b => (<<"rows", c>> \in DOMAIN files' <=> <<"rows", c>> \in DOMAIN files)
  BY <1>1, RemovalFits DEF ChunkTypes
<1>3. \A c \in Nat : NumRows(c)' = IF c = b THEN 0 ELSE NumRows(c)
  BY <1>2 DEF NumRows, RowsOf
<1>4. ASSUME NEW p \in RowPositions, p[1] # b
      PROVE  p \in RowPositions' /\ RowAt(p)' = RowAt(p)
  <2>1. /\ p \in Nat \X Int /\ <<"rows", p[1]>> \in DOMAIN files
        /\ p[2] \in 0..NumRows(p[1]) - 1 /\ RowAt(p) = RowIn(RowsOf(p[1]), p[2])
        /\ p[1] \in Nat
    BY <1>1, PositionsAre
  <2>2. /\ p[2] \in 0..NumRows(p[1])' - 1 /\ <<"rows", p[1]>> \in DOMAIN files'
        /\ RowsOf(p[1])' = RowsOf(p[1])
    BY <1>2, <1>3, <1>4, <2>1
  <2>3. p \in RowPositions'
    BY <1>1, <2>1, <2>2, NextPositionsAre
  <2>4. RowAt(p)' = RowIn(RowsOf(p[1])', p[2])
    BY <1>1, <2>3, NextPositionsAre
  <2>5. QED BY <2>1, <2>2, <2>3, <2>4
<1>5. type # "rows" => \A p \in RowPositions : p[1] # b
  <2>1. \A p \in RowPositions : p[2] \in 0..NumRows(p[1]) - 1
    BY <1>1, PositionsAre
  <2>2. type # "rows" => NumRows(b) = 0
    BY <1>2
  <2>3. ASSUME NEW p \in RowPositions, type # "rows" PROVE p[1] # b
    <3>1. p[1] = b => p[2] \in 0..0 - 1
      BY <2>1, <2>2, <2>3
    <3>2. QED BY <3>1
  <2>4. QED BY <2>3
<1> SUFFICES ASSUME NEW s \in Readers PROVE IsFitting(it[s])'
  BY DEF IterationsFit
<1> PICK i \in Iteration : i = it[s]
  BY <1>1
<1> PICK j : j = AfterRemoval(i, <<type, b>>)
  OBVIOUS
<1>6. it'[s] = j /\ IsFitting(i) /\ i.chunk \in Nat
  BY <1>1, <1>2 DEF IterationsFit, Iteration
<1>7. /\ j.at = i.at /\ j.chunk = i.chunk /\ j.index = i.index
      /\ j.forward = i.forward /\ j.seen = i.seen /\ j.due \subseteq i.due
      /\ j.rows = i.rows \/ i.chunk = b
  <2>1. /\ j.at = i.at /\ j.chunk = i.chunk /\ j.index = i.index
        /\ j.forward = i.forward /\ j.seen = i.seen /\ j.due \subseteq i.due
        /\ \/ j.rows = i.rows
           \/ /\ j.rows.state = "unlinked" /\ j.rows.bytes = files[<<"rows", b>>]
              /\ i.rows.state = "live" /\ i.chunk = b
    <3>1. FilesFit /\ type \in ChunkTypes /\ b \in Nat /\ i \in Iteration /\ j = AfterRemoval(i, <<type, b>>)
      BY <1>1
    <3>2. QED BY <3>1, UnlinkedFits
  <2>2. QED BY <2>1
<1>8. \A p \in RowPositions : RowAt(p).order \in j.due => p[1] # b
  BY <1>5, RemovedRowsAreNotDue
<1>9. \A p \in RowPositions : RowAt(p).order \in j.due => p \in RowPositions' /\ RowAt(p)' = RowAt(p)
  BY <1>4, <1>8
<1>10. j.at \in {"row", "match"} /\ j.rows.state = "unlinked" => j.chunk < top' /\ NumRows(j.chunk)' = 0
  <2>1. CASE i.chunk = b
    BY <1>1, <1>2, <1>3, <1>7, <2>1
  <2>2. CASE i.chunk # b
    <3>1. j.rows = i.rows
      BY <1>7, <2>2
    <3>2. i.at \in {"row", "match"} /\ i.rows.state = "unlinked" => i.chunk < top /\ NumRows(i.chunk) = 0
      BY <1>6 DEF IsFitting
    <3>3. QED BY <1>1, <1>3, <1>6, <1>7, <2>2, <3>1, <3>2
  <2>3. QED BY <2>1, <2>2
<1>11. IsFitting(j)'
  BY <1>6, <1>7, <1>9, <1>10, FittingStays
<1>12. QED BY <1>6, <1>11, NextFitting

\* A reader that does not iterate has seen nothing.
LEMMA NobodyIterates ==
    ASSUME it' = [r \in Readers |-> NotIterating]
    PROVE  IterationsFit'
<1> SUFFICES ASSUME NEW s \in Readers PROVE IsFitting(it[s])'
  BY DEF IterationsFit
<1>1. IsFitting(NotIterating)'
  BY DEF IsFitting, NotIterating, InOrder
<1>2. it'[s] = NotIterating
  OBVIOUS
<1> PICK i : i = NotIterating
  OBVIOUS
<1>3. it'[s] = i /\ IsFitting(i)'
  BY <1>1, <1>2
<1>4. QED BY <1>3, NextFitting

\* Every step keeps what the iterations have seen and are to see in order.
LEMMA IterationsStep ==
    ASSUME FaultsAreApart, Inv, Inv', IterationsFit, [Next]_vars
    PROVE  IterationsFit'
<1>1. CASE \E a \in Adders : AppendRow(a)
  BY <1>1, AppendRowFits
<1>2. CASE RemoveFile
  BY <1>2, RemoveFileFits
<1>3. CASE ~(\E a \in Adders : AppendRow(a)) /\ ~RemoveFile
  <2>1. KeptRows
    BY <1>3, RowsStay
  <2>2. top \in Nat /\ top' \in Nat
    BY DEF Inv, CountsFit
  <2>3. ASSUME up, UNCHANGED it, top' >= top PROVE IterationsFit'
    <3> SUFFICES ASSUME NEW s \in Readers PROVE IsFitting(it[s])'
      BY DEF IterationsFit
    <3>1. it'[s] = it[s] /\ IsFitting(it[s])
      BY <2>3 DEF IterationsFit
    <3>2. QED BY <2>1, <2>2, <2>3, <3>1, OthersFit
  <2>4. ASSUME NEW a \in Adders, AddNext(a) PROVE IterationsFit'
    <3>1. CASE CallAdd(a)
      BY <2>2, <2>3, <3>1 DEF CallAdd, fields
    <3>2. CASE LockAdd(a)
      <4>1. up /\ UNCHANGED it
        BY <3>2, DoersAreUp DEF LockAdd
      <4>2. top' = top \/ top' = top + 1
        BY <3>2 DEF LockAdd, incrementRowOrChunk
      <4>3. QED BY <2>2, <2>3, <4>1, <4>2
    <3>3. CASE OpenChunkFile(a) \/ AppendLine(a) \/ FailOpen(a) \/ FailWrite(a)
      <4>1. up
        BY <3>3, DoersAreUp DEF OpenChunkFile, AppendLine, FailOpen, FailWrite
      <4>2. UNCHANGED <<it, top>>
        BY <3>3 DEF OpenChunkFile, AppendLine, FailOpen, FailWrite, FailedAdd, fields
      <4>3. QED BY <2>2, <2>3, <4>1, <4>2
    <3>4. QED BY <1>3, <2>4, <3>1, <3>2, <3>3 DEF AddNext
  <2>5. ASSUME NEW r \in Readers, IterateNext(r) PROVE IterationsFit'
    BY <2>5, ReadRowFits, ReadMatchFits, StopIterateFits DEF IterateNext
  <2>6. ASSUME NEW r \in Readers, NEW call \in IterateCalls, Iterate(r, call) PROVE IterationsFit'
    BY <2>6, IterateFits
  <2>7. ASSUME NEW isID \in BOOLEAN, Search(isID) PROVE IterationsFit'
    BY <2>2, <2>3, <2>7 DEF Search, fields
  <2>8. ASSUME NEW t, DeleteChunksOlderThan(t) PROVE IterationsFit'
    BY <2>2, <2>3, <2>8 DEF DeleteChunksOlderThan, fields
  <2>9. CASE Crash
    BY <2>9, NobodyIterates DEF Crash
  <2>10. CASE Restart
    <3>1. it' = [r \in Readers |-> NotIterating]
      BY <2>10 DEF Restart, Inv, DownFits
    <3>2. QED BY <3>1, NobodyIterates
  <2>11. CASE UNCHANGED vars
    <3>1. UNCHANGED <<it, top, up>>
      BY <2>11 DEF vars, fields
    <3>2. CASE up
      BY <2>2, <2>3, <3>1, <3>2
    <3>3. CASE ~up
      BY <3>1, <3>3, NobodyIterates DEF Inv, DownFits
    <3>4. QED BY <3>2, <3>3
  <2>12. QED BY <1>3, <2>4, <2>5, <2>6, <2>7, <2>8, <2>9, <2>10, <2>11 DEF Next
<1>4. QED BY <1>1, <1>2, <1>3

\* A reader that comes to the end has handed over every row that was there when it began
\* and has not been deleted, once and in order, whatever is added and deleted meanwhile and
\* however its file is opened, removed and left behind (Iterate takes no lock).
THEOREM IterationsAreComplete == ASSUME FaultsAreApart PROVE Spec => []IterationIsComplete
<1>1. Init => IterationsFit
  <2> SUFFICES ASSUME Init, NEW s \in Readers PROVE IsFitting(it[s])
    BY DEF IterationsFit
  <2>1. it[s] = NotIterating
    BY DEF Init
  <2>2. IsFitting(NotIterating)
    BY DEF IsFitting, NotIterating, InOrder
  <2>3. QED BY <2>1, <2>2
<1>2. Inv /\ Inv' /\ IterationsFit /\ [Next]_vars => IterationsFit'
  BY IterationsStep
<1>3. IterationsFit => IterationIsComplete
  BY DEF IterationsFit, IsFitting, InOrder, SeenOrders, IterationIsComplete
<1>4. QED BY <1>1, <1>2, <1>3, StorageFits, PTL DEF Spec

-----------------------------------------------------------------------------
(* What a search finds *)

Key(bytes, i, isID) == getOrderer(RowIn(bytes, i), isID)

\* What the search in a range of rows returns, given what it returns for its halves.
RowSearchedIn(h, range, bytes, find, isID) ==
    LET o == Key(bytes, Mid(range), isID)
    IN CASE o = find -> [index |-> Mid(range), exact |-> TRUE]
         [] o > find /\ range[1] = range[2] -> [index |-> Mid(range), exact |-> FALSE]
         [] o > find /\ range[1] # range[2] -> h[Lower(range)]
         [] o < find /\ range[1] = range[2] -> [index |-> Mid(range) + 1, exact |-> FALSE]
         [] o < find /\ range[1] # range[2] -> h[Upper(range)]
RowSearches(h, D, bytes, find, isID) ==
    h = [range \in D |-> RowSearchedIn(h, range, bytes, find, isID)]

\* What is found in a range of rows depends on what is found in its halves.
LEMMA RowSearchedInHalves ==
    ASSUME NEW h, NEW g, NEW range, NEW bytes, NEW find, NEW isID,
           range[1] # range[2] => h[Lower(range)] = g[Lower(range)] /\ h[Upper(range)] = g[Upper(range)]
    PROVE  RowSearchedIn(h, range, bytes, find, isID) = RowSearchedIn(g, range, bytes, find, isID)
<1>1. CASE range[1] = range[2]
  BY <1>1 DEF RowSearchedIn
<1>2. CASE range[1] # range[2]
  BY <1>2 DEF RowSearchedIn
<1>3. QED BY <1>1, <1>2

\* The recursive search in a chunk is a function for every range.
LEMMA RowSearchesExist ==
    ASSUME NEW m \in Int, NEW n \in Int, m <= n, NEW bytes, NEW find, NEW isID
    PROVE  \E h : RowSearches(h, (m..n) \X (m..n), bytes, find, isID)
<1> DEFINE Bad == { w \in Nat : ~\E h : RowSearches(h, NarrowRanges(m, n, w), bytes, find, isID) }
<1>1. Bad = {}
  <2> SUFFICES ASSUME Bad # {} PROVE FALSE
    OBVIOUS
  <2>1. PICK w \in Bad : \A v \in Bad : w <= v
    BY SmallestNumber
  <2>2. PICK g : \A range \in NarrowRanges(m, n, w - 1) :
                    g[range] = RowSearchedIn(g, range, bytes, find, isID)
    <3>1. CASE w = 0
      <4>1. NarrowRanges(m, n, w - 1) = {}
        <5>1. \A range \in (m..n) \X (m..n) : Width(range) \in 0..n - m
          BY HalvesAreNarrower
        <5>2. QED BY <3>1, <5>1 DEF NarrowRanges
      <4>2. QED BY <4>1
    <3>2. CASE w # 0
      <4>1. w - 1 \in Nat /\ w - 1 \notin Bad
        BY <2>1, <3>2
      <4>2. PICK g : RowSearches(g, NarrowRanges(m, n, w - 1), bytes, find, isID)
        BY <4>1
      <4>3. QED BY <4>2, Zenon DEF RowSearches
    <3>3. QED BY <3>1, <3>2
  <2> DEFINE h == [range \in NarrowRanges(m, n, w) |->
                     IF range \in NarrowRanges(m, n, w - 1) THEN g[range]
                     ELSE RowSearchedIn(g, range, bytes, find, isID)]
  <2>3. \A range \in NarrowRanges(m, n, w) : h[range] = RowSearchedIn(g, range, bytes, find, isID)
    BY <2>2
  <2>4. \A range \in NarrowRanges(m, n, w - 1) : range \in NarrowRanges(m, n, w)
    <3>1. \A range \in (m..n) \X (m..n) : Width(range) \in 0..n - m
      BY HalvesAreNarrower
    <3>2. QED BY <2>1, <3>1 DEF NarrowRanges
  <2>5. \A range \in NarrowRanges(m, n, w - 1) : h[range] = g[range]
    BY <2>4
  <2> HIDE DEF h
  <2>6. ASSUME NEW range \in NarrowRanges(m, n, w), range[1] # range[2]
        PROVE  Lower(range) \in NarrowRanges(m, n, w - 1) /\ Upper(range) \in NarrowRanges(m, n, w - 1)
    BY <2>1, <2>6, HalvesAreNarrowerStill
  <2>7. \A range \in NarrowRanges(m, n, w) : h[range] = RowSearchedIn(h, range, bytes, find, isID)
    <3> SUFFICES ASSUME NEW range \in NarrowRanges(m, n, w)
                 PROVE  h[range] = RowSearchedIn(h, range, bytes, find, isID)
      OBVIOUS
    <3>1. range[1] # range[2] =>
             h[Lower(range)] = g[Lower(range)] /\ h[Upper(range)] = g[Upper(range)]
      BY <2>5, <2>6
    <3>2. RowSearchedIn(h, range, bytes, find, isID) = RowSearchedIn(g, range, bytes, find, isID)
      BY <3>1, RowSearchedInHalves
    <3>3. QED BY <2>3, <3>2
  <2>8. RowSearches(h, NarrowRanges(m, n, w), bytes, find, isID)
    <3>1. h = [range \in NarrowRanges(m, n, w) |-> h[range]]
      BY DEF h
    <3>2. QED BY <2>7, <3>1, Zenon DEF RowSearches
  <2>9. QED BY <2>1, <2>8
<1>2. n - m \in Nat /\ NarrowRanges(m, n, n - m) = (m..n) \X (m..n)
  <2>1. \A range \in (m..n) \X (m..n) : Width(range) \in 0..n - m
    BY HalvesAreNarrower
  <2>2. QED BY <2>1 DEF NarrowRanges
<1>3. QED BY <1>1, <1>2

\* binarySearchForRow is that function at the whole range.
LEMMA RowSearch ==
    ASSUME NEW bytes, IsRows(bytes), getChunkRowCount(bytes) >= 1, NEW find, NEW isID,
           NEW n, n = getChunkRowCount(bytes) - 1
    PROVE  \E h : /\ \A range \in (0..n) \X (0..n) : h[range] = RowSearchedIn(h, range, bytes, find, isID)
                  /\ binarySearchForRow(bytes, find, isID) = h[<<0, n>>]
<1>1. n \in Nat
  BY RowsAreRead
<1> DEFINE search == CHOOSE h : RowSearches(h, (0..n) \X (0..n), bytes, find, isID)
<1>2. RowSearches(search, (0..n) \X (0..n), bytes, find, isID)
  <2>1. 0 \in Int /\ n \in Int /\ 0 <= n
    BY <1>1
  <2>2. QED BY <2>1, RowSearchesExist
<1>3. binarySearchForRow(bytes, find, isID) = search[<<0, n>>]
  <2>1. binarySearchForRow(bytes, find, isID) =
           LET last == getChunkRowCount(bytes) - 1
           IN (CHOOSE h : RowSearches(h, (0..last) \X (0..last), bytes, find, isID))[<<0, last>>]
    BY SMT DEF binarySearchForRow, RowSearches, RowSearchedIn, Key, Mid, Lower, Upper
  <2>2. QED BY <2>1, Zenon
<1> HIDE DEF search
<1>4. \A range \in (0..n) \X (0..n) : search[range] = RowSearchedIn(search, range, bytes, find, isID)
  BY <1>2, Zenon DEF RowSearches
<1>5. QED BY <1>3, <1>4

\* The rows before the one found have smaller keys, and those after it greater ones.
KeysIncrease(bytes, isID) ==
    \A i, j \in 0..getChunkRowCount(bytes) - 1 : i < j => Key(bytes, i, isID) < Key(bytes, j, isID)
IsRowFound(found, bytes, find, isID) ==
    LET last == getChunkRowCount(bytes) - 1
    IN /\ found.index \in 0..last + 1
       /\ \A k \in 0..last : k < found.index => Key(bytes, k, isID) < find
       /\ \A k \in 0..last : k > found.index => Key(bytes, k, isID) > find
       /\ found.exact \in BOOLEAN
       /\ found.exact => found.index \in 0..last /\ Key(bytes, found.index, isID) = find
       /\ ~found.exact => \A k \in 0..last : k = found.index => Key(bytes, k, isID) > find
\* What is known of a range when the search comes to it.
IsBetween(range, bytes, find, isID) ==
    LET last == getChunkRowCount(bytes) - 1
    IN /\ range[1] <= range[2]
       /\ \A k \in 0..last : k < range[1] => Key(bytes, k, isID) < find
       /\ \A k \in 0..last : k > range[2] => Key(bytes, k, isID) > find

\* IDs and orders are numbers.
LEMMA KeysAre ==
    ASSUME NEW row \in StoredRow, NEW isID \in BOOLEAN
    PROVE  getOrderer(row, isID) \in Nat
  BY DEF getOrderer, StoredRow, Row

\* The halves of a range.
LEMMA HalvesAre ==
    ASSUME NEW m \in Int, NEW n \in Int, NEW range \in (m..n) \X (m..n), range[1] < range[2]
    PROVE  /\ Mid(range) \in range[1]..range[2] /\ Mid(range) < range[2]
           /\ Lower(range)[1] = range[1] /\ Upper(range)[2] = range[2]
           /\ Lower(range)[2] \in Int /\ Upper(range)[1] = Mid(range) + 1
           /\ Lower(range)[2] >= Mid(range) - 1 /\ Lower(range)[2] >= range[1]
           /\ Lower(range)[2] = Mid(range) - 1 \/ (Lower(range)[2] = Mid(range) /\ Mid(range) = range[1])
<1> PICK lo \in m..n : lo = range[1]
  OBVIOUS
<1> PICK hi \in m..n : hi = range[2]
  OBVIOUS
<1>1. PICK mid \in Int : mid = (lo + hi) \div 2 /\ mid >= lo /\ mid < hi
  OBVIOUS
<1>2. Mid(range) = mid
  BY <1>1 DEF Mid
<1>3. lo \in Int /\ hi \in Int /\ mid - 1 \in Int /\ mid + 1 \in Int
  BY <1>1
<1>4. /\ Max({lo, mid - 1}) = IF lo <= mid - 1 THEN mid - 1 ELSE lo
      /\ Min({hi, mid + 1}) = IF hi <= mid + 1 THEN hi ELSE mid + 1
  BY <1>3, MinMaxOfTwo
<1>5. /\ Lower(range)[1] = lo /\ Lower(range)[2] = Max({lo, mid - 1})
      /\ Upper(range)[1] = Min({hi, mid + 1}) /\ Upper(range)[2] = hi
  BY <1>2 DEF Lower, Upper
<1>6. QED BY <1>1, <1>2, <1>4, <1>5

\* In rows that are in order the search finds the row, or the place it would have.
LEMMA RowIsFound ==
    ASSUME NEW bytes, IsRows(bytes), getChunkRowCount(bytes) >= 1, NEW find \in Nat, NEW isID \in BOOLEAN,
           KeysIncrease(bytes, isID)
    PROVE  IsRowFound(binarySearchForRow(bytes, find, isID), bytes, find, isID)
<1>1. PICK n \in Nat : n = getChunkRowCount(bytes) - 1
  BY RowsAreRead
<1>2. PICK h : /\ \A range \in (0..n) \X (0..n) : h[range] = RowSearchedIn(h, range, bytes, find, isID)
               /\ binarySearchForRow(bytes, find, isID) = h[<<0, n>>]
  BY <1>1, RowSearch
<1>3. \A k \in 0..n : Key(bytes, k, isID) \in Nat
  BY <1>1, RowsAreRead, KeysAre DEF Key
<1>4. \A i, j \in 0..n : i < j => Key(bytes, i, isID) < Key(bytes, j, isID)
  BY <1>1 DEF KeysIncrease
<1> DEFINE Bad == { w \in Nat : \E range \in (0..n) \X (0..n) :
                       /\ Width(range) = w /\ IsBetween(range, bytes, find, isID)
                       /\ ~IsRowFound(h[range], bytes, find, isID) }
<1>5. Bad = {}
  <2> SUFFICES ASSUME Bad # {} PROVE FALSE
    OBVIOUS
  <2>1. PICK w \in Bad : \A v \in Bad : w <= v
    BY SmallestNumber
  <2>2. PICK range \in (0..n) \X (0..n) :
           /\ Width(range) = w /\ IsBetween(range, bytes, find, isID)
           /\ ~IsRowFound(h[range], bytes, find, isID)
    BY <2>1
  <2> PICK lo \in 0..n : lo = range[1]
    OBVIOUS
  <2> PICK hi \in 0..n : hi = range[2]
    OBVIOUS
  <2>3. /\ lo <= hi
        /\ \A k \in 0..n : k < lo => Key(bytes, k, isID) < find
        /\ \A k \in 0..n : k > hi => Key(bytes, k, isID) > find
    BY <1>1, <2>2 DEF IsBetween
  <2>4. PICK mid \in 0..n : mid = Mid(range) /\ lo <= mid /\ mid <= hi /\ (lo = hi => mid = lo)
    BY <2>3 DEF Mid
  <2>5. ASSUME NEW half \in (0..n) \X (0..n), Width(half) < Width(range), IsBetween(half, bytes, find, isID)
        PROVE  IsRowFound(h[half], bytes, find, isID)
    <3>1. Width(half) \in Nat
      <4>1. 0 \in Int /\ n \in Int
        BY <1>1
      <4>2. Width(half) \in 0..n - 0
        BY <4>1, HalvesAreNarrower
      <4>3. QED BY <4>2
    <3>2. Width(half) \notin Bad
      BY <2>1, <2>2, <2>5, <3>1
    <3>3. QED BY <2>5, <3>1, <3>2
  <2>6. lo < hi => /\ Lower(range) \in (0..n) \X (0..n) /\ Width(Lower(range)) < Width(range)
                   /\ Upper(range) \in (0..n) \X (0..n) /\ Width(Upper(range)) < Width(range)
    <3>1. 0 \in Int /\ n \in Int
      BY <1>1
    <3>2. range[1] # range[2] =>
             /\ Lower(range) \in (0..n) \X (0..n) /\ Width(Lower(range)) < Width(range)
             /\ Upper(range) \in (0..n) \X (0..n) /\ Width(Upper(range)) < Width(range)
      BY <3>1, HalvesAreNarrower
    <3>3. QED BY <3>2
  <2> PICK o \in Nat : o = Key(bytes, mid, isID)
    BY <1>3
  <2>7. h[range] = RowSearchedIn(h, range, bytes, find, isID)
    BY <1>2
  <2>8. CASE o = find
    <3>1. h[range] = [index |-> mid, exact |-> TRUE]
      BY <2>4, <2>7, <2>8 DEF RowSearchedIn
    <3>2. /\ \A k \in 0..n : k < mid => Key(bytes, k, isID) < find
          /\ \A k \in 0..n : k > mid => Key(bytes, k, isID) > find
      BY <1>4, <2>8
    <3>3. h[range].index = mid /\ h[range].exact = TRUE /\ mid \in 0..n /\ mid \in 0..n + 1
      BY <3>1
    <3>4. IsRowFound(h[range], bytes, find, isID)
      BY <1>1, <2>8, <3>2, <3>3 DEF IsRowFound
    <3>5. QED BY <2>2, <3>4
  <2>9. CASE o > find /\ lo = hi
    <3>1. h[range] = [index |-> mid, exact |-> FALSE]
      BY <2>4, <2>7, <2>9 DEF RowSearchedIn
    <3>2. QED BY <1>1, <2>2, <2>3, <2>4, <2>9, <3>1 DEF IsRowFound
  <2>10. CASE o < find /\ lo = hi
    <3>1. h[range] = [index |-> mid + 1, exact |-> FALSE]
      BY <2>4, <2>7, <2>10 DEF RowSearchedIn
    <3>2. \A k \in 0..n : /\ k < mid + 1 => Key(bytes, k, isID) < find
                          /\ k >= mid + 1 => Key(bytes, k, isID) > find
      BY <2>3, <2>4, <2>10
    <3>3. mid + 1 \in 0..n + 1
      OBVIOUS
    <3>4. QED BY <1>1, <2>2, <3>1, <3>2, <3>3 DEF IsRowFound
  <2>11. CASE o > find /\ lo < hi
    <3>1. h[range] = h[Lower(range)]
      BY <2>4, <2>7, <2>11 DEF RowSearchedIn
    <3>2. PICK to \in Int : /\ Lower(range)[1] = lo /\ Lower(range)[2] = to /\ to >= lo
                            /\ to >= mid - 1
      <4>1. 0 \in Int /\ n \in Int /\ range[1] < range[2]
        BY <1>1, <2>11
      <4>2. QED BY <2>4, <4>1, HalvesAre
    <3>3. \A k \in 0..n : k > to => Key(bytes, k, isID) > find
      <4> SUFFICES ASSUME NEW k \in 0..n, k > to PROVE Key(bytes, k, isID) > find
        OBVIOUS
      <4>1. k = mid \/ mid < k
        BY <3>2
      <4>2. QED BY <1>3, <1>4, <2>11, <4>1
    <3>4. IsBetween(Lower(range), bytes, find, isID)
      BY <1>1, <2>3, <3>2, <3>3 DEF IsBetween
    <3>5. QED BY <2>2, <2>5, <2>6, <2>11, <3>1, <3>4
  <2>12. CASE o < find /\ lo < hi
    <3>1. h[range] = h[Upper(range)]
      BY <2>4, <2>7, <2>12 DEF RowSearchedIn
    <3>2. Upper(range)[2] = hi /\ Upper(range)[1] = mid + 1 /\ mid < hi
      <4>1. 0 \in Int /\ n \in Int /\ range[1] < range[2]
        BY <1>1, <2>12
      <4>2. QED BY <2>4, <4>1, HalvesAre
    <3>3. \A k \in 0..n : k < mid + 1 => Key(bytes, k, isID) < find
      <4> SUFFICES ASSUME NEW k \in 0..n, k < mid + 1 PROVE Key(bytes, k, isID) < find
        OBVIOUS
      <4>1. k = mid \/ k < mid
        OBVIOUS
      <4>2. QED BY <1>3, <1>4, <2>12, <4>1
    <3>4. IsBetween(Upper(range), bytes, find, isID)
      BY <1>1, <2>3, <3>2, <3>3 DEF IsBetween
    <3>5. QED BY <2>2, <2>5, <2>6, <2>12, <3>1, <3>4
  <2>13. QED BY <2>3, <2>8, <2>9, <2>10, <2>11, <2>12
<1>6. <<0, n>> \in (0..n) \X (0..n) /\ Width(<<0, n>>) \in Nat
  BY <1>1 DEF Width
<1>7. IsBetween(<<0, n>>, bytes, find, isID)
  BY <1>1 DEF IsBetween
<1>8. IsRowFound(h[<<0, n>>], bytes, find, isID)
  BY <1>5, <1>6, <1>7
<1>9. QED BY <1>2, <1>8

-----------------------------------------------------------------------------
(* What BinarySearch answers *)

KeyAt(p, isID) == getOrderer(RowAt(p), isID)
AllBelow(c, find, isID) == \A p \in RowPositions : p[1] < c => KeyAt(p, isID) < find
AllAbove(c, find, isID) == \A p \in RowPositions : p[1] > c => KeyAt(p, isID) > find

\* The row that is looked for is in the chunk that is found, or nowhere.
IsChunkFound(found, find, isID) ==
    /\ found.pos \in {"within", "below"} =>
          /\ found.chunk \in bottom..top
          /\ AllBelow(found.chunk, find, isID) /\ AllAbove(found.chunk, find, isID)
    /\ found.pos \in {"above", "outside"} => AllBelow(top + 1, find, isID)
    /\ found.pos = "empty" => RowPositions = {}

\* The rows of a chunk are where its file has them.
LEMMA ChunkPositions ==
    ASSUME FilesFit, NEW c \in Nat
    PROVE  /\ \A i \in 0..NumRows(c) - 1 : <<c, i>> \in RowPositions /\ RowAt(<<c, i>>) = RowIn(RowsOf(c), i)
           /\ \A p \in RowPositions : p = <<p[1], p[2]>> /\ p[1] \in Nat /\ p[2] \in 0..NumRows(p[1]) - 1
<1>1. NumRows(c) \in Nat /\ (<<"rows", c>> \notin DOMAIN files => NumRows(c) = 0)
  BY RowFiles
<1>2. ASSUME NEW i \in 0..NumRows(c) - 1
      PROVE  <<c, i>> \in RowPositions /\ RowAt(<<c, i>>) = RowIn(RowsOf(c), i)
  <2>1. NumRows(c) # 0
    BY <1>1
  <2>2. <<"rows", c>> \in DOMAIN files
    BY <1>1, <2>1
  <2>3. <<c, i>> \in Nat \X Int /\ <<c, i>>[1] = c /\ <<c, i>>[2] = i
    OBVIOUS
  <2>4. <<c, i>> \in RowPositions
    BY <2>2, <2>3, RowPositionsAre
  <2>5. QED BY <2>3, <2>4, RowPositionsAre
<1>3. \A p \in RowPositions : p = <<p[1], p[2]>> /\ p[1] \in Nat /\ p[2] \in 0..NumRows(p[1]) - 1
  <2>1. \A p \in Nat \X Int : p = <<p[1], p[2]>> /\ p[1] \in Nat
    OBVIOUS
  <2>2. \A p \in RowPositions : p \in Nat \X Int /\ p[2] \in 0..NumRows(p[1]) - 1
    BY RowPositionsAre
  <2>3. QED BY <2>1, <2>2
<1>4. QED BY <1>2, <1>3

\* The orders of rows, or their IDs, increase with their positions.
LEMMA OrderIs ==
    ASSUME FilesFit, NEW isID \in BOOLEAN, Ordered(isID)
    PROVE  /\ \A p \in RowPositions : KeyAt(p, isID) \in Nat
           /\ \A p, q \in RowPositions :
                 p[1] < q[1] \/ (p[1] = q[1] /\ p[2] < q[2]) => KeyAt(p, isID) < KeyAt(q, isID)
<1>1. \A p \in RowPositions : KeyAt(p, isID) \in Nat
  BY RowPositionsAre, KeysAre DEF KeyAt
<1>2. ASSUME NEW p \in RowPositions, NEW q \in RowPositions,
             p[1] < q[1] \/ (p[1] = q[1] /\ p[2] < q[2])
      PROVE  KeyAt(p, isID) < KeyAt(q, isID)
  <2>1. p[1] \in Nat /\ q[1] \in Nat /\ p[2] \in Int /\ q[2] \in Int
    <3>1. p \in Nat \X Int /\ q \in Nat \X Int
      BY RowPositionsAre
    <3>2. QED BY <3>1
  <2>2. p # q
    BY <1>2, <2>1
  <2>3. IsBefore(p, q)
    BY <1>2, <2>1 DEF IsBefore
  <2>4. QED BY <2>2, <2>3 DEF Ordered, KeyAt
<1>3. QED BY <1>1, <1>2

\* What the look at the first and the last row of a chunk says of all rows.
LEMMA TurnIs ==
    ASSUME FilesFit, NEW isID \in BOOLEAN, Ordered(isID), NEW find \in Nat, NEW c \in Nat,
           NEW turn, turn = isOrdererInChunk(c, find, isID)
    PROVE  /\ NumRows(c) = 0 => turn = "error"
           /\ turn = "previous" => AllAbove(c - 1, find, isID)
           /\ turn = "next" => AllBelow(c + 1, find, isID)
           /\ turn = "here" => AllBelow(c, find, isID) /\ AllAbove(c, find, isID)
<1>1. PICK n \in Nat : n = NumRows(c)
  BY RowFiles
<1> DEFINE bytes == Opened(files, {<<"rows", c>>})[<<"rows", c>>]
<1>2. bytes = RowsOf(c)
  BY DEF Opened, RowsOf, RowsIn
<1>3. HasRow(bytes, 0) <=> n # 0
  BY <1>1, <1>2, RowFiles
<1>4. turn = IF ~HasRow(bytes, 0) THEN "error"
             ELSE CASE Key(bytes, 0, isID) > find -> "previous"
                    [] Key(bytes, 0, isID) < find /\ Key(bytes, n - 1, isID) < find -> "next"
                    [] OTHER -> "here"
  <2>1. n = getChunkRowCount(bytes)
    BY <1>1, <1>2 DEF NumRows
  <2>2. QED BY <2>1 DEF isOrdererInChunk, Key
<1> HIDE DEF bytes
<1>5. CASE n = 0
  BY <1>1, <1>3, <1>4, <1>5
<1>6. CASE n # 0
  <2> PICK first : first = <<c, 0>>
    OBVIOUS
  <2> PICK last : last = <<c, n - 1>>
    OBVIOUS
  <2>1. /\ first \in RowPositions /\ KeyAt(first, isID) = Key(bytes, 0, isID)
        /\ last \in RowPositions /\ KeyAt(last, isID) = Key(bytes, n - 1, isID)
    <3>1. 0 \in 0..NumRows(c) - 1 /\ n - 1 \in 0..NumRows(c) - 1
      BY <1>1, <1>6
    <3>2. QED BY <1>2, <3>1, ChunkPositions DEF KeyAt, Key
  <2>2. first[1] = c /\ first[2] = 0 /\ last[1] = c /\ last[2] = n - 1
    OBVIOUS
  <2>3. \A p \in RowPositions : p[1] \in Nat /\ p[2] \in Int /\ p[2] >= 0 /\ (p[1] = c => p[2] <= n - 1)
    BY <1>1, ChunkPositions
  <2>4. \A p \in RowPositions : KeyAt(p, isID) \in Nat
    BY OrderIs
  <2> PICK f \in Nat : f = KeyAt(first, isID)
    BY <2>1, <2>4
  <2> PICK l \in Nat : l = KeyAt(last, isID)
    BY <2>1, <2>4
  <2>5. ASSUME NEW p \in RowPositions
        PROVE  /\ p[1] > c => KeyAt(p, isID) > l /\ KeyAt(p, isID) > f
               /\ p[1] < c => KeyAt(p, isID) < f /\ KeyAt(p, isID) < l
               /\ p[1] = c => KeyAt(p, isID) >= f /\ KeyAt(p, isID) <= l
    <3>1. /\ p[1] > c => KeyAt(last, isID) < KeyAt(p, isID) /\ KeyAt(first, isID) < KeyAt(p, isID)
          /\ p[1] < c => KeyAt(p, isID) < KeyAt(first, isID) /\ KeyAt(p, isID) < KeyAt(last, isID)
      BY <2>1, <2>2, <2>3, OrderIs
    <3>2. CASE p[1] = c
      <4>1. p = first \/ KeyAt(first, isID) < KeyAt(p, isID)
        <5>1. p[2] = 0 \/ first[2] < p[2]
          BY <2>2, <2>3
        <5>2. p = <<p[1], p[2]>>
          BY ChunkPositions
        <5>3. p[2] = 0 => p = first
          BY <3>2, <5>2
        <5>4. first[2] < p[2] => KeyAt(first, isID) < KeyAt(p, isID)
          BY <2>1, <2>2, <3>2, OrderIs
        <5>5. QED BY <5>1, <5>3, <5>4
      <4>2. p = last \/ KeyAt(p, isID) < KeyAt(last, isID)
        <5>1. p[2] = n - 1 \/ p[2] < last[2]
          BY <2>2, <2>3, <3>2
        <5>2. p = <<p[1], p[2]>>
          BY ChunkPositions
        <5>3. p[2] = n - 1 => p = last
          BY <3>2, <5>2
        <5>4. p[2] < last[2] => KeyAt(p, isID) < KeyAt(last, isID)
          BY <2>1, <2>2, <3>2, OrderIs
        <5>5. QED BY <5>1, <5>3, <5>4
      <4>3. KeyAt(p, isID) \in Nat
        BY <2>4
      <4>4. QED BY <2>3, <3>2, <4>1, <4>2, <4>3
    <3>3. KeyAt(p, isID) \in Nat /\ p[1] \in Nat
      BY <2>3, <2>4
    <3>4. QED BY <3>1, <3>2, <3>3
  <2>6. turn = CASE f > find -> "previous" [] f < find /\ l < find -> "next" [] OTHER -> "here"
    BY <1>3, <1>4, <1>6, <2>1
  <2>7. f <= l
    BY <2>1, <2>2, <2>5
  <2>8. CASE f > find
    <3>1. turn = "previous"
      BY <2>6, <2>8
    <3>2. AllAbove(c - 1, find, isID)
      BY <2>3, <2>4, <2>5, <2>8 DEF AllAbove
    <3>3. QED BY <1>1, <1>6, <3>1, <3>2
  <2>9. CASE f < find /\ l < find
    <3>1. turn = "next"
      BY <2>6, <2>9
    <3>2. AllBelow(c + 1, find, isID)
      BY <2>3, <2>4, <2>5, <2>9 DEF AllBelow
    <3>3. QED BY <1>1, <1>6, <3>1, <3>2
  <2>10. CASE ~(f > find) /\ ~(f < find /\ l < find)
    <3>1. turn = "here"
      BY <2>6, <2>10
    <3>2. f <= find /\ l >= find
      BY <2>7, <2>10
    <3>3. AllBelow(c, find, isID)
      BY <2>3, <2>4, <2>5, <3>2 DEF AllBelow
    <3>4. AllAbove(c, find, isID)
      BY <2>3, <2>4, <2>5, <3>2 DEF AllAbove
    <3>5. QED BY <1>1, <1>6, <3>1, <3>3, <3>4
  <2>11. QED BY <2>8, <2>9, <2>10
<1>7. QED BY <1>5, <1>6

\* The search for a chunk finds one with all that is less before it, and all that is
\* more after.
LEMMA ChunkIsFound ==
    ASSUME FilesFit, CountsFit, ChunksFit, StoredRowsAreReachable, up,
           NEW isID \in BOOLEAN, Ordered(isID), NEW find \in Nat
    PROVE  IsChunkFound(binarySearchForChunk(find, isID), find, isID)
<1>1. bottom \in Nat /\ top \in Nat /\ bottom <= top /\ count \in Nat
  BY DEF CountsFit, ChunksFit
<1> PICK b \in Nat : b = bottom
  BY <1>1
<1> PICK t \in Nat : t = top
  BY <1>1
<1>2. \A p \in RowPositions : p[1] \in b..t /\ p[2] >= 0 /\ (p[1] = t => p[2] < count) /\ p[2] \in Int
  <2>1. \A p \in RowPositions : /\ p[1] \in Nat /\ p[2] \in 0..NumRows(p[1]) - 1
    BY <1>1, ChunkPositions
  <2>2. \A p \in RowPositions : p[1] >= bottom /\ (p[1] < top \/ (p[1] = top /\ p[2] < count))
    BY DEF StoredRowsAreReachable
  <2>3. QED BY <1>1, <2>1, <2>2
<1>3. CASE isEmpty
  <2>1. binarySearchForChunk(find, isID) = Found(0, "empty", {})
    BY <1>3 DEF binarySearchForChunk
  <2>2. RowPositions = {}
    BY <1>1, <1>2, <1>3 DEF isEmpty
  <2>3. QED BY <2>1, <2>2 DEF IsChunkFound, Found
<1>4. CASE ~isEmpty
  <2> DEFINE chunks == b..t
  <2>1. PICK h : /\ \A range \in chunks \X chunks :
                       h[range] = SearchedIn(h, range, find, isID) /\ h[range] \in FoundIn(chunks)
                 /\ binarySearchForChunk(find, isID) = h[<<b, t>>]
    BY <1>1, <1>4, ChunkSearchInside
  <2> DEFINE Between(range) == /\ range[1] <= range[2]
                               /\ AllBelow(range[1], find, isID) /\ AllAbove(range[2], find, isID)
             Bad == { w \in Nat : \E range \in chunks \X chunks :
                        Width(range) = w /\ Between(range) /\ ~IsChunkFound(h[range], find, isID) }
  <2>2. Bad = {}
    <3> SUFFICES ASSUME Bad # {} PROVE FALSE
      OBVIOUS
    <3>1. PICK w \in Bad : \A v \in Bad : w <= v
      BY SmallestNumber
    <3>2. PICK range \in chunks \X chunks :
             Width(range) = w /\ Between(range) /\ ~IsChunkFound(h[range], find, isID)
      BY <3>1
    <3> PICK lo \in b..t : lo = range[1]
      OBVIOUS
    <3> PICK hi \in b..t : hi = range[2]
      OBVIOUS
    <3>3. lo <= hi /\ AllBelow(lo, find, isID) /\ AllAbove(hi, find, isID)
      BY <3>2
    <3>4. PICK mid \in b..t : mid = Mid(range) /\ lo <= mid /\ mid <= hi /\ (lo = hi => mid = lo)
      BY <3>3 DEF Mid
    <3>5. ASSUME NEW half \in chunks \X chunks, Width(half) < Width(range), Between(half)
          PROVE  IsChunkFound([h[half] EXCEPT !.opened = @ \cup {mid}], find, isID)
      <4>1. Width(half) \in Nat
        <5>1. b \in Int /\ t \in Int
          OBVIOUS
        <5>2. Width(half) \in 0..t - b
          BY <5>1, HalvesAreNarrower
        <5>3. QED BY <5>2
      <4>2. Width(half) \notin Bad
        BY <3>1, <3>2, <3>5, <4>1
      <4>3. IsChunkFound(h[half], find, isID)
        BY <3>5, <4>1, <4>2
      <4> PICK found \in FoundIn(chunks) : found = h[half]
        BY <2>1
      <4> PICK more : more = [found EXCEPT !.opened = @ \cup {mid}]
        OBVIOUS
      <4>4. more.pos = found.pos /\ more.chunk = found.chunk
        BY DEF FoundIn
      <4>5. QED BY <4>3, <4>4 DEF IsChunkFound
    <3>6. lo < hi =>
             /\ Lower(range) \in chunks \X chunks /\ Width(Lower(range)) < Width(range)
             /\ Upper(range) \in chunks \X chunks /\ Width(Upper(range)) < Width(range)
      <4>1. b \in Int /\ t \in Int
        OBVIOUS
      <4>2. range[1] # range[2] =>
             /\ Lower(range) \in chunks \X chunks /\ Width(Lower(range)) < Width(range)
             /\ Upper(range) \in chunks \X chunks /\ Width(Upper(range)) < Width(range)
        BY <4>1, HalvesAreNarrower
      <4>3. QED BY <4>2
    <3>7. h[range] = SearchedIn(h, range, find, isID)
      BY <2>1
    <3> PICK turn \in {"error", "previous", "next", "here"} : turn = isOrdererInChunk(mid, find, isID)
      BY TurnsAre
    <3>8. /\ turn = "previous" => AllAbove(mid - 1, find, isID)
          /\ turn = "next" => AllBelow(mid + 1, find, isID)
          /\ turn = "here" => AllBelow(mid, find, isID) /\ AllAbove(mid, find, isID)
      BY TurnIs
    <3>9. IsChunkFound(h[range], find, isID)
      <4>1. CASE turn = "error"
        <5>1. h[range].pos = "error"
          BY <3>4, <3>7, <4>1 DEF SearchedIn, Found
        <5>2. QED BY <5>1 DEF IsChunkFound
      <4>2. CASE turn = "here"
        <5>1. h[range].pos = "within" /\ h[range].chunk = mid
          BY <3>4, <3>7, <4>2 DEF SearchedIn, Found
        <5>2. QED BY <3>8, <4>2, <5>1 DEF IsChunkFound
      <4>3. CASE turn = "previous" /\ lo = hi
        <5>1. h[range].pos = "below" /\ h[range].chunk = mid
          BY <3>4, <3>7, <4>3 DEF SearchedIn, Found
        <5>2. QED BY <3>3, <3>4, <4>3, <5>1 DEF IsChunkFound
      <4>4. CASE turn = "previous" /\ lo < hi
        <5>1. h[range] = [h[Lower(range)] EXCEPT !.opened = @ \cup {mid}]
          BY <3>4, <3>7, <4>4 DEF SearchedIn
        <5>2. PICK to \in Int : /\ Lower(range)[1] = lo /\ Lower(range)[2] = to /\ to >= lo
                                /\ to >= mid - 1
          <6>1. b \in Int /\ t \in Int /\ range[1] < range[2]
            BY <4>4
          <6>2. QED BY <3>4, <6>1, HalvesAre
        <5>3. AllAbove(to, find, isID)
          BY <1>2, <3>8, <4>4, <5>2 DEF AllAbove
        <5>4. Between(Lower(range))
          BY <3>3, <5>2, <5>3
        <5>5. QED BY <3>5, <3>6, <4>4, <5>1, <5>4
      <4>5. CASE turn = "next" /\ lo < hi
        <5>1. h[range] = [h[Upper(range)] EXCEPT !.opened = @ \cup {mid}]
          BY <3>4, <3>7, <4>5 DEF SearchedIn
        <5>2. Upper(range)[2] = hi /\ Upper(range)[1] = mid + 1 /\ mid < hi
          <6>1. b \in Int /\ t \in Int /\ range[1] < range[2]
            BY <4>5
          <6>2. QED BY <3>4, <6>1, HalvesAre
        <5>3. Between(Upper(range))
          BY <3>3, <3>8, <4>5, <5>2
        <5>4. QED BY <3>5, <3>6, <4>5, <5>1, <5>3
      <4>6. CASE turn = "next" /\ lo = hi /\ hi < t
        <5>1. h[range].pos = "below" /\ h[range].chunk = mid + 1
          BY <3>4, <3>7, <4>6 DEF SearchedIn, Found
        <5>2. mid + 1 \in bottom..top
          BY <3>4, <4>6
        <5>3. AllAbove(mid + 1, find, isID)
          BY <1>2, <3>3, <3>4, <4>6 DEF AllAbove
        <5>4. QED BY <3>8, <4>6, <5>1, <5>2, <5>3 DEF IsChunkFound
      <4>7. CASE turn = "next" /\ lo = hi /\ ~(hi < t)
        <5>1. h[range].pos \in {"above", "outside"}
          BY <3>4, <3>7, <4>7 DEF SearchedIn, Found
        <5>2. AllBelow(top + 1, find, isID)
          BY <3>4, <3>8, <4>7
        <5>3. QED BY <5>1, <5>2 DEF IsChunkFound
      <4>8. QED BY <3>3, <4>1, <4>2, <4>3, <4>4, <4>5, <4>6, <4>7
    <3>10. QED BY <3>2, <3>9
  <2>3. <<b, t>> \in chunks \X chunks /\ Width(<<b, t>>) \in Nat
    BY <1>1 DEF Width
  <2>4. Between(<<b, t>>)
    BY <1>1, <1>2 DEF AllBelow, AllAbove
  <2>5. IsChunkFound(h[<<b, t>>], find, isID)
    BY <2>2, <2>3, <2>4
  <2>6. QED BY <2>1, <2>5
<1>5. QED BY <1>3, <1>4

\* In the chunk that is found, the row is found.
Hits(find, isID) == { p \in RowPositions : getOrderer(RowAt(p), isID) = find }
Below(find, isID) == { p \in RowPositions : getOrderer(RowAt(p), isID) < find }
IsAnswer(exact, chunk, index, find, isID) ==
    /\ exact = (Hits(find, isID) # {})
    /\ exact => Hits(find, isID) = {<<chunk, index>>}
InsertsAt(chunk, index, find, isID) ==
    index = Cardinality({ p \in Below(find, isID) : p[1] = chunk })

\* The search in that chunk then finds the only row there is, or its place.
LEMMA RowInChunk ==
    ASSUME FilesFit, NEW isID \in BOOLEAN, Ordered(isID), NEW find \in Nat, NEW c \in Nat,
           NumRows(c) # 0, AllBelow(c, find, isID), AllAbove(c, find, isID),
           NEW row, row = binarySearchForRow(RowsOf(c), find, isID)
    PROVE  IsAnswer(row.exact, c, row.index, find, isID) /\ InsertsAt(c, row.index, find, isID)
<1> PICK hits : hits = { p \in RowPositions : KeyAt(p, isID) = find }
  OBVIOUS
<1> PICK below : below = { p \in RowPositions : KeyAt(p, isID) < find }
  OBVIOUS
<1>0. hits = Hits(find, isID) /\ below = Below(find, isID)
  BY DEF Hits, Below, KeyAt
<1>1. PICK n \in Nat : n = NumRows(c) /\ n >= 1
  <2>1. NumRows(c) \in Nat
    BY RowFiles
  <2>2. QED BY <2>1
<1> PICK bytes : bytes = RowsOf(c)
  OBVIOUS
<1>2. IsRows(bytes) /\ getChunkRowCount(bytes) = n
  BY <1>1, RowFiles DEF NumRows
<1>3. \A i \in 0..n - 1 : <<c, i>> \in RowPositions /\ KeyAt(<<c, i>>, isID) = Key(bytes, i, isID)
  BY <1>1, ChunkPositions DEF KeyAt, Key
<1>4. \A p \in RowPositions : /\ p = <<p[1], p[2]>> /\ p[1] \in Nat /\ KeyAt(p, isID) \in Nat
                              /\ p[1] = c => p[2] \in 0..n - 1
  BY <1>1, ChunkPositions, OrderIs
<1>5. KeysIncrease(bytes, isID)
  <2> SUFFICES ASSUME NEW i \in 0..n - 1, NEW j \in 0..n - 1, i < j
               PROVE  Key(bytes, i, isID) < Key(bytes, j, isID)
    BY <1>2 DEF KeysIncrease
  <2> PICK p \in RowPositions : p = <<c, i>>
    BY <1>3
  <2> PICK q \in RowPositions : q = <<c, j>>
    BY <1>3
  <2>1. p[1] = q[1] /\ p[2] < q[2]
    OBVIOUS
  <2>2. KeyAt(p, isID) < KeyAt(q, isID)
    BY <2>1, OrderIs
  <2>3. QED BY <1>3, <2>2
<1>6. IsRowFound(row, bytes, find, isID)
  BY <1>1, <1>2, <1>5, RowIsFound
<1>7. /\ row.index \in 0..n
      /\ \A k \in 0..n - 1 : k < row.index => Key(bytes, k, isID) < find
      /\ \A k \in 0..n - 1 : k > row.index => Key(bytes, k, isID) > find
      /\ row.exact \in BOOLEAN
      /\ row.exact => row.index \in 0..n - 1 /\ Key(bytes, row.index, isID) = find
      /\ ~row.exact => \A k \in 0..n - 1 : k = row.index => Key(bytes, k, isID) > find
  BY <1>1, <1>2, <1>6 DEF IsRowFound
<1>8. \A p \in RowPositions : /\ p[1] < c => KeyAt(p, isID) < find
                              /\ p[1] > c => KeyAt(p, isID) > find
  BY DEF AllBelow, AllAbove
<1>9. \A p \in RowPositions : p[1] = c => KeyAt(p, isID) = Key(bytes, p[2], isID)
  BY <1>3, <1>4
<1>10. ASSUME NEW p \in hits PROVE row.exact /\ p = <<c, row.index>>
  <2>1. p \in RowPositions /\ KeyAt(p, isID) = find
    OBVIOUS
  <2>2. p[1] = c
    BY <1>4, <1>8, <2>1
  <2>3. p[2] \in 0..n - 1 /\ Key(bytes, p[2], isID) = find
    BY <1>4, <1>9, <2>1, <2>2
  <2>4. p[2] = row.index
    BY <1>7, <2>3
  <2>5. row.exact
    BY <1>7, <2>3, <2>4
  <2>6. QED BY <1>4, <2>1, <2>2, <2>4, <2>5
<1>11. row.exact => <<c, row.index>> \in hits
  BY <1>3, <1>7
<1>12. row.exact = (hits # {}) /\ (row.exact => hits = {<<c, row.index>>})
  <2>1. CASE row.exact
    BY <1>10, <1>11, <2>1, <1>7
  <2>2. CASE ~row.exact
    BY <1>7, <1>10, <2>2
  <2>3. QED BY <2>1, <2>2
<1>13. row.index = Cardinality({ p \in below : p[1] = c })
  <2> PICK m \in Nat : m = row.index
    BY <1>7
  <2> PICK here : here = { p \in below : p[1] = c }
    OBVIOUS
  <2>1. here = {c} \X (0..m - 1)
    <3>1. ASSUME NEW p \in below, p[1] = c PROVE p \in {c} \X (0..m - 1)
      <4>1. /\ p \in RowPositions /\ p[2] \in 0..n - 1
            /\ Key(bytes, p[2], isID) \in Nat /\ Key(bytes, p[2], isID) < find
        <5>1. p \in RowPositions /\ KeyAt(p, isID) < find
          OBVIOUS
        <5>2. QED BY <1>4, <1>9, <3>1, <5>1
      <4>2. p[2] < m
        <5>1. CASE p[2] = m
          BY <1>1, <1>7, <4>1, <5>1
        <5>2. CASE p[2] > m
          BY <1>1, <1>7, <4>1, <5>2
        <5>3. QED BY <4>1, <5>1, <5>2
      <4>3. QED BY <1>4, <3>1, <4>1, <4>2
    <3>2. ASSUME NEW p \in {c} \X (0..m - 1) PROVE p \in below /\ p[1] = c
      <4>1. p = <<c, p[2]>> /\ p[2] \in 0..n - 1 /\ p[2] < m
        BY <1>7, <3>2
      <4>2. p \in RowPositions /\ KeyAt(p, isID) = Key(bytes, p[2], isID)
        BY <1>3, <4>1
      <4>3. QED BY <1>7, <4>1, <4>2
    <3>3. QED BY <3>1, <3>2
  <2>2. IsFiniteSet({c}) /\ Cardinality({c}) = 1
    BY FS_Singleton
  <2>3. IsFiniteSet(0..m - 1) /\ Cardinality(0..m - 1) = m
    <3>1. IsFiniteSet(0..m - 1) /\ Cardinality(0..m - 1) = m - 0
      BY SizeOfInterval
    <3>2. QED BY <3>1
  <2>4. Cardinality({c} \X (0..m - 1)) = Cardinality({c}) * Cardinality(0..m - 1)
    BY <2>2, <2>3, FS_Product
  <2>5. Cardinality(here) = m
    <3> PICK one \in Nat : one = Cardinality({c})
      BY <2>2
    <3> PICK many \in Nat : many = Cardinality(0..m - 1)
      BY <2>3
    <3>1. Cardinality(here) = one * many
      BY <2>1, <2>4
    <3>2. one = 1 /\ many = m
      BY <2>2, <2>3
    <3>3. 1 * m = m
      OBVIOUS
    <3>4. QED BY <3>1, <3>2, <3>3
  <2>6. QED BY <2>5
<1>14. QED BY <1>0, <1>12, <1>13 DEF IsAnswer, InsertsAt

\* Together: what BinarySearch answers.
LEMMA SearchIsRight ==
    ASSUME Inv, IsQuiet, NEW isID \in BOOLEAN, Ordered(isID), NEW find \in Nat,
           NEW result, result = BinarySearch(find, isID), result.pos # "error"
    PROVE  /\ IsAnswer(result.exact, result.chunk, result.index, find, isID)
           /\ result.pos \in {"within", "below"} => InsertsAt(result.chunk, result.index, find, isID)
<1>1. FilesFit /\ CountsFit /\ up /\ ChunksFit /\ StoredRowsAreReachable /\ bottom <= top
  BY RowsAreReachable DEF Inv, IsQuiet, ChunksFit
<1>2. top \in Nat /\ bottom \in Nat
  BY <1>1 DEF CountsFit
<1> PICK found \in FoundIn(bottom..top) : found = binarySearchForChunk(find, isID)
  BY <1>1, SearchInside
<1>3. IsChunkFound(found, find, isID)
  BY <1>1, ChunkIsFound
<1> PICK c \in Nat : c = found.chunk
  BY DEF FoundIn
<1> PICK bytes : bytes = Opened(files, {<<"rows", c>>})[<<"rows", c>>]
  OBVIOUS
<1> PICK row : row = binarySearchForRow(bytes, find, isID)
  OBVIOUS
<1>4. bytes = RowsOf(c)
  BY DEF Opened, RowsOf, RowsIn
<1>5. result = CASE found.pos \in {"error", "empty"} -> NotFound(found.pos)
                 [] found.pos \in {"above", "outside"} ->
                      IF HasRow(bytes, count - 1)
                      THEN [NotFound(found.pos) EXCEPT !.chunk = found.chunk, !.index = count - 1]
                      ELSE NotFound("error")
                 [] found.pos \in {"within", "below"} ->
                      IF HasRow(bytes, 0)
                      THEN [chunk |-> found.chunk, index |-> row.index, exact |-> row.exact,
                            pos |-> found.pos]
                      ELSE NotFound("error")
  BY DEF BinarySearch
<1>6. CASE found.pos \in {"error", "empty"}
  <2>1. result = NotFound(found.pos)
    BY <1>5, <1>6
  <2>2. result.exact = FALSE /\ result.pos = found.pos
    BY <2>1 DEF NotFound
  <2>3. Hits(find, isID) = {}
    BY <1>3, <1>6, <2>2 DEF IsChunkFound, Hits
  <2>4. QED BY <1>6, <2>2, <2>3 DEF IsAnswer
<1>7. CASE found.pos \in {"above", "outside"}
  <2>1. result.exact = FALSE /\ result.pos \in {"above", "outside", "error"}
    BY <1>5, <1>7 DEF NotFound
  <2>2. AllBelow(top + 1, find, isID)
    BY <1>3, <1>7 DEF IsChunkFound
  <2>3. \A p \in RowPositions : p[1] < top + 1
    <3>1. \A p \in RowPositions : p[1] \in Nat /\ (p[1] < top \/ p[1] = top)
      BY <1>1, <1>2, ChunkPositions DEF StoredRowsAreReachable
    <3>2. QED BY <1>2, <3>1
  <2>4. \A p \in RowPositions : KeyAt(p, isID) < find /\ KeyAt(p, isID) \in Nat
    BY <1>1, <2>2, <2>3, OrderIs DEF AllBelow
  <2>5. Hits(find, isID) = {}
    BY <2>4 DEF Hits, KeyAt
  <2>6. QED BY <2>1, <2>5 DEF IsAnswer
<1>8. CASE found.pos \in {"within", "below"}
  <2>1. HasRow(bytes, 0)
    BY <1>5, <1>8 DEF NotFound
  <2>2. result.chunk = c /\ result.index = row.index /\ result.exact = row.exact
    BY <1>5, <1>8, <2>1
  <2>3. AllBelow(c, find, isID) /\ AllAbove(c, find, isID)
    BY <1>3, <1>8 DEF IsChunkFound
  <2>4. NumRows(c) # 0
    <3>1. 0 \in 0..NumRows(c) - 1 /\ NumRows(c) \in Nat
      BY <1>1, <1>4, <2>1, RowFiles
    <3>2. QED BY <3>1
  <2>5. IsAnswer(row.exact, c, row.index, find, isID) /\ InsertsAt(c, row.index, find, isID)
    <3>1. row = binarySearchForRow(RowsOf(c), find, isID)
      BY <1>4
    <3>2. QED BY <1>1, <2>3, <2>4, <3>1, RowInChunk
  <2>6. QED BY <2>2, <2>5
<1>9. QED BY <1>6, <1>7, <1>8 DEF FoundIn

\* In rows that are in order, BinarySearch finds the row it looks for and no other, and
\* otherwise the place it would have, whatever chunks have been deleted and however many
\* rows a failed Add has left uncounted in them.
THEOREM SearchesFindTheirRow == ASSUME FaultsAreApart PROVE Spec => []SearchFindsRow
<1>1. Inv => SearchFindsRow
  <2> SUFFICES ASSUME Inv, NEW isID \in BOOLEAN, NEW find \in 0..MaxAdds + 1,
                      IsQuiet, Ordered(isID), BinarySearch(find, isID).pos # "error"
               PROVE  LET result == BinarySearch(find, isID)
                          hits == { p \in RowPositions : getOrderer(RowAt(p), isID) = find }
                          below == { p \in RowPositions : getOrderer(RowAt(p), isID) < find }
                      IN /\ result.exact = (hits # {})
                         /\ result.exact => hits = {<<result.chunk, result.index>>}
                         /\ result.pos \in {"within", "below"} =>
                               result.index = Cardinality({ p \in below : p[1] = result.chunk })
    BY DEF SearchFindsRow
  <2>1. find \in Nat
    OBVIOUS
  <2> PICK result : result = BinarySearch(find, isID)
    OBVIOUS
  <2>2. /\ IsAnswer(result.exact, result.chunk, result.index, find, isID)
        /\ result.pos \in {"within", "below"} => InsertsAt(result.chunk, result.index, find, isID)
    BY <2>1, SearchIsRight
  <2>3. QED BY <2>2 DEF IsAnswer, InsertsAt, Hits, Below
<1>2. QED BY <1>1, StorageFits, PTL
==============================================================================
