------------------------------- MODULE LogFiles -------------------------------
(***************************************************************************)
(* zfile and zfilelog on one log file: AppendToFile, the backup of         *)
(* PeriodicFileBackup, TruncateFile, which writes its new file with        *)
(* WriteToFileAtomically, and readers that page backwards through the file *)
(* with ReadLastLine.  None of them locks: each is a few calls of the      *)
(* system, and others come between them.  A file is its bytes; a name can  *)
(* be given to another file while someone has the old one open.            *)
(***************************************************************************)
EXTENDS Integers, Sequences, FiniteSets

CONSTANT Appenders  \* goroutines that append to the log

VARIABLES
    logFiles,  \* the bytes of each file that has had the log's name
    logName,   \* the file that has it now
    backup,    \* the bytes of the file with suffixForOld, or NoFileYet
    temp,      \* the bytes of WriteToFileAtomically's file
    keeper,    \* the step the backup or the truncation is at, and what it found
    opened,    \* the file each appender has open, NotOpen if none
    written,   \* lines appended
    risked,    \* lines written when they could not be kept
    oldest,    \* older lines than this may be gone
    reader     \* the text of the lines read, the position, the file open, if it was cut since the first

logVars == <<logFiles, logName, backup, temp, keeper, opened, written, risked, oldest, reader>>

MaxLines == 3      \* lines appended (a bound)
MaxBackup == 6     \* maxMB
MaxBytes == 5
Kept == 4          \* maxBytes * reduce
NewLine == 0
Nul == -1          \* what is read after the end of a file
NotOpen == 0
NoFileYet == <<NewLine>>
Line(n) == <<n, n, NewLine>>
Waiting == [step |-> "idle", from |-> 0, file |-> 0]
NotReading == [text |-> <<>>, start |-> 0, pos |-> 0, file |-> NotOpen, steady |-> TRUE, endless |-> FALSE]

LogFile == logFiles[logName]
LinesIn(bytes) == {n \in 1..MaxLines : \E i \in 1..(Len(bytes) - 2) : SubSeq(bytes, i, i + 2) = Line(n)}

LogInit ==
    /\ logFiles = <<<<>>>> /\ logName = 1 /\ backup = NoFileYet /\ temp = <<>> /\ keeper = Waiting
    /\ opened = [u \in Appenders |-> NotOpen] /\ written = 0 /\ risked = {} /\ oldest = 1
    /\ reader = NotReading

\* AppendToFile: the file is opened by its name, and then written to.
OpenToAppend(u) ==
    /\ opened[u] = NotOpen /\ written < MaxLines
    /\ opened' = [opened EXCEPT ![u] = logName]
    /\ UNCHANGED <<logFiles, logName, backup, temp, keeper, written, risked, oldest, reader>>
AppendToFile(u) ==
    /\ opened[u] # NotOpen /\ written < MaxLines
    /\ written' = written + 1
    /\ logFiles' = [logFiles EXCEPT ![opened[u]] = @ \o Line(written')]
    /\ opened' = [opened EXCEPT ![u] = NotOpen]
    /\ risked' = IF keeper.step \in {"truncate", "rename"} \/ opened[u] # logName
                 THEN risked \union {written'} ELSE risked
    /\ UNCHANGED <<logName, backup, temp, keeper, oldest, reader>>

At(step) == keeper.step = step
StepIs(step) == keeper' = [keeper EXCEPT !.step = step]

\* PeriodicFileBackup: the old backup is removed, a copy made, and the log emptied.
RemoveOldBackup ==
    /\ At("idle") /\ Len(LogFile) >= MaxBackup
    /\ backup' = NoFileYet
    /\ oldest' = CHOOSE n \in LinesIn(LogFile) : \A m \in LinesIn(LogFile) : n <= m
    /\ StepIs("copy")
    /\ UNCHANGED <<logFiles, logName, temp, opened, written, risked, reader>>
\* CopyFile: an error leaves a part of the copy, and the log as it is.
CopyFile ==
    /\ At("copy")
    /\ \/ backup' = LogFile /\ StepIs("truncate")
       \/ \E n \in 0..2 : backup' = SubSeq(LogFile, 1, n) /\ StepIs("idle")
    /\ UNCHANGED <<logFiles, logName, temp, opened, written, risked, oldest, reader>>
TruncateLog ==
    /\ At("truncate")
    /\ logFiles' = [logFiles EXCEPT ![logName] = <<>>]
    /\ keeper' = Waiting /\ reader' = [reader EXCEPT !.steady = FALSE]
    /\ UNCHANGED <<logName, backup, temp, opened, written, risked, oldest>>

\* TruncateFile: where to copy from follows from the size, then the file is opened.
TruncateFile ==
    /\ At("idle") /\ Len(LogFile) > MaxBytes
    /\ keeper' = [step |-> "write", from |-> Len(LogFile) - Kept, file |-> logName]
    /\ UNCHANGED <<logFiles, logName, backup, temp, opened, written, risked, oldest, reader>>
\* WriteToFileAtomically: what could not be written whole is removed, never renamed.
WriteTemp ==
    /\ At("write")
    /\ LET all == logFiles[keeper.file] IN
       \/ temp' = SubSeq(all, keeper.from + 1, Len(all)) /\ StepIs("rename")
       \/ temp' = <<>> /\ keeper' = Waiting
    /\ UNCHANGED <<logFiles, logName, backup, opened, written, risked, oldest, reader>>
RenameTemp ==
    /\ At("rename")
    /\ logFiles' = Append(logFiles, temp) /\ logName' = Len(logFiles) + 1 /\ temp' = <<>>
    /\ oldest' = CHOOSE n \in LinesIn(temp) : \A m \in LinesIn(temp) : n <= m
    /\ keeper' = Waiting /\ reader' = [reader EXCEPT !.steady = FALSE]
    /\ UNCHANGED <<backup, opened, written, risked>>

\* The program ends; the file that was not renamed stays, but nothing uses it again.
LogCrash ==
    /\ keeper' = Waiting /\ opened' = [u \in Appenders |-> NotOpen] /\ reader' = NotReading
    /\ temp' = <<>>
    /\ UNCHANGED <<logFiles, logName, backup, written, risked, oldest>>

ByteAt(bytes, i) == IF i < Len(bytes) THEN bytes[i + 1] ELSE Nul
IsText(bytes, i) == ByteAt(bytes, i) # NewLine
LastOf(positions) == CHOOSE i \in positions : \A j \in positions : j <= i

(* ReadLastLine of bytes before end: new lines are passed, then the line   *)
(* is read, and the new lines before it are passed too.  It goes on below  *)
(* the start of the file, and never ends, if there is no line at all.      *)
NoLine == [endless |-> TRUE]
ReadLastLine(bytes, end) ==
    LET text == {i \in 0..(end - 1) : IsText(bytes, i)}
        last == LastOf(text)
        breaks == {i \in 0..last : ~IsText(bytes, i)}
        first == IF breaks = {} THEN 0 ELSE LastOf(breaks) + 1
        before == {i \in text : i < first}
    IN IF text = {} THEN NoLine
       ELSE [endless |-> FALSE, line |-> [i \in 1..(last - first + 1) |-> ByteAt(bytes, first + i - 1)],
             newpos |-> IF before = {} THEN 0 ELSE LastOf(before) + 1]

\* ReadFromLogAtPosition: each line opens the file anew; zero is the end of it.
OpenToRead ==
    /\ reader.file = NotOpen /\ (reader.pos # 0 \/ reader.text = <<>>)
    /\ LET end == IF reader.pos = 0 THEN Len(LogFile) ELSE reader.pos
       IN reader' = [reader EXCEPT !.file = logName, !.pos = end, !.start = IF reader.text = <<>> THEN end ELSE @,
                                   !.steady = @ \/ reader.text = <<>>]
    /\ UNCHANGED <<logFiles, logName, backup, temp, keeper, opened, written, risked, oldest>>
ReadLine ==
    /\ reader.file # NotOpen /\ ~reader.endless
    /\ LET read == ReadLastLine(logFiles[reader.file], reader.pos)
       IN reader' = IF read.endless THEN [reader EXCEPT !.endless = TRUE]
                    ELSE [reader EXCEPT !.text = read.line \o @, !.pos = read.newpos, !.file = NotOpen]
    /\ UNCHANGED <<logFiles, logName, backup, temp, keeper, opened, written, risked, oldest>>

LogNext ==
    \/ \E u \in Appenders : OpenToAppend(u) \/ AppendToFile(u)
    \/ RemoveOldBackup \/ CopyFile \/ TruncateLog
    \/ TruncateFile \/ WriteTemp \/ RenameTemp \/ LogCrash
    \/ OpenToRead \/ ReadLine
-----------------------------------------------------------------------------
(* A line is in the log or its backup, unless it was written between a     *)
(* copy and the step that puts it in the log's place, or was older than    *)
(* all the log had when its backup was removed or than what was cut off.   *)
LinesAreKept == \A n \in oldest..written : n \notin risked => n \in LinesIn(LogFile) \union LinesIn(backup)

(* The log has whole lines in the order they were written, after the rest  *)
(* of a line that TruncateFile cut; only risked lines are missing between. *)
LogIsInOrder ==
    LET lines == LinesIn(LogFile)
        rest == Len(LogFile) - 3 * Cardinality(lines)
    IN /\ rest \in 0..2
       /\ \A i \in (rest + 1)..Len(LogFile) :
             LogFile[i] = NewLine <=> (i - rest) % 3 = 0
       /\ \A i, j \in (rest + 1)..Len(LogFile) :
             i < j /\ NewLine \notin {LogFile[i], LogFile[j]} => LogFile[i] <= LogFile[j]
       /\ \A n, m \in lines : \A k \in n..m : k \in lines \union risked

(* The lines of the pages read one after the other are the text that is    *)
(* before the first position, none left out and none read twice, however   *)
(* much was appended; if the log was cut meanwhile nothing is promised.    *)
Before(byte, text) == IF byte = NewLine THEN text ELSE <<byte>> \o text
Text(bytes, from, to) ==
    LET text[n \in 0..(to - from)] == IF n = 0 THEN <<>> ELSE Before(bytes[to - n + 1], text[n - 1])
    IN text[to - from]
PagesContinue ==
    reader.text # <<>> /\ reader.steady /\ reader.file = NotOpen =>
        reader.text = Text(LogFile, reader.pos, reader.start)

LogsAreKept == LinesAreKept /\ LogIsInOrder /\ PagesContinue
==============================================================================
