------------------------------- MODULE RowLog --------------------------------
(***************************************************************************)
(* What zchunkedrows.ChunkedRows promises of the rows on disk, whatever    *)
(* chunks and files they are in: a log that grows at its end, one row at a *)
(* time, and is cut at its beginning.  A crash and a restart change        *)
(* nothing.                                                                *)
(***************************************************************************)
EXTENDS Naturals, Sequences, SequencesExt

CONSTANT Rows

VARIABLE log

Init == log \in Seq(Rows)

Add ==
    /\ log' # << >>
    /\ Front(log') = log
    /\ Last(log') \in Rows

DeleteOldest ==
    /\ Len(log') < Len(log)
    /\ log' = SubSeq(log, Len(log) - Len(log') + 1, Len(log))

Next == Add \/ DeleteOldest

Spec == Init /\ [][Next]_log
==============================================================================
