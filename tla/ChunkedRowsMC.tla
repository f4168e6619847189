---------------------------- MODULE ChunkedRowsMC ----------------------------
(* Values of the constants of ChunkedRows for TLC. *)
EXTENDS ChunkedRows, TLC

CONSTANTS a1, a2, r1

Call(chunk, index, forward, match) ==
    [chunk |-> chunk, index |-> index, forward |-> forward, match |-> match]
FromBottom == Call(-1, 0, TRUE, FALSE)
FromTop == Call(-1, -1, FALSE, FALSE)
Matching == {Call(-1, 0, TRUE, TRUE)}
AllCalls == {FromBottom, FromTop, Call(1, 0, TRUE, FALSE)} \cup Matching

Case(rows, calls, mayHappen) == [rows |-> rows, adds |-> calls, faults |-> mayHappen]
OneFaultAtATime ==
    {Case(4, 1, {"delete"}), Case(1, 2, {"open", "writeLine"}), Case(1, 2, {"crash"}),
     Case(0, 1, {"crash"})}
CrashOfANewChunk == {Case(2, 2, {"crash"})}
==============================================================================
