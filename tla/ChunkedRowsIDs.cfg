CONSTANTS
  a1 = a1
  a2 = a2
  r1 = r1
  RowsPerChunk = 2
  Adders = {a1, a2}
  Readers = {r1}
  IterateCalls <- Matching
  Cases <- CrashOfANewChunk
SPECIFICATION Spec
INVARIANTS
  IDsIncrease
CHECK_DEADLOCK FALSE
