CONSTANTS
  Size = 3
  MaxInserts = 8
  MaxRemoves = 6
  RowAddrs = {1, 2}
  numEntries = 2
  threshold = 3
  Rows = {r0, r1, r2, r3}
  Row0 = r0
  MAX_ACTS = 8
  MaxResets = 1
SYMMETRY RowSymmetry
SPECIFICATION MCSpec
INVARIANTS CursorsAgree NoPhantomRow
INVARIANTS EstimateBrackets NoMissedAggressor SizedForThreshold
PROPERTY ImplementsFifo
CHECK_DEADLOCK FALSE
