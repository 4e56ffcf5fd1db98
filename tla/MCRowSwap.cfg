CONSTANTS
  numEntries = 2
  threshold = 1
  Rows = {0, 1, 2, 3, 4, 5, 6, 7, 8, 9, 10}
  Row0 = 0
  numTuples = 5
  MAX_ACTS = 2
  MaxResets = 2
  Draw <- LeastOf
SPECIFICATION Spec
INVARIANTS SwapsPairUp TuplesFit FlaggedStaysSwapped RowAlwaysFound
PROPERTY MovesOnFlag
CHECK_DEADLOCK FALSE
