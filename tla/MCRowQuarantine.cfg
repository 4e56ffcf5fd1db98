SPECIFICATION Spec
CONSTANTS
  numRows = 4
  numQREntries = 3
  rows_per_btv_bit = 2
  m_ways = 2
  drain_cache_miss_threshold = 2
  None = None
  MaxMoves = 6
  MaxResets = 2
INVARIANT TablesConsistent
INVARIANT CacheAnswersTrue
INVARIANT FreshStaysQuarantined
