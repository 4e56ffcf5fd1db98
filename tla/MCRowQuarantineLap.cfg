SPECIFICATION Spec
CONSTANTS
  numRows = 2
  numQREntries = 2
  rows_per_btv_bit = 2
  m_ways = 2
  drain_cache_miss_threshold = 2
  None = None
  MaxMoves = 4
  MaxResets = 1
PROPERTY FlaggedIsQuarantined
