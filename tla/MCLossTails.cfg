CONSTANTS
  num_entries = 3
  window_size = 4
  MaxWindows = 5
  MAX_SIZE = 3
SPECIFICATION ASpec
INVARIANT TailsTabulated
CHECK_DEADLOCK FALSE
