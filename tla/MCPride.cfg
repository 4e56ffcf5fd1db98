CONSTANTS
  Size = 2
  RowAddrs = {7}
  Banks = {b1, b2}
  rh_mitigation = "RFM"
  rfm_act_threshold = 2
  TREFI = 2
  delay_ticks_tRFC = 1
  MaxTick = 5
  MaxAccesses = 7
  num_entries = 3
  window_size = 4
  MaxWindows = 5
  MAX_SIZE = 4
SYMMETRY BankSymmetry
SPECIFICATION MCSpec
INVARIANTS TardinessBound EveryRowAccountedFor IntervalPace
INVARIANTS AnalysisExact PositionsAccountedFor
PROPERTIES IntervalServesEveryBank NoLossBesideSlot OccupancyExact
CHECK_DEADLOCK FALSE
