CONSTANTS
  BanksPerRank = 2
  RowsPerBank = 3
  tRCD = 1
  tRP = 1
  tRAS = 2
  Recoveries = {1, 2}
  tRRD = 1
  tCL = 1
  tBURST = 1
  tRFC = 4
  tXAW = 4
  ActivationLimit = 2
  tACT = 2
  BankDelays = {0, 4}
  BusDelay = 1
  Bubbles = {0, 2, 3}
  FetchBubble = 3
  Sources = {"s1", "s2", "s3"}
  Writers = {"s3"}
  RowOf <- MCRowOf
  NumBanks = 2
  ActualThreshold = 14
  BlackListPercent = 50
  Window = 17
  Latencies = {1, 3}
  Wrap = 65536
SPECIFICATION MCSpec
INVARIANTS MitigationKept ThrottledBelowThreshold ActualThresholdKept
PROPERTIES WindowKept RowCycleKept
