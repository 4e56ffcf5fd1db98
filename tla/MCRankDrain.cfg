SPECIFICATION FairSpec
CONSTANTS
  RanksPerChannel = 1
  BanksPerRank = 2
  tCK = 1
  tRCD = 1
  tRP = 1
  tRAS = 2
  tRTP = 1
  tWR = 1
  tRRD = 1
  tBURST = 1
  tRFC = 5
  tXP = 1
  tXS = 2
  tDATA = 4
  Setups <- MCDrainAsleep
  BubbleCap = 78
  BubbleLimit = 70
INVARIANT NothingFails
