SPECIFICATION FairSpec
CONSTANTS
  RanksPerChannel = 2
  BanksPerRank = 2
  tCK = 1
  tRCD = 1
  tRP = 1
  tRAS = 2
  tRTP = 1
  tWR = 1
  tRRD = 1
  tBURST = 1
  tRFC = 5
  tXP = 1
  tXS = 2
  tDATA = 4
  Setups <- MCPlain
  BubbleCap = 78
  BubbleLimit = 70
PROPERTY RefreshedForever
