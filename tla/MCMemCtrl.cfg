SPECIFICATION FairSpec
CONSTANTS
  Requests = {"rs", "ra", "ws", "wt"}
  Writes = {"ws", "wt"}
  Workloads <- MCWorkloads
  Pieces <- MCPieces
  RanksPerChannel = 2
  RankOf <- MCRankOf
  ReadBufferSize = 2
  WriteBufferSize = 3
  WriteHighThreshold = 2
  WriteLowThreshold = 1
  MinWritesPerSwitch = 1
INVARIANT QueuesConsistent
INVARIANT NeverSleepsOnWork
INVARIANT RetryRemembered
PROPERTY ImplementsService
PROPERTY EveryRequestAnswered
PROPERTY DrainCompletes
