CONSTANTS
  MaxRun = 2
  Trusted = FALSE
  Resource <- OneResource
  Limit = 1
  MaxLogLines = 1
  MaxPrints = 2
SPECIFICATION FairSpec
INVARIANTS VerdictFaithful StrayKillIsLateWatchdog
PROPERTY EveryRunEnds
CHECK_DEADLOCK FALSE
