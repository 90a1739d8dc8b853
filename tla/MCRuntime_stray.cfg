CONSTANTS
  MaxRun = 2
  Trusted = FALSE
  Resource <- OneResource
  Limit = 0
  MaxLogLines = 1
  MaxPrints = 0
SPECIFICATION Spec
INVARIANT NoStrayKill
CHECK_DEADLOCK FALSE
