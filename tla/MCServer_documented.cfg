CONSTANTS
  AnyMethod = AnyMethod
  Broken = Broken
  Param <- Params
  Length <- PatternLength
  Rank <- PatternRank
  Conn = {c1}
  Request <- AskForMe
  SpecFile <- OneFile
  SidecarFile <- NoSidecar
  HistorySizes = {0}
  MaxRequests = 1
  MaxEdits = 0
  MaxClears = 0
  MaxInputs = 1
  Method <- Methods
  Path <- Paths
  Route <- Routes
  MaxRoutes = 0
  MaxOverrides = 0
SPECIFICATION BothSpec
INVARIANT HistoryAsDocumented
CHECK_DEADLOCK FALSE
