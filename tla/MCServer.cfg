CONSTANTS
  AnyMethod = AnyMethod
  Broken = Broken
  Param <- Params
  Length <- PatternLength
  Rank <- PatternRank
  Conn = {c1, c2}
  Request <- Asked
  SpecFile <- SpecFiles
  SidecarFile <- SidecarFiles
  HistorySizes = {0, 2}
  MaxRequests = 3
  MaxEdits = 2
  MaxClears = 1
  MaxInputs = 3
  Method <- Methods
  Path <- Paths
  Route <- Routes
  MaxRoutes = 3
  MaxOverrides = 1
SPECIFICATION FairBothSpec
INVARIANTS HistoryIsTheTail RoundRobinIsFair HistoryIsConsistent
  FindsTheDecidingRoute
PROPERTIES WatcherConverges OverrideTakesEffect
CHECK_DEADLOCK FALSE
