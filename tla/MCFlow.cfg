CONSTANTS
  Flows <- AllGraphs
  Var = {v, w}
SPECIFICATION RunSpec
INVARIANTS DependenciesFirst SeesDependencies LastCaptureWins NothingLeftRunning
PROPERTIES NothingStartsAfterFailure ImplementsTaskGraph ImplementsFlowRunner FlowEnds
CHECK_DEADLOCK FALSE
