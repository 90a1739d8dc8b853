SPECIFICATION Spec
CONSTANTS
  Store = {"environment", "globals"}
  Resettable = {"environment"}
  Key = {"k"}
  MaxTests = 2
  MaxCalls = 2
INVARIANTS
  ScopesKept
  NoBleed
  VerdictJust
  ExchangeConsistent
CHECK_DEADLOCK FALSE
