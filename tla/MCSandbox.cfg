CONSTANTS
  MaxTimers = 2
  MaxIntervalCalls = 2
  MaxCall = 2
  MaxStreamed = 1
  MaxSetup = 1
  Isolation = {"Trusted", "PowerUser", "Untrusted"}
SPECIFICATION FairSpec
INVARIANTS CallbacksJustified RunsSeeTheSetup WorkerAnswerFaithful
PROPERTIES SilentAfterClear NothingLingers
CHECK_DEADLOCK FALSE
