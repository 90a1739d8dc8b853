CONSTANTS
  Task = {t1, t2, t3}
  PoolSize = 2
  MaxRuns = 2
  MaxCalls = 2
  MaxGen = 1
  Free = Free
  Lost = Lost
SPECIFICATION FairSpec
INVARIANTS ExclusiveSlots NoReuseAfterError LoaderCurrent LostOnlyByDrop
PROPERTIES ImplementsLease EveryCallReturns
CHECK_DEADLOCK FALSE
