CONSTANTS
  r1 = r1
  r2 = r2
  r3 = r3
  r4 = r4
  Request = {r1, r2, r3}
  PoolOf <- SomePools
  Scenario <- SafeScenarios
  Batch = 2
  MaxThreads <- SomeThreads
SPECIFICATION FairSpec
CHECK_DEADLOCK FALSE
INVARIANTS Consistent PoolKeepsAThread
PROPERTIES EveryRequestIsHandled DestructorEnds
