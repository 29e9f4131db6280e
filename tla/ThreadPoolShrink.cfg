CONSTANTS
  r1 = r1
  r2 = r2
  r3 = r3
  r4 = r4
  Request = {r1, r2, r4}
  PoolOf <- SomePools
  Scenario <- WaitingScenarios
  Batch = 2
  MaxThreads <- SomeThreads
SPECIFICATION Spec
CHECK_DEADLOCK FALSE
INVARIANT NoDeadlock
