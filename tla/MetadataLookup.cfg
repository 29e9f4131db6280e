CONSTANTS
  Inputs <- SomeInputs
  Shard <- SomeShards
  MaxBytes = 3
SPECIFICATION Spec
CHECK_DEADLOCK FALSE
INVARIANT LookupsAreAnswered
