CONSTANTS
  Inputs <- SomeInputs
  Shard <- SomeShards
  MaxBytes = 3
SPECIFICATION Spec
CHECK_DEADLOCK FALSE
INVARIANTS Consistent EntriesAreListed
PROPERTIES ClientsAreToldTheTruth OnlyWriteSetChanges ImplementsFileTree
