CONSTANTS
  m1 = m1
  m2 = m2
  m3 = m3
  dir = dir
  file = file
  copy = copy
  Machine = {m1, m2, m3}
  Key = {dir, file, copy}
  MachineOf <- SomeMachines
  Existing = {dir, file}
  Footprint <- SomeFootprints
  MaxVersion = 3
  MaxActiveActions = 2
SPECIFICATION FairSpec
CHECK_DEADLOCK FALSE
INVARIANTS Consistent WritersReadSerially StoreIsSerial
PROPERTY EveryActionCompletes
