CONSTANTS
  Key = {k1, k2}
  Dir = k1
  Footprint <- SomeFootprints
  NoFootprint = NoFootprint
  MaxVersion = 3
  MaxActiveActions = 3
  MaxRunningActions = 2
SPECIFICATION FairSpec
INVARIANTS Consistent ReadsAreSerial SafeVersionIsSafe
PROPERTIES SnapshotsAreStable ExecutesDeterministically SafeVersionCatchesUp
