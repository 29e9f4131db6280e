CONSTANTS
  Key = {k1, k2}
  Dir = k1
  Footprint <- RenameFootprints
  NoFootprint = NoFootprint
  MaxVersion = 3
  MaxActiveActions = 3
  MaxRunningActions = 2
SPECIFICATION Spec
INVARIANT NoRepeatedRequest
