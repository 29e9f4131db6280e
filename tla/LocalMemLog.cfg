CONSTANTS
  Reader = {r1, r2}
  InitialSize = 1
  FirstVersions = {1}
  MaxVersion = 5
SPECIFICATION LogSpec
CHECK_DEADLOCK FALSE
SYMMETRY Symmetry
INVARIANTS LogIsConsistent ReadersExposeTheLog SeekFindsFirst
