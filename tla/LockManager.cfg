CONSTANTS
  Action = {a1, a2, a3, a4}
  Key = {k1, k2}
  NoAction = NoAction
SPECIFICATION Spec
SYMMETRY Symmetry
INVARIANTS Consistent GrantsMatchQueue ReadyHoldsAllLocks
PROPERTY GrantsAreStable
