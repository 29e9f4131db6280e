--------------------------- MODULE MCLockManager ---------------------------
(***************************************************************************)
(* LockManager for four actions and two keys.  Actions and keys are       *)
(* interchangeable.                                                        *)
(***************************************************************************)
EXTENDS LockManager, TLC

Symmetry == Permutations(Action) \cup Permutations(Key)
============================================================================
