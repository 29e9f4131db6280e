------------------------- MODULE MCLockingScheduler -------------------------
(***************************************************************************)
(* LockingScheduler on a few keys and versions.                            *)
(***************************************************************************)
EXTENDS LockingScheduler

\* Every way to touch at least one key, no key requested twice.
AllFootprints ==
  {f \in FootprintRecord : f.repeated = {} /\ Touched(f) # {}}

\* Lookups, updates of what was read, and copies from one key to another.
SomeFootprints ==
  {f \in AllFootprints : \/ f.writeset = {}
                         \/ f.readset = f.writeset
                         \/ /\ f.readset \cap f.writeset = {}
                            /\ f.readset # {}}

\* The same, and the rename of a file inside one directory (d): the directory
\* is in the writeset twice.
CONSTANT Dir
RenameFootprints ==
  SomeFootprints \cup
    {[readset |-> Key, writeset |-> Key, repeated |-> {Dir}]}
=============================================================================
