---------------------------- MODULE MCRemoteReads ----------------------------
(***************************************************************************)
(* RemoteReads on three machines.  dir and file are on machines of their   *)
(* own; copy is the path of a file that does not exist at first.           *)
(***************************************************************************)
EXTENDS RemoteReads

CONSTANTS m1, m2, m3, dir, file, copy

SomeMachines == [k \in Key |-> CASE k = dir -> m1 [] k = file -> m2 [] OTHER -> m3]

\* CreateFile(copy), Copy(file, copy) and Erase(file),
\* with the directory as the parent of both.
SomeFootprints ==
  {[readset |-> {dir, copy}, writeset |-> {dir, copy}, required |-> {dir}, deleted |-> {}],
   [readset |-> {file, dir}, writeset |-> {copy, dir}, required |-> {file, dir}, deleted |-> {}],
   [readset |-> {file, dir}, writeset |-> {file, dir}, required |-> {file, dir}, deleted |-> {file}]}
=============================================================================
