----------------------- MODULE DeterministicExecution -----------------------
(***************************************************************************)
(* What a Calvin scheduler promises, whatever its locking scheme: the      *)
(* actions of the log may execute concurrently and out of log order, but   *)
(* an action begins only after every earlier action it conflicts with has  *)
(* committed.  SerialScheduler (begin the next one only when all earlier   *)
(* ones are committed) and LockingScheduler are two ways to keep it.       *)
(*                                                                         *)
(* There is nothing to abort and nothing to retry: an accepted action runs *)
(* exactly once, and its place in the order is its version.                *)
(***************************************************************************)
EXTENDS Naturals

CONSTANTS
  Version,    \* versions of the log, a set of naturals
  Footprint,  \* records with the fields readset and writeset
  NoFootprint \* an action not accepted yet

VARIABLES
  log,       \* version -> footprint of the accepted action, or NoFootprint
  begun,     \* versions whose execution has begun (reads done)
  committed  \* versions whose writes are in the store

absVars == <<log, begun, committed>>

Accepted == {v \in Version : log[v] # NoFootprint}

Touched(f) == f.readset \cup f.writeset

\* One of the two writes what the other reads or writes.
Conflict(f, g) ==
  \/ f.writeset \cap Touched(g) # {}
  \/ g.writeset \cap Touched(f) # {}

Predecessors(v) == {w \in Accepted : w < v /\ Conflict(log[w], log[v])}

AbsInit ==
  /\ log = [v \in Version |-> NoFootprint]
  /\ begun = {}
  /\ committed = {}

\* The log is taken in version order.
AbsAccept(v, f) ==
  /\ \A w \in Accepted : w < v
  /\ log' = [log EXCEPT ![v] = f]
  /\ UNCHANGED <<begun, committed>>

AbsBegin(v) ==
  /\ v \in Accepted \ begun
  /\ Predecessors(v) \subseteq committed
  /\ begun' = begun \cup {v}
  /\ UNCHANGED <<log, committed>>

AbsCommit(v) ==
  /\ v \in begun \ committed
  /\ committed' = committed \cup {v}
  /\ UNCHANGED <<log, begun>>

AbsNext ==
  \E v \in Version :
    \/ \E f \in Footprint : AbsAccept(v, f)
    \/ AbsBegin(v)
    \/ AbsCommit(v)

AbsSpec == AbsInit /\ [][AbsNext]_absVars
=============================================================================
