------------------------------ MODULE MCPaxos2 ------------------------------
(***************************************************************************)
(* Paxos2 with the leader and two followers.                               *)
(***************************************************************************)
EXTENDS Paxos2

CONSTANTS r1, r2

\* One block holds two actions.
SomeCounts == [r \in Request |-> IF r = r2 THEN 2 ELSE 1]
=============================================================================
