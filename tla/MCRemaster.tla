----------------------------- MODULE MCRemaster -----------------------------
(***************************************************************************)
(* Remaster with two machines in one replica and one in the other.  An     *)
(* action needs a path of each.  Another one needs the first path alone,   *)
(* or also a path that the first replica keeps: it then asks for the first *)
(* path back if it has been given away.                                    *)
(***************************************************************************)
EXTENDS Remaster

CONSTANTS m1, m2, m3, r1, r2, p, q, s, a1, a2

TwoAndOne == [m \in Machine |-> IF m = m3 THEN r2 ELSE r1]
OtherOfR2 == [x \in Path |-> IF x = q THEN r2 ELSE r1]
Clients   == [a \in Action |-> IF a = a1 THEN m1 ELSE m2]

First   == [a \in Action |-> IF a = a1 THEN {p, q} ELSE {p}]
Rivals  == [a \in Action |-> IF a = a1 THEN {p, q} ELSE {p, s}]

Once  == [a \in Action |-> 1]
Twice == [a \in Action |-> IF a = a1 THEN 2 ELSE 1]

Workloads == {[paths |-> Rivals, rename |-> {}, asks |-> Once],
              [paths |-> First, rename |-> {}, asks |-> Twice],
              [paths |-> First, rename |-> {a1}, asks |-> Twice]}
=============================================================================
