----------------------------- MODULE MCBlockLog -----------------------------
(***************************************************************************)
(* BlockLog on three replicas: two machines in the first, each with a      *)
(* metadata shard, and one in each of the others.                          *)
(***************************************************************************)
EXTENDS BlockLog

CONSTANTS m1, m2, m3, m4, r1, r2, r3, a1, a2, a3

\* m1 and m3 in replica r1, m2 alone in r2 and m4 in r3.
TwoInFirst   == [m \in Machine |-> CASE m = m2 -> r2 [] m = m4 -> r3 [] OTHER -> r1]
AtHome(m)    == [r \in Replica |-> CASE r = r2 -> m2 [] r = r3 -> m4 [] OTHER -> m]
FirstBlucket == [b \in Blucket |-> AtHome(m1)]
TwoShards    == [s \in Shard |-> AtHome(IF s = 1 THEN m1 ELSE m3)]

\* a1 touches both shards, the others one each.
SomeShards == [a \in Action |-> CASE a = a1 -> Shard [] a = a2 -> {2} [] OTHER -> {1}]

\* a1 and a2 are appended on m2, which starts late, in either order, for one
\* block or two; a3 on m4, which may stop: its block has an empty part for m3.
TwoClients == [a \in Action |-> {IF a = a3 THEN m4 ELSE m2}]
=============================================================================
