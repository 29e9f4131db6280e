------------------------------ MODULE FileTree ------------------------------
(***************************************************************************)
(* What the metadata store promises: a tree of directories and data files, *)
(* on which every operation takes effect as a whole or fails.  A file is   *)
(* the sequence of its bytes; how the bytes are cut into parts, and how a  *)
(* directory lists its files, is left to the store.                        *)
(***************************************************************************)
EXTENDS Integers, SequencesExt

CONSTANTS
  Actions, \* operations that may be run
  Root,    \* the path of the root directory, the empty sequence
  BytesOf  \* BytesOf(data): the bytes that an APPEND adds

VARIABLES
  tree,    \* path -> [type, bytes]
  last     \* the last operation, and whether it succeeded

vars == <<tree, last>>

Parent(p)   == Front(p)
Has(p)      == p \in DOMAIN tree
Children(p) == {q \in DOMAIN tree \ {Root} : Parent(q) = p}
IsData(p)   == Has(p) /\ tree[p].type = "DATA"
Free(p)     == Has(Parent(p)) /\ ~ Has(p)

Success(a) ==
  \/ a.type = "CREATE_FILE" /\ Free(a.path)
  \/ a.type = "ERASE" /\ Has(Parent(a.path)) /\ Has(a.path) /\ Children(a.path) = {}
  \/ a.type \in {"COPY", "RENAME"} /\ Has(a.path) /\ Free(a.to)
  \/ a.type \in {"RESIZE", "APPEND"} /\ IsData(a.path)

\* The first n bytes, or all of them and zeros.
Resized(bytes, n, zero) ==
  [i \in 1 .. n |-> IF i <= Len(bytes) THEN bytes[i] ELSE zero]

With(p, file) == [q \in DOMAIN tree \cup {p} |-> IF q = p THEN file ELSE tree[q]]
Without(t, p) == [q \in DOMAIN t \ {p} |-> t[q]]

Effect(a) ==
  CASE a.type = "CREATE_FILE" -> With(a.path, [type |-> a.kind, bytes |-> << >>])
    [] a.type = "ERASE"       -> Without(tree, a.path)
    [] a.type = "COPY"        -> With(a.to, tree[a.path])
    [] a.type = "RENAME"      -> Without(With(a.to, tree[a.path]), a.path)
    [] a.type = "RESIZE"      -> With(a.path, [tree[a.path] EXCEPT !.bytes = Resized(@, a.size, <<0, 0>>)])
    [] a.type = "APPEND"      -> With(a.path, [tree[a.path] EXCEPT !.bytes = @ \o BytesOf[a.data]])

Do(a) ==
  /\ last' = [action |-> a, success |-> Success(a)]
  /\ tree' = IF Success(a) THEN Effect(a) ELSE tree

Init ==
  /\ tree = [p \in {Root} |-> [type |-> "DIR", bytes |-> << >>]]
  /\ last = [action |-> [type |-> "NONE"], success |-> TRUE]

Next == \E a \in Actions : Do(a)

Spec == Init /\ [][Next]_vars
=============================================================================
