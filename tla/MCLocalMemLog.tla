--------------------------- MODULE MCLocalMemLog ---------------------------
(***************************************************************************)
(* LocalMemLog with two readers that are alike.                            *)
(***************************************************************************)
EXTENDS LocalMemLog, TLC

Symmetry == Permutations(Reader)
=============================================================================
