---------------------------- MODULE SequencedLog ----------------------------
(***************************************************************************)
(* What the metalog promises: one sequence of entries, chosen once and for *)
(* all in one order, of which every participant learns a growing prefix.   *)
(* An entry carries a version and a batch of the requests submitted with   *)
(* Append; a request is in at most one entry.                              *)
(***************************************************************************)
EXTENDS Naturals, Sequences

CONSTANTS Participant, Request

VARIABLES
  chosen,   \* the entries chosen so far
  learned   \* participant -> how many of them are in its log

absVars == <<chosen, learned>>

Entry == [version : Nat, pairs : Seq(Request)]

InEntry(e, r) == \E i \in DOMAIN e.pairs : e.pairs[i] = r

AbsInit == chosen = << >> /\ learned = [p \in Participant |-> 0]

\* A new entry has a higher version than every chosen one and brings new
\* requests only.
Choose(e) ==
  /\ e \in Entry
  /\ \A i \in DOMAIN chosen :
       /\ chosen[i].version < e.version
       /\ \A j \in DOMAIN e.pairs : ~ InEntry(chosen[i], e.pairs[j])
  /\ chosen' = Append(chosen, e)
  /\ UNCHANGED learned

\* A participant appends the next chosen entry to its log.
Learn(p) ==
  /\ learned[p] < Len(chosen)
  /\ learned' = [learned EXCEPT ![p] = @ + 1]
  /\ UNCHANGED chosen

\* (The entry is not quantified over the set Entry, which is infinite.)
AbsNext ==
  \/ Len(chosen') = Len(chosen) + 1 /\ Choose(chosen'[Len(chosen')])
  \/ \E p \in Participant : Learn(p)

AbsSpec == AbsInit /\ [][AbsNext]_absVars
=============================================================================
