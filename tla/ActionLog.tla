----------------------------- MODULE ActionLog -----------------------------
(***************************************************************************)
(* What the block log promises to the schedulers: there is one global log  *)
(* of actions with increasing versions, each action in it once, and every  *)
(* metadata machine is handed the actions that concern it, in log order,   *)
(* none left out and none twice.                                           *)
(***************************************************************************)
EXTENDS Naturals, Sequences

CONSTANTS
  Action,    \* what clients append
  Reader,    \* the machines with metadata shards
  Concerns   \* reader -> the actions that touch its shards

VARIABLES
  log,       \* the actions sequenced so far, with their versions, their order
  handed     \* reader -> what its action source has returned

absVars == <<log, handed>>

LoggedAction == [action : Action, version : Nat]

\* One version, one action, and the other way round.
OneToOne(S) == \A e, f \in S : e.version = f.version <=> e.action = f.action

\* What reader m has not been handed of its actions.
Left(m) ==
  {e \in log : e.action \in Concerns[m] /\ \A i \in DOMAIN handed[m] : handed[m][i] # e}

AbsInit == log = {} /\ handed = [m \in Reader |-> << >>]

\* Some blocks of actions are added at the end of the log.
Extend ==
  /\ UNCHANGED handed
  /\ log' # log /\ log \subseteq log' /\ log' \subseteq LoggedAction
  /\ OneToOne(log')
  /\ \A e \in log, f \in log' \ log : e.version < f.version

\* The first action of those that are left.
HandNext(m) ==
  /\ \E e \in Left(m) :
       /\ \A f \in Left(m) : e.version <= f.version
       /\ handed' = [handed EXCEPT ![m] = Append(@, e)]
  /\ UNCHANGED log

AbsNext == Extend \/ \E m \in Reader : HandNext(m)

AbsSpec == AbsInit /\ [][AbsNext]_absVars
=============================================================================
