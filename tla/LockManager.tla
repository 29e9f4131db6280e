---------------------------- MODULE LockManager ----------------------------
(***************************************************************************)
(* The LockManager of components/scheduler/lock_manager.cc, one action per *)
(* call, driven by any caller that keeps to the header's requirement: an   *)
(* action asks for a key at most once, and (as in both loops of            *)
(* LockingScheduler::MainLoopBody) makes all its requests before the next  *)
(* action makes any.  Callers may also do what the scheduler never does:   *)
(* release a lock that is still pending, which cancels the request.        *)
(*                                                                         *)
(* granted, called, current and cancelled are history: what the return     *)
(* values and the hand-overs have told the callers so far.                 *)
(***************************************************************************)
EXTENDS LockTable, FiniteSets

CONSTANTS Action, Key, NoAction

ASSUME LockManagerAssumption == /\ IsFiniteSet(Key)
                                /\ NoAction \notin Action

VARIABLES
  lockTable,  \* lock_table_: key -> deque of requests, << >> for no entry
  waiting,    \* waiting_: action -> requests it waits for, 0 for no entry
  ready,      \* ready_: actions whose last pending request was granted
  called,     \* pairs <<a, k>> for which ReadLock or WriteLock was called
  granted,    \* pairs <<a, k>> the manager granted and a has not released
  current,    \* the action whose requests are being made
  cancelled   \* actions that released a pending request

vars == <<lockTable, waiting, ready, called, granted, current, cancelled>>

TypeOK ==
  /\ lockTable \in [Key -> Seq(LockRequest(Action))]
  /\ waiting \in [Action -> Nat]
  /\ ready \in Seq(Action)
  /\ called \in SUBSET (Action \X Key)
  /\ granted \in SUBSET (Action \X Key)
  /\ current \in Action \cup {NoAction}
  /\ cancelled \in SUBSET Action

Init ==
  /\ lockTable = [k \in Key |-> << >>]
  /\ waiting = [a \in Action |-> 0]
  /\ ready = << >>
  /\ called = {}
  /\ granted = {}
  /\ current = NoAction
  /\ cancelled = {}

----------------------------------------------------------------------------
\* The caller's side of the contract.
MayRequest(a, k) ==
  /\ <<a, k>> \notin called
  /\ a = current \/ \A l \in Key : <<a, l>> \notin called

\* (Mutant of Request: every ungranted request sets the wait count to one.)
RequestOverwritesCount(a, k, mode) ==
  /\ MayRequest(a, k)
  /\ lockTable' = [lockTable EXCEPT ![k] = Append(@, [action |-> a, mode |-> mode])]
  /\ IF GrantedOnPush(lockTable[k], mode)
     THEN granted' = granted \cup {<<a, k>>} /\ waiting' = waiting
     ELSE granted' = granted /\ waiting' = [waiting EXCEPT ![a] = 1]
  /\ called' = called \cup {<<a, k>>}
  /\ current' = a
  /\ UNCHANGED <<ready, cancelled>>

\* WriteLock and ReadLock: push the request; grant it or count it as waiting.
Request(a, k, mode) ==
  /\ MayRequest(a, k)
  /\ lockTable' = [lockTable EXCEPT ![k] = Append(@, [action |-> a, mode |-> mode])]
  /\ IF GrantedOnPush(lockTable[k], mode)
     THEN granted' = granted \cup {<<a, k>>} /\ waiting' = waiting
     ELSE granted' = granted /\ waiting' = [waiting EXCEPT ![a] = @ + 1]
  /\ called' = called \cup {<<a, k>>}
  /\ current' = a
  /\ UNCHANGED <<ready, cancelled>>

WriteLock(a, k) == Request(a, k, EXCLUSIVE)
ReadLock(a, k)  == Request(a, k, SHARED)

\* Release finds nothing to erase: no entry for k, or no request of a in it.
ReleaseNothing(a, k) ==
  /\ ~ Requested(lockTable[k], a)
  /\ current' = NoAction
  /\ UNCHANGED <<lockTable, waiting, ready, called, granted, cancelled>>

\* The sequence of the actions in A by the place of their requests in q.
InQueueOrder(q, A) ==
  {s \in [1 .. Cardinality(A) -> A] :
     \A i, j \in DOMAIN s : i < j => Target(q, s[i]) < Target(q, s[j])}

\* The inheritors that wait for no other lock, in queue order.
\* (Mutant: all inheritors.)
WakeEveryHeir(q, new) == InQueueOrder(q, new)

Woken(q, new) == InQueueOrder(q, {b \in new : waiting[b] = 1})

\* Release erases a's request, hands the lock over, and moves every action
\* that now waits for nothing to ready_, in queue order.
ReleaseRequest(a, k) ==
  LET q == lockTable[k]
      new == NewOwners(q, Target(q, a))
  IN  /\ Requested(q, a)
      /\ lockTable' = [lockTable EXCEPT ![k] = Erase(q, Target(q, a))]
      /\ waiting' = [b \in Action |-> IF b \in new THEN waiting[b] - 1 ELSE waiting[b]]
      /\ \E woken \in Woken(q, new) : ready' = ready \o woken
      /\ granted' = (granted \ {<<a, k>>}) \cup {<<b, k>> : b \in new}
      /\ cancelled' = IF <<a, k>> \in granted THEN cancelled ELSE cancelled \cup {a}
      /\ current' = NoAction
      /\ UNCHANGED called

Release(a, k) == ReleaseNothing(a, k) \/ ReleaseRequest(a, k)

\* Ready returns the oldest action it has not returned yet.
Ready ==
  /\ ready # << >>
  /\ ready' = Tail(ready)
  /\ UNCHANGED <<lockTable, waiting, called, granted, current, cancelled>>

Next ==
  \/ \E a \in Action, k \in Key : WriteLock(a, k) \/ ReadLock(a, k) \/ Release(a, k)
  \/ Ready

Spec == Init /\ [][Next]_vars

----------------------------------------------------------------------------
\* The grants the manager has announced, call by call, are exactly the owners
\* that the header reads off the queue: the first request if it is EXCLUSIVE,
\* else the longest SHARED prefix.  Erasing a request anywhere in the deque,
\* a pending one included, neither loses nor invents a grant.
GrantsMatchQueue ==
  granted = UNION {Owners(lockTable[k]) \X {k} : k \in Key}

\* An action that cancelled nothing waits for as many locks as it has
\* requests that are not granted, so it becomes ready with its last lock and
\* not before; and nobody inherits a lock who is not waiting for one (the
\* CHECK in Release).
PendingKeys(a) == {k \in Key : Requested(lockTable[k], a) /\ <<a, k>> \notin granted}

WaitingCountsPending ==
  \A a \in Action :
    /\ waiting[a] >= Cardinality(PendingKeys(a))
    /\ a \notin cancelled => waiting[a] = Cardinality(PendingKeys(a))

\* The variables have their types and the wait counters are exact.
Consistent == TypeOK /\ WaitingCountsPending

\* An action in ready_ has no pending request, whatever it cancelled, and it
\* is there once.
ReadyHoldsAllLocks ==
  \A i \in DOMAIN ready :
    /\ PendingKeys(ready[i]) = {}
    /\ \A j \in DOMAIN ready : ready[i] = ready[j] => i = j

\* No call withdraws a grant: an action stops holding a lock only by the
\* Release that takes its request out of the deque, whatever is cancelled or
\* pushed around it.
GrantsAreStable ==
  [][\A a \in Action, k \in Key :
       (<<a, k>> \in granted /\ <<a, k>> \notin granted') => ~ Requested(lockTable'[k], a)]_vars
============================================================================
