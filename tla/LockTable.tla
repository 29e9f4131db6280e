----------------------------- MODULE LockTable -----------------------------
(***************************************************************************)
(* The lock queues of components/scheduler/lock_manager.cc.                *)
(*                                                                         *)
(* lock_table_ maps a key to the deque of the lock requests that were made *)
(* on it, oldest first.  Nothing in the table says which requests are      *)
(* granted: the code works that out from the queue, once when a request is *)
(* pushed and once when a request is erased.  These are the operators on   *)
(* one queue; LockManager and LockingScheduler build their actions from    *)
(* them.                                                                   *)
(***************************************************************************)
EXTENDS Naturals, Sequences

SHARED    == "shared"
EXCLUSIVE == "exclusive"
LockMode  == {SHARED, EXCLUSIVE}

\* One element of a deque of the lock table.
LockRequest(A) == [action : A, mode : LockMode]

----------------------------------------------------------------------------
\* Some EXCLUSIVE request stands before position n.
WriteRequestsPrecede(q, n) == \E i \in 1 .. (n - 1) : q[i].mode = EXCLUSIVE

\* (Mutant of GrantedOnPush: a read lock looks at the first request only.)
ReaderOvertakesWriter(q, mode) ==
  IF mode = EXCLUSIVE THEN q = << >> ELSE q = << >> \/ q[1].mode = SHARED

\* WriteLock on q is granted at once iff it is the only request;
\* ReadLock iff there is no EXCLUSIVE request in the queue.
GrantedOnPush(q, mode) ==
  IF mode = EXCLUSIVE THEN q = << >>
                      ELSE ~ WriteRequestsPrecede(q, Len(q) + 1)

Requested(q, a) == \E i \in DOMAIN q : q[i].action = a

\* The request Release looks for: the first one of the action.
Target(q, a) ==
  CHOOSE i \in DOMAIN q : /\ q[i].action = a
                          /\ \A j \in 1 .. (i - 1) : q[j].action # a

\* The longest run of SHARED requests that starts at position n.
SharedRun(q, n) ==
  {q[i].action : i \in {j \in n .. Len(q) : \A m \in n .. j : q[m].mode = SHARED}}

\* (Mutants of NewOwners: without case (c), and without case (b).)
OwnersWithoutC(q, t) ==
  IF t = 1 /\ Len(q) > 1 /\ q[1].mode = EXCLUSIVE
  THEN IF q[2].mode = EXCLUSIVE THEN {q[2].action} ELSE SharedRun(q, 2)
  ELSE IF t = 1 /\ Len(q) > 1 /\ q[2].mode = EXCLUSIVE THEN {q[2].action} ELSE {}
OwnersWithoutB(q, t) ==
  IF t = 1 /\ Len(q) > 1 /\ q[1].mode = EXCLUSIVE
  THEN IF q[2].mode = EXCLUSIVE THEN {q[2].action} ELSE SharedRun(q, 2)
  ELSE {}

\* The actions that inherit the lock when the request at position t is
\* erased.  Cases (a) and (b) of the code: t is the first request, and held
\* a write lock, or held a read lock alone.  Case (c): t is a write request
\* preceded only by read requests and followed by one.
NewOwners(q, t) ==
  LET next == t + 1
      releasesFront == t = 1 /\ EXCLUSIVE \in {q[t].mode, q[next].mode}
      cancelsWriter == /\ ~ WriteRequestsPrecede(q, t)
                       /\ q[t].mode = EXCLUSIVE /\ q[next].mode = SHARED
  IN  IF t = Len(q) \/ ~ (releasesFront \/ cancelsWriter) THEN {}
      ELSE IF q[next].mode = EXCLUSIVE THEN {q[next].action}
      ELSE SharedRun(q, next)

\* (Mutant of Erase: pop_front.)
EraseFront(q, t) == Tail(q)

\* The queue without the request at position t.
Erase(q, t) == [i \in 1 .. (Len(q) - 1) |-> q[IF i < t THEN i ELSE i + 1]]

----------------------------------------------------------------------------
(***************************************************************************)
(* Who holds the lock, as lock_manager.h documents the table: the first    *)
(* request if it is EXCLUSIVE, otherwise every request of the longest      *)
(* SHARED prefix.                                                          *)
(***************************************************************************)
Holds(q, i) == \/ i = 1
               \/ \A j \in 1 .. i : q[j].mode = SHARED

Owners(q) == {q[i].action : i \in {j \in DOMAIN q : Holds(q, j)}}

\* What the header requires of the callers: no action asks for a key twice.
Distinct(q) == \A i, j \in DOMAIN q : q[i].action = q[j].action => i = j
============================================================================
