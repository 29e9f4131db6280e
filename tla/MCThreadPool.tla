---------------------------- MODULE MCThreadPool ----------------------------
(***************************************************************************)
(* ThreadPool with a few threads and requests.                             *)
(***************************************************************************)
EXTENDS ThreadPool

CONSTANTS r1, r2, r3, r4

\* r3 has high priority.
SomePools == [r \in Request |-> IF r = r3 THEN 1 ELSE 2]

\* The high pool keeps its one thread, the low one may create two more.
SomeThreads == <<1, 3>>

\* r1 waits for r2: the one that arrives later, perhaps.
Waits == [r \in Request |-> IF r = r1 THEN {r2} ELSE {}]
Free  == [r \in Request |-> {}]

\* Handlers that return, in a pool that grows and shrinks; handlers that wait,
\* in a pool that only grows.
SafeScenarios ==
  {[needs |-> Free,  minIdle |-> 1, maxIdle |-> 2],
   [needs |-> Waits, minIdle |-> 1, maxIdle |-> 3]}

\* Two handlers that wait for the same request, in a pool that may shrink.
WaitingScenarios ==
  {[needs |-> [r \in Request |-> IF r = r4 THEN {} ELSE {r4}], minIdle |-> 1, maxIdle |-> 2]}
=============================================================================
