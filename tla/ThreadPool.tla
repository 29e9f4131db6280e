----------------------------- MODULE ThreadPool -----------------------------
(***************************************************************************)
(* ThreadPool: two SubPools (high and low priority), each with a queue of  *)
(* requests and worker threads that poll it, and one monitor thread for    *)
(* both.  The monitor creates threads when few are idle and, when many     *)
(* are, pushes NULLs for threads to die of, and waits for each death.      *)
(* The idle thread counter is the threads' own: each counts itself in and  *)
(* out, a moment after it takes or finishes a request.                     *)
(*                                                                         *)
(* A request may block in its handler until other requests have been       *)
(* handled: a worker that waits for remote reads, a client call that waits *)
(* for its action.                                                         *)
(***************************************************************************)
EXTENDS Integers, Sequences, FiniteSets

CONSTANTS
  Request,    \* requests that may arrive
  PoolOf,     \* their priority: 1 (high) or 2 (low)
  Scenario,   \* which requests wait for which, and the size of the pools
  Batch,      \* threads created or deleted at a time (4 in the code)
  MaxThreads  \* bound on the threads each pool ever creates

Pool   == {1, 2}
Thread == UNION {0 .. (MaxThreads[p] - 1) : p \in Pool}
Null   == "null"

\* needs: the requests a handler waits for; minIdle, maxIdle: min_idle_ and
\* max_idle_ (32 and 48 in the code, much more than a batch).
ScenarioRecord ==
  [needs : [Request -> SUBSET Request], minIdle : Nat \ {0}, maxIdle : Nat]

ASSUME ThreadPoolAssumption ==
  /\ PoolOf \in [Request -> Pool]
  /\ Scenario \subseteq ScenarioRecord
  /\ Batch \in Nat \ {0}
  /\ MaxThreads \in [Pool -> Nat \ {0}]
  /\ \A s \in Scenario, p \in Pool : s.minIdle <= MaxThreads[p] /\ Batch <= s.maxIdle
  /\ Null \notin Request

VARIABLES
  scenario,    \* the scenario, chosen at the start
  arrived,     \* requests handed to HandleMessage
  handled,     \* requests whose handler has returned
  queue,       \* pool -> queue_
  pc,          \* pool -> thread -> where RunThread is
  holding,     \* pool -> thread -> the request it handles, or Null
  idle,        \* pool -> idle_thread_count_
  deleted,     \* pool -> deleted_threads_
  assigned,    \* pool -> assigned_thread_count_
  monitor,     \* where MonitorThread is
  stopped,     \* pool -> threads told to stop
  destructor   \* where ~ThreadPool is

threadVars == <<pc, holding, idle, deleted>>
vars == <<scenario, arrived, handled, queue, threadVars, assigned, monitor,
          stopped, destructor>>

Init ==
  /\ scenario \in Scenario
  /\ arrived = {}
  /\ handled = {}
  /\ queue = [p \in Pool |-> << >>]
  /\ pc = [p \in Pool |-> [t \in Thread |->
             IF t < scenario.minIdle THEN "created" ELSE "none"]]
  /\ holding = [p \in Pool |-> [t \in Thread |-> Null]]
  /\ idle = [p \in Pool |-> 0]
  /\ deleted = [p \in Pool |-> << >>]
  /\ assigned = [p \in Pool |-> scenario.minIdle]
  /\ monitor = [at |-> "check", pool |-> 1, left |-> 0, victim |-> 0]
  /\ stopped = [p \in Pool |-> {}]
  /\ destructor = [at |-> "none", pool |-> 1, thread |-> 0]

----------------------------------------------------------------------------
(***************************************************************************)
(* HandleMessage, called by the connection thread.                         *)
(***************************************************************************)
HandleMessage(r) ==
  /\ destructor.at = "none"
  /\ r \notin arrived
  /\ arrived' = arrived \cup {r}
  /\ queue' = [queue EXCEPT ![PoolOf[r]] = Append(@, r)]
  /\ UNCHANGED <<scenario, handled, threadVars, assigned, monitor, stopped, destructor>>

----------------------------------------------------------------------------
(***************************************************************************)
(* RunThread.                                                              *)
(***************************************************************************)
Goto(p, t, l) == pc' = [pc EXCEPT ![p][t] = l]
Count(p, n)   == idle' = [idle EXCEPT ![p] = @ + n]
OtherVars     == <<scenario, arrived, assigned, monitor, stopped, destructor>>

BecomeIdle(p, t) ==
  /\ pc[p][t] = "created"
  /\ Goto(p, t, "idle")
  /\ Count(p, 1)
  /\ UNCHANGED <<handled, queue, holding, deleted, OtherVars>>

PopRequest(p, t) ==
  /\ pc[p][t] = "idle" /\ t \notin stopped[p]
  /\ queue[p] # << >> /\ Head(queue[p]) # Null
  /\ queue' = [queue EXCEPT ![p] = Tail(@)]
  /\ holding' = [holding EXCEPT ![p][t] = Head(queue[p])]
  /\ Goto(p, t, "popped")
  /\ UNCHANGED <<handled, idle, deleted, OtherVars>>

CountOut(p, t) ==
  /\ pc[p][t] = "popped"
  /\ Goto(p, t, "handling")
  /\ Count(p, -1)
  /\ UNCHANGED <<handled, queue, holding, deleted, OtherVars>>

MayReturn(r) == scenario.needs[r] \subseteq handled

\* The handler returns, and the thread counts itself in again.
Handle(p, t) ==
  /\ pc[p][t] = "handling"
  /\ MayReturn(holding[p][t])
  /\ handled' = handled \cup {holding[p][t]}
  /\ holding' = [holding EXCEPT ![p][t] = Null]
  /\ Goto(p, t, "idle")
  /\ Count(p, 1)
  /\ UNCHANGED <<queue, deleted, OtherVars>>

\* (Mutant of PopNull: a thread dies of whatever it pops.)
DieOfAnything(p, t) ==
  /\ pc[p][t] = "idle" /\ t \notin stopped[p]
  /\ queue[p] # << >>
  /\ queue' = [queue EXCEPT ![p] = Tail(@)]
  /\ Goto(p, t, "dying")
  /\ UNCHANGED <<handled, holding, idle, deleted, OtherVars>>

PopNull(p, t) ==
  /\ pc[p][t] = "idle" /\ t \notin stopped[p]
  /\ queue[p] # << >> /\ Head(queue[p]) = Null
  /\ queue' = [queue EXCEPT ![p] = Tail(@)]
  /\ Goto(p, t, "dying")
  /\ UNCHANGED <<handled, holding, idle, deleted, OtherVars>>

\* The thread announces its death before it counts itself out.
Announce(p, t) ==
  /\ pc[p][t] = "dying"
  /\ deleted' = [deleted EXCEPT ![p] = Append(@, t)]
  /\ Goto(p, t, "announced")
  /\ UNCHANGED <<handled, queue, holding, idle, OtherVars>>

Die(p, t) ==
  /\ pc[p][t] \in {"announced", "drained"}
  /\ Goto(p, t, "dead")
  /\ Count(p, -1)
  /\ UNCHANGED <<handled, queue, holding, deleted, OtherVars>>

\* A thread that was told to stop empties the queue; the counter stays.
Drain(p, t) ==
  /\ pc[p][t] = "idle" /\ t \in stopped[p]
  /\ IF queue[p] = << >>
     THEN /\ Goto(p, t, "drained")
          /\ UNCHANGED <<queue, holding>>
     ELSE /\ queue' = [queue EXCEPT ![p] = Tail(@)]
          /\ holding' = [holding EXCEPT ![p][t] = Head(queue[p])]
          /\ Goto(p, t, "draining")
  /\ UNCHANGED <<handled, idle, deleted, OtherVars>>

HandleDrained(p, t) ==
  /\ pc[p][t] = "draining"
  /\ holding[p][t] # Null
  /\ MayReturn(holding[p][t])
  /\ handled' = handled \cup {holding[p][t]}
  /\ holding' = [holding EXCEPT ![p][t] = Null]
  /\ Goto(p, t, "idle")
  /\ UNCHANGED <<queue, idle, deleted, OtherVars>>

RunThread(p, t) ==
  \/ BecomeIdle(p, t) \/ PopRequest(p, t) \/ CountOut(p, t) \/ Handle(p, t)
  \/ PopNull(p, t) \/ Announce(p, t) \/ Die(p, t)
  \/ Drain(p, t) \/ HandleDrained(p, t)

----------------------------------------------------------------------------
(***************************************************************************)
(* MonitorThread.  One round looks at the high pool, then at the low one.  *)
(***************************************************************************)
NextCheck ==
  IF monitor.pool = 1 THEN [monitor EXCEPT !.at = "check", !.pool = 2]
  ELSE [monitor EXCEPT !.at = "loop", !.pool = 1]

MonitorLoop ==
  /\ monitor.at = "loop"
  /\ monitor' = [monitor EXCEPT !.at = IF destructor.at = "none" THEN "check" ELSE "ended"]
  /\ UNCHANGED <<scenario, arrived, handled, queue, threadVars, assigned, stopped, destructor>>

\* (Mutant of FewIdle: the threshold is one too low.)
FewerIdle(p) == idle[p] < scenario.minIdle - 1

FewIdle(p) == idle[p] < scenario.minIdle

\* (Mutant of ManyIdle: the threads ever created are compared.)
ManyAssigned(p) == ~ FewIdle(p) /\ assigned[p] > scenario.maxIdle

ManyIdle(p) == ~ FewIdle(p) /\ idle[p] > scenario.maxIdle

\* (MaxThreads stands for a pool that is large enough.)
CreateThreads ==
  LET p == monitor.pool IN
  /\ monitor.at = "check"
  /\ FewIdle(p)
  /\ assigned[p] + Batch <= MaxThreads[p]
  /\ pc' = [pc EXCEPT ![p] = [t \in Thread |->
             IF t \in assigned[p] .. (assigned[p] + Batch - 1) THEN "created" ELSE @[t]]]
  /\ assigned' = [assigned EXCEPT ![p] = @ + Batch]
  /\ monitor' = NextCheck
  /\ UNCHANGED <<scenario, arrived, handled, queue, holding, idle, deleted, stopped, destructor>>

LeaveThreads ==
  LET p == monitor.pool IN
  /\ monitor.at = "check"
  /\ ~ ManyIdle(p)
  /\ FewIdle(p) => assigned[p] + Batch > MaxThreads[p]
  /\ monitor' = NextCheck
  /\ UNCHANGED <<scenario, arrived, handled, queue, threadVars, assigned, stopped, destructor>>

DeleteThreads ==
  /\ monitor.at = "check"
  /\ ManyIdle(monitor.pool)
  /\ monitor' = [monitor EXCEPT !.at = "kill", !.left = Batch]
  /\ UNCHANGED <<scenario, arrived, handled, queue, threadVars, assigned, stopped, destructor>>

Kill ==
  /\ monitor.at = "kill"
  /\ queue' = [queue EXCEPT ![monitor.pool] = Append(@, Null)]
  /\ monitor' = [monitor EXCEPT !.at = "await"]
  /\ UNCHANGED <<scenario, arrived, handled, threadVars, assigned, stopped, destructor>>

\* The monitor spins on deleted_threads_.
AwaitDeath ==
  LET p == monitor.pool IN
  /\ monitor.at = "await"
  /\ deleted[p] # << >>
  /\ deleted' = [deleted EXCEPT ![p] = Tail(@)]
  /\ monitor' = [monitor EXCEPT !.at = "join", !.victim = Head(deleted[p])]
  /\ UNCHANGED <<scenario, arrived, handled, queue, pc, holding, idle, assigned, stopped, destructor>>

JoinVictim ==
  LET p == monitor.pool IN
  /\ monitor.at = "join"
  /\ pc[p][monitor.victim] = "dead"
  /\ Goto(p, monitor.victim, "erased")
  /\ monitor' = IF monitor.left > 1
                THEN [monitor EXCEPT !.at = "kill", !.left = @ - 1, !.victim = 0]
                ELSE [NextCheck EXCEPT !.left = 0, !.victim = 0]
  /\ UNCHANGED <<scenario, arrived, handled, queue, holding, idle, deleted, assigned, stopped, destructor>>

MonitorThread ==
  MonitorLoop \/ CreateThreads \/ LeaveThreads \/ DeleteThreads \/ Kill \/ AwaitDeath \/ JoinVictim

----------------------------------------------------------------------------
(***************************************************************************)
(* ~ThreadPool: stop and join the monitor, then one thread after the       *)
(* other.  The connection was deleted before: nothing arrives any more.    *)
(***************************************************************************)
BeginDestructor ==
  /\ destructor.at = "none"
  /\ destructor' = [destructor EXCEPT !.at = "monitor"]
  /\ UNCHANGED <<scenario, arrived, handled, queue, threadVars, assigned, monitor, stopped>>

\* (Mutant of JoinMonitor: the monitor is not waited for.)
SkipMonitor ==
  /\ destructor.at = "monitor"
  /\ destructor' = [destructor EXCEPT !.at = "stop"]
  /\ UNCHANGED <<scenario, arrived, handled, queue, threadVars, assigned, monitor, stopped>>

JoinMonitor ==
  /\ destructor.at = "monitor"
  /\ monitor.at = "ended"
  /\ destructor' = [destructor EXCEPT !.at = "stop"]
  /\ UNCHANGED <<scenario, arrived, handled, queue, threadVars, assigned, monitor, stopped>>

StopThread ==
  LET p == destructor.pool  t == destructor.thread IN
  /\ destructor.at = "stop"
  /\ t < assigned[p]
  /\ IF pc[p][t] = "erased"
     THEN /\ destructor' = [destructor EXCEPT !.thread = t + 1]
          /\ UNCHANGED stopped
     ELSE /\ stopped' = [stopped EXCEPT ![p] = @ \cup {t}]
          /\ destructor' = [destructor EXCEPT !.at = "join"]
  /\ UNCHANGED <<scenario, arrived, handled, queue, threadVars, assigned, monitor>>

JoinThread ==
  LET p == destructor.pool  t == destructor.thread IN
  /\ destructor.at = "join"
  /\ pc[p][t] = "dead"
  /\ destructor' = [destructor EXCEPT !.at = "stop", !.thread = t + 1]
  /\ UNCHANGED <<scenario, arrived, handled, queue, threadVars, assigned, monitor, stopped>>

EndSubPool ==
  LET p == destructor.pool IN
  /\ destructor.at = "stop"
  /\ destructor.thread = assigned[p]
  /\ destructor' = IF p = 1 THEN [at |-> "stop", pool |-> 2, thread |-> 0]
                   ELSE [destructor EXCEPT !.at = "over"]
  /\ UNCHANGED <<scenario, arrived, handled, queue, threadVars, assigned, monitor, stopped>>

Destructor == JoinMonitor \/ StopThread \/ JoinThread \/ EndSubPool

----------------------------------------------------------------------------
Next ==
  \/ \E r \in Request : HandleMessage(r)
  \/ \E p \in Pool, t \in Thread : RunThread(p, t)
  \/ MonitorThread
  \/ BeginDestructor
  \/ Destructor

Spec == Init /\ [][Next]_vars

\* Threads run.  (Every step of a worker is progress, so fairness to all of
\* them together is fairness to each.)
FairSpec ==
  /\ Spec
  /\ WF_vars(\E p \in Pool, t \in Thread : RunThread(p, t))
  /\ WF_vars(MonitorThread)
  /\ WF_vars(Destructor)

----------------------------------------------------------------------------
(***************************************************************************)
(* Properties.                                                             *)
(***************************************************************************)
ThreadState ==
  {"none", "created", "idle", "popped", "handling", "dying", "announced",
   "draining", "drained", "dead", "erased"}

TypeOK ==
  /\ scenario \in Scenario
  /\ arrived \in SUBSET Request
  /\ handled \in SUBSET arrived
  /\ queue \in [Pool -> Seq(Request \cup {Null})]
  /\ pc \in [Pool -> [Thread -> ThreadState]]
  /\ holding \in [Pool -> [Thread -> Request \cup {Null}]]
  /\ idle \in [Pool -> Nat]
  /\ deleted \in [Pool -> Seq(Thread)]
  /\ assigned \in [Pool -> Nat] /\ \A p \in Pool : assigned[p] <= MaxThreads[p]
  /\ monitor \in [at : {"loop", "check", "kill", "await", "join", "ended"},
                  pool : Pool, left : 0 .. Batch, victim : Thread]
  /\ stopped \in [Pool -> SUBSET Thread]
  /\ destructor \in [at : {"none", "monitor", "stop", "join", "over"},
                     pool : Pool, thread : Nat]
  /\ destructor.thread <= assigned[destructor.pool]

\* A request is in one place: queued, held by one thread, or handled.  A
\* thread that dies, of a NULL or of the destructor, takes none with it.
PlacesInQueue(p, r) == {i \in 1 .. Len(queue[p]) : queue[p][i] = r}
Holders(p, r)       == {t \in Thread : holding[p][t] = r}

Places(r) ==
  Cardinality(PlacesInQueue(1, r)) + Cardinality(PlacesInQueue(2, r))
  + Cardinality(Holders(1, r)) + Cardinality(Holders(2, r))
  + (IF r \in handled THEN 1 ELSE 0)

RequestsAreKept == \A r \in arrived : Places(r) = 1

\* Every NULL is one thread's death, of which the monitor waits: no handler
\* is ever called with a NULL, not even by the threads that drain the queue.
NullIsNotHandled ==
  \A p \in Pool, t \in Thread :
    pc[p][t] \in {"popped", "handling", "draining"} => holding[p][t] # Null

\* The variables have their types, no request is lost or handled twice, and no
\* NULL is taken for one.
Consistent == TypeOK /\ RequestsAreKept /\ NullIsNotHandled

\* Shrinking leaves a thread: the monitor decides by a counter that lags behind
\* the threads, and the NULLs it pushes stand behind the requests.
PoolKeepsAThread ==
  \A p \in Pool : \E t \in Thread :
    destructor.at = "none" => pc[p][t] \in {"created", "idle", "popped", "handling"}

\* Once the requests that a handler waits for have arrived too, every request
\* is handled, unless the pool is destroyed first: by threads that are polling,
\* or by the threads that the monitor creates.
EveryRequestIsHandled ==
  Request \subseteq arrived ~> Request \subseteq handled \/ destructor.at # "none"

\* When no handler waits for another, the destructor ends, with no request left.
NoHandlerWaits == \A r \in Request : scenario.needs[r] = {}

DestructorEnds ==
  NoHandlerWaits /\ destructor.at = "monitor" ~>
    destructor.at = "over" /\ arrived \subseteq handled

\* thread_pool.h: "Since the number of threads can grow dynamically, there is
\* no risk of" deadlock.  There is one when the monitor waits for a death while
\* all threads wait for requests that stand in the queue, before its NULL.
Living(p) == {t \in Thread : pc[p][t] \notin {"none", "dead", "erased"}}

WaitsForQueued(p, t) ==
  /\ pc[p][t] = "handling"
  /\ \E i \in 1 .. Len(queue[p]) : queue[p][i] \in scenario.needs[holding[p][t]]

NoDeadlock ==
  \A p \in Pool :
    /\ monitor.at = "await" /\ monitor.pool = p
    /\ deleted[p] = << >>
    => \E t \in Living(p) : ~ WaitsForQueued(p, t)
=============================================================================
