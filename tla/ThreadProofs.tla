--------------------------- MODULE ThreadProofs ---------------------------
(***************************************************************************)
(* The two components whose steps are accesses of threads to shared memory:*)
(* the thread pool, and after it the array log.  They have nothing to do   *)
(* with each other; their definitions are named apart.                     *)
(*                                                                         *)
(* The thread pool is right for any number of requests, threads, deaths at *)
(* a time and thresholds: no request is lost or handled twice, no NULL is  *)
(* taken for one, and the monitor never kills the last thread of a pool.   *)
(*                                                                         *)
(* The monitor decides by a counter that lags behind the threads, kills by *)
(* a NULL behind the requests, and joins a thread after its announcement.  *)
(* So what is proved is where a death is between the decision and the      *)
(* join, one place at a time (DeathInv), that the counter is exact for the *)
(* places where threads count themselves (IdleInv), and that always more   *)
(* threads can work than deaths are to come (UsefulInv).                   *)
(***************************************************************************)
EXTENDS ThreadPool, LocalMemLog, SequenceTheorems, FiniteSetTheorems, TLAPS

Running  == destructor.at \in {"none", "monitor"}
Killing  == monitor.at \in {"kill", "await", "join"}
Await(p) == monitor.at = "await" /\ monitor.pool = p
Join(p)  == monitor.at = "join" /\ monitor.pool = p

HasNull(p) == \E i \in 1 .. Len(queue[p]) : queue[p][i] = Null
IsDying(p) == \E t \in Thread : pc[p][t] = "dying"
IsTold(p)  == deleted[p] # << >>

\* The destructor touches the threads after the monitor has ended, and the
\* monitor has a number of deaths before it only while it kills.
StageInv ==
  /\ Running => \A p \in Pool : /\ stopped[p] = {}
                                /\ \A t \in Thread : pc[p][t] \notin {"draining", "drained"}
  /\ ~ Running => monitor.at = "ended"
  /\ Killing => monitor.left > 0
  /\ destructor.at = "join" => destructor.thread < assigned[destructor.pool]

\* A thread number is given once.
AssignedInv ==
  \A p \in Pool, t \in Thread : pc[p][t] = "none" <=> t >= assigned[p]

\* A death is on its way while the monitor waits for it, and at one place only:
\* a NULL in the queue, a thread that took it, or the thread's announcement.
DeathInv(p) ==
  /\ HasNull(p) \/ IsDying(p) \/ IsTold(p) => Await(p)
  /\ HasNull(p) => ~ IsDying(p) /\ ~ IsTold(p)
  /\ IsDying(p) => ~ IsTold(p)
  /\ \A i, j \in 1 .. Len(queue[p]) : queue[p][i] = Null /\ queue[p][j] = Null => i = j
  /\ \A t, u \in Thread : pc[p][t] = "dying" /\ pc[p][u] = "dying" => t = u
  /\ Len(deleted[p]) <= 1
  /\ \A t \in Thread : pc[p][t] = "announced" =>
       (Await(p) /\ deleted[p] = <<t>>) \/ (Join(p) /\ monitor.victim = t)

\* The counter is exact, seen with the threads that have not counted themselves
\* in or out yet.
CountedState == {"idle", "popped", "dying", "announced", "draining", "drained"}

Counted(p) == {t \in Thread : pc[p][t] \in CountedState}

IdleInv == \A p \in Pool : idle[p] = Cardinality(Counted(p))

\* More threads can work than deaths are to come.
Useful(p) == {t \in Thread : pc[p][t] \in {"created", "idle", "popped", "handling"}}

Deaths(p) ==
  IF ~ (Killing /\ monitor.pool = p) THEN 0
  ELSE IF monitor.at = "kill" \/ HasNull(p) THEN monitor.left
  ELSE monitor.left - 1

UsefulInv ==
  destructor.at = "none" => \A p \in Pool : Cardinality(Useful(p)) > Deaths(p)

\* A thread holds what it popped until it has handled it.
HoldInv ==
  \A p \in Pool, t \in Thread :
    holding[p][t] # Null <=> pc[p][t] \in {"popped", "handling", "draining"}

\* A request is in one place.
PlaceInv(p) ==
  /\ \A i \in 1 .. Len(queue[p]) : queue[p][i] # Null =>
       /\ PoolOf[queue[p][i]] = p /\ queue[p][i] \in arrived \ handled
       /\ \A j \in 1 .. Len(queue[p]) : queue[p][i] = queue[p][j] => i = j
       /\ \A t \in Thread : holding[p][t] # queue[p][i]
  /\ \A t \in Thread : holding[p][t] # Null =>
       /\ PoolOf[holding[p][t]] = p /\ holding[p][t] \in arrived \ handled
       /\ \A u \in Thread : holding[p][t] = holding[p][u] => t = u
  /\ \A r \in arrived \ handled : PoolOf[r] = p =>
       \/ \E i \in 1 .. Len(queue[p]) : queue[p][i] = r
       \/ \E t \in Thread : holding[p][t] = r

IInv ==
  /\ TypeOK /\ StageInv /\ AssignedInv /\ IdleInv /\ UsefulInv /\ HoldInv
  /\ \A p \in Pool : DeathInv(p) /\ PlaceInv(p)

----------------------------------------------------------------------------
LEMMA ThreadFacts ==
  /\ IsFiniteSet(Thread) /\ Thread \subseteq Nat
  /\ \A p \in Pool : 0 .. (MaxThreads[p] - 1) \subseteq Thread /\ MaxThreads[p] \in Nat \ {0}
<1>1. MaxThreads[1] \in Nat \ {0} /\ MaxThreads[2] \in Nat \ {0}
  BY ThreadPoolAssumption DEF Pool
<1>2. Thread = (0 .. (MaxThreads[1] - 1)) \cup (0 .. (MaxThreads[2] - 1))
  BY DEF Thread, Pool
<1>3. IsFiniteSet(0 .. (MaxThreads[1] - 1)) /\ IsFiniteSet(0 .. (MaxThreads[2] - 1))
  <2>1. 0 \in Int /\ MaxThreads[1] - 1 \in Int /\ MaxThreads[2] - 1 \in Int
    BY <1>1
  <2>2. QED BY <2>1, FS_Interval
<1>4. IsFiniteSet(Thread)
  BY <1>2, <1>3, FS_Union
<1>5. QED BY <1>1, <1>2, <1>4 DEF Pool

LEMMA Cardinalities ==
  ASSUME NEW p
  PROVE  /\ IsFiniteSet(Counted(p)) /\ Cardinality(Counted(p)) \in Nat
         /\ IsFiniteSet(Useful(p)) /\ Cardinality(Useful(p)) \in Nat
<1>1. Counted(p) \in SUBSET Thread /\ Useful(p) \in SUBSET Thread
  BY DEF Counted, Useful
<1>2. IsFiniteSet(Counted(p)) /\ IsFiniteSet(Useful(p))
  BY <1>1, ThreadFacts, FS_Subset
<1>3. QED BY <1>2, FS_CardinalityType

LEMMA TailFacts ==
  ASSUME NEW S, NEW s \in Seq(S), s # << >>
  PROVE  /\ Tail(s) \in Seq(S) /\ Len(s) \in Nat /\ Len(s) > 0 /\ Head(s) = s[1] /\ Head(s) \in S
         /\ Len(Tail(s)) = Len(s) - 1
         /\ \A i \in 1 .. Len(Tail(s)) : i + 1 \in 1 .. Len(s) /\ Tail(s)[i] = s[i + 1]
  OBVIOUS

LEMMA AppendFacts ==
  ASSUME NEW S, NEW s \in Seq(S), NEW x \in S
  PROVE  /\ Append(s, x) \in Seq(S) /\ Len(s) \in Nat /\ Len(Append(s, x)) = Len(s) + 1
         /\ Append(s, x)[Len(s) + 1] = x
         /\ \A i \in 1 .. Len(s) : Append(s, x)[i] = s[i]
  OBVIOUS

----------------------------------------------------------------------------
(***************************************************************************)
(* Initial states.                                                         *)
(***************************************************************************)
LEMMA InitInv == Init => IInv
<1> SUFFICES ASSUME Init PROVE IInv
  OBVIOUS
<1>1. /\ scenario \in Scenario /\ scenario.minIdle \in Nat \ {0} /\ Batch \in Nat
      /\ \A p \in Pool : scenario.minIdle <= MaxThreads[p] /\ MaxThreads[p] \in Nat
  BY ThreadPoolAssumption, ThreadFacts DEF Init, ScenarioRecord
<1>2. /\ \A p \in Pool, t \in Thread :
           /\ pc[p][t] = IF t < scenario.minIdle THEN "created" ELSE "none"
           /\ holding[p][t] = Null
      /\ \A p \in Pool : /\ queue[p] = << >> /\ deleted[p] = << >> /\ idle[p] = 0
                         /\ stopped[p] = {} /\ assigned[p] = scenario.minIdle
      /\ arrived = {} /\ handled = {}
      /\ monitor.at = "check" /\ destructor.at = "none"
  BY DEF Init
<1>3. 0 \in Thread
  BY <1>1, ThreadFacts DEF Pool
<1>4. TypeOK
  <2>1. /\ arrived \in SUBSET Request /\ handled \in SUBSET arrived
        /\ queue \in [Pool -> Seq(Request \cup {Null})]
        /\ idle \in [Pool -> Nat] /\ deleted \in [Pool -> Seq(Thread)]
        /\ stopped \in [Pool -> SUBSET Thread]
    BY DEF Init
  <2>2. /\ pc \in [Pool -> [Thread -> ThreadState]]
        /\ holding \in [Pool -> [Thread -> Request \cup {Null}]]
    BY DEF Init, ThreadState
  <2>3. monitor \in [at : {"loop", "check", "kill", "await", "join", "ended"},
                     pool : Pool, left : 0 .. Batch, victim : Thread]
    BY <1>1, <1>3 DEF Init, Pool
  <2>4. /\ destructor \in [at : {"none", "monitor", "stop", "join", "over"},
                           pool : Pool, thread : Nat]
        /\ destructor.thread = 0 /\ destructor.pool = 1
    BY DEF Init, Pool
  <2>5. assigned \in [Pool -> Nat] /\ \A p \in Pool : assigned[p] <= MaxThreads[p]
    BY <1>1 DEF Init
  <2>6. destructor.thread <= assigned[destructor.pool]
    BY <1>1, <1>2, <2>4 DEF Pool
  <2>7. QED BY <1>1, <2>1, <2>2, <2>3, <2>4, <2>5, <2>6 DEF TypeOK
<1>5. StageInv
  BY <1>2 DEF StageInv, Running, Killing
<1>6. AssignedInv
  <2> SUFFICES ASSUME NEW p \in Pool, NEW t \in Thread
               PROVE  pc[p][t] = "none" <=> t >= assigned[p]
    BY DEF AssignedInv
  <2>1. t \in Nat /\ assigned[p] = scenario.minIdle /\ scenario.minIdle \in Nat
        /\ pc[p][t] = IF t < scenario.minIdle THEN "created" ELSE "none"
    BY <1>1, <1>2, ThreadFacts
  <2>2. QED BY <2>1
<1>7. IdleInv
  <2> SUFFICES ASSUME NEW p \in Pool PROVE idle[p] = Cardinality(Counted(p))
    BY DEF IdleInv
  <2>1. Counted(p) = {}
    BY <1>2 DEF Counted, CountedState
  <2>2. QED BY <1>2, <2>1, FS_EmptySet
<1>8. UsefulInv
  <2> SUFFICES ASSUME NEW p \in Pool PROVE Cardinality(Useful(p)) > Deaths(p)
    BY DEF UsefulInv
  <2>1. Deaths(p) = 0
    BY <1>2 DEF Deaths, Killing
  <2>2. 0 \in Useful(p)
    BY <1>1, <1>2, <1>3 DEF Useful
  <2>3. Cardinality(Useful(p)) # 0
    BY <2>2, Cardinalities, FS_EmptySet
  <2>4. QED BY <2>1, <2>3, Cardinalities
<1>9. HoldInv
  BY <1>2 DEF HoldInv
<1>10. ASSUME NEW p \in Pool PROVE DeathInv(p) /\ PlaceInv(p)
  <2>1. Len(queue[p]) = 0 /\ Len(deleted[p]) = 0 /\ deleted[p] = << >>
    BY <1>2
  <2>2. \A t \in Thread : pc[p][t] \in {"created", "none"}
    BY <1>2
  <2>3. DeathInv(p)
    BY <2>1, <2>2 DEF DeathInv, HasNull, IsDying, IsTold
  <2>4. PlaceInv(p)
    BY <1>2, <2>1 DEF PlaceInv
  <2>5. QED BY <2>3, <2>4
<1>11. QED BY <1>4, <1>5, <1>6, <1>7, <1>8, <1>9, <1>10 DEF IInv

----------------------------------------------------------------------------
(***************************************************************************)
(* A worker's step: where the others are, and what its own move changes.   *)
(***************************************************************************)
LEMMA Move ==
  ASSUME TypeOK, NEW p \in Pool, NEW t \in Thread, NEW l \in ThreadState, Goto(p, t, l)
  PROVE  /\ pc' \in [Pool -> [Thread -> ThreadState]]
         /\ \A q \in Pool, u \in Thread :
              pc'[q][u] = IF q = p /\ u = t THEN l ELSE pc[q][u]
  BY DEF TypeOK, Goto

LEMMA CountsIn ==
  ASSUME TypeOK, IdleInv, NEW p \in Pool, NEW t \in Thread, NEW l \in ThreadState,
         Goto(p, t, l), pc[p][t] \notin CountedState, l \in CountedState, Count(p, 1)
  PROVE  IdleInv' /\ idle' \in [Pool -> Nat]
<1>1. \A q \in Pool, u \in Thread : pc'[q][u] = IF q = p /\ u = t THEN l ELSE pc[q][u]
  BY Move
<1>2. idle \in [Pool -> Nat] /\ idle' = [idle EXCEPT ![p] = idle[p] + 1]
  BY DEF TypeOK, Count
<1>3. ASSUME NEW q \in Pool PROVE idle'[q] = Cardinality(Counted(q)') /\ idle'[q] \in Nat
  <2>1. CASE q # p
    <3>1. Counted(q)' = Counted(q)
      BY <1>1, <2>1 DEF Counted
    <3>2. QED BY <1>2, <2>1, <3>1, Cardinalities DEF IdleInv
  <2>2. CASE q = p
    <3>1. Counted(p)' = Counted(p) \cup {t} /\ t \notin Counted(p)
      BY <1>1 DEF Counted
    <3>2. Cardinality(Counted(p)') = Cardinality(Counted(p)) + 1
      BY <3>1, Cardinalities, FS_AddElement
    <3>3. QED BY <1>2, <2>2, <3>2, Cardinalities DEF IdleInv
  <2>3. QED BY <2>1, <2>2
<1>4. QED BY <1>2, <1>3 DEF IdleInv

LEMMA CountsOut ==
  ASSUME TypeOK, IdleInv, NEW p \in Pool, NEW t \in Thread, NEW l \in ThreadState,
         Goto(p, t, l), pc[p][t] \in CountedState, l \notin CountedState, Count(p, -1)
  PROVE  IdleInv' /\ idle' \in [Pool -> Nat]
<1>1. \A q \in Pool, u \in Thread : pc'[q][u] = IF q = p /\ u = t THEN l ELSE pc[q][u]
  BY Move
<1>2. idle \in [Pool -> Nat] /\ idle' = [idle EXCEPT ![p] = idle[p] + (-1)]
  BY DEF TypeOK, Count
<1>3. ASSUME NEW q \in Pool PROVE idle'[q] = Cardinality(Counted(q)') /\ idle'[q] \in Nat
  <2>1. CASE q # p
    <3>1. Counted(q)' = Counted(q)
      BY <1>1, <2>1 DEF Counted
    <3>2. QED BY <1>2, <2>1, <3>1, Cardinalities DEF IdleInv
  <2>2. CASE q = p
    <3>1. Counted(p)' = Counted(p) \ {t} /\ t \in Counted(p)
      BY <1>1 DEF Counted
    <3>2. Cardinality(Counted(p)') = Cardinality(Counted(p)) - 1 /\ Cardinality(Counted(p)) # 0
      <4>1. IsFiniteSet(Counted(p))
        BY Cardinalities
      <4>2. Cardinality(Counted(p) \ {t}) = Cardinality(Counted(p)) - 1
        BY <3>1, <4>1, FS_RemoveElement
      <4>3. Cardinality(Counted(p)) # 0
        BY <3>1, <4>1, FS_EmptySet
      <4>4. QED BY <3>1, <4>2, <4>3
    <3>3. idle[p] = Cardinality(Counted(p)) /\ Cardinality(Counted(p)) \in Nat
      BY Cardinalities DEF IdleInv
    <3>4. idle'[p] = idle[p] + (-1)
      BY <1>2
    <3>5. QED BY <2>2, <3>2, <3>3, <3>4
  <2>3. QED BY <2>1, <2>2
<1>4. QED BY <1>2, <1>3 DEF IdleInv

LEMMA IdleStays ==
  ASSUME TypeOK, IdleInv, NEW p \in Pool, NEW t \in Thread, NEW l \in ThreadState,
         Goto(p, t, l), UNCHANGED idle,
         l \in CountedState <=> pc[p][t] \in CountedState
  PROVE  IdleInv' /\ idle' \in [Pool -> Nat]
<1>1. \A q \in Pool, u \in Thread : pc'[q][u] = IF q = p /\ u = t THEN l ELSE pc[q][u]
  BY Move
<1>2. \A q \in Pool : Counted(q)' = Counted(q)
  BY <1>1 DEF Counted
<1>3. QED BY <1>2 DEF IdleInv, TypeOK

\* What a worker leaves as it is.
LEMMA WorkerFrame ==
  ASSUME IInv, NEW p \in Pool, NEW t \in Thread, NEW l \in ThreadState, Goto(p, t, l),
         pc[p][t] # "none", l # "none", l \in {"draining", "drained"} => ~ Running,
         UNCHANGED OtherVars,
         handled' \in SUBSET arrived, queue' \in [Pool -> Seq(Request \cup {Null})],
         holding' \in [Pool -> [Thread -> Request \cup {Null}]],
         idle' \in [Pool -> Nat], deleted' \in [Pool -> Seq(Thread)]
  PROVE  TypeOK' /\ StageInv' /\ AssignedInv'
<1>1. TypeOK /\ StageInv /\ AssignedInv
  BY DEF IInv
<1>2. /\ pc' \in [Pool -> [Thread -> ThreadState]]
      /\ \A q \in Pool, u \in Thread : pc'[q][u] = IF q = p /\ u = t THEN l ELSE pc[q][u]
  BY <1>1, Move
<1>3. UNCHANGED <<scenario, arrived, assigned, monitor, stopped, destructor>>
  BY DEF OtherVars
<1>4. TypeOK'
  BY <1>1, <1>2, <1>3 DEF TypeOK
<1>5. StageInv'
  <2>1. (Running' <=> Running) /\ (Killing' <=> Killing)
    BY <1>3 DEF Running, Killing
  <2>2. Running => \A q \in Pool, u \in Thread : pc'[q][u] \notin {"draining", "drained"}
    BY <1>1, <1>2 DEF StageInv
  <2>3. QED BY <1>1, <1>3, <2>1, <2>2 DEF StageInv
<1>6. AssignedInv'
  <2>1. \A q \in Pool, u \in Thread : pc'[q][u] = "none" <=> pc[q][u] = "none"
    BY <1>2
  <2>2. QED BY <1>1, <1>3, <2>1 DEF AssignedInv
<1>7. QED BY <1>4, <1>5, <1>6

\* A pool whose queue, threads and announcements stay.
LEMMA DeathStays ==
  ASSUME NEW q \in Pool, DeathInv(q), UNCHANGED monitor, queue'[q] = queue[q],
         deleted'[q] = deleted[q], \A u \in Thread : pc'[q][u] = pc[q][u]
  PROVE  DeathInv(q)' /\ (HasNull(q)' <=> HasNull(q))
  BY DEF DeathInv, HasNull, IsDying, IsTold, Await, Join

LEMMA PlaceStays ==
  ASSUME NEW q \in Pool, PlaceInv(q), queue'[q] = queue[q],
         \A u \in Thread : holding'[q][u] = holding[q][u],
         \A r \in Request : PoolOf[r] = q =>
           (r \in arrived' \ handled' <=> r \in arrived \ handled),
         TypeOK, TypeOK'
  PROVE  PlaceInv(q)'
<1>1. \A i \in 1 .. Len(queue[q]) : queue[q][i] # Null => queue[q][i] \in Request
  <2>1. queue[q] \in Seq(Request \cup {Null})
    BY DEF TypeOK
  <2>2. QED BY <2>1
<1>2. \A u \in Thread : holding[q][u] # Null => holding[q][u] \in Request
  BY DEF TypeOK
<1>3. \A r \in arrived' \ handled' : r \in Request
  BY DEF TypeOK
<1>4. QED BY <1>1, <1>2, <1>3 DEF PlaceInv

LEMMA DeathsType ==
  ASSUME TypeOK, StageInv, NEW q
  PROVE  Deaths(q) \in Nat
  BY ThreadPoolAssumption DEF TypeOK, StageInv, Killing, Deaths

\* Deaths to come do not grow, and who could work still can.
LEMMA UsefulStays ==
  ASSUME IInv, TypeOK', StageInv', destructor'.at = "none" => destructor.at = "none",
         destructor.at = "none" =>
           \A q \in Pool : Useful(q) \subseteq Useful(q)' /\ Deaths(q)' <= Deaths(q)
  PROVE  UsefulInv'
<1> SUFFICES ASSUME destructor.at = "none", NEW q \in Pool
             PROVE  Cardinality(Useful(q)') > Deaths(q)'
  BY DEF UsefulInv
<1>1. Cardinality(Useful(q)) > Deaths(q)
  BY DEF IInv, UsefulInv
<1>2. IsFiniteSet(Useful(q)') /\ Cardinality(Useful(q)') \in Nat
  <2>1. Useful(q)' \in SUBSET Thread
    BY DEF Useful
  <2>2. QED BY <2>1, ThreadFacts, FS_Subset, FS_CardinalityType
<1>3. Cardinality(Useful(q)) <= Cardinality(Useful(q)')
  BY <1>2, FS_Subset
<1>4. Deaths(q) \in Nat /\ Deaths(q)' \in Nat
  <2>1. Deaths(q) \in Nat
    BY DeathsType DEF IInv
  <2>2. monitor'.left \in Nat /\ (Killing' => monitor'.left > 0)
    BY ThreadPoolAssumption DEF TypeOK, StageInv
  <2>3. Deaths(q)' \in Nat
    BY <2>2 DEF Deaths, Killing
  <2>4. QED BY <2>1, <2>3
<1>5. QED BY <1>1, <1>2, <1>3, <1>4, Cardinalities

\* A worker that moves between places that have to do neither with a death nor,
\* if it could work, with its end.
LEMMA PlainMove ==
  ASSUME IInv, NEW p \in Pool, NEW t \in Thread, NEW l \in ThreadState, Goto(p, t, l),
         pc[p][t] \notin {"dying", "announced"}, l \notin {"dying", "announced"},
         destructor.at # "none" \/ l \in {"created", "idle", "popped", "handling"},
         UNCHANGED OtherVars, UNCHANGED <<queue, deleted>>, TypeOK', StageInv'
  PROVE  UsefulInv' /\ \A q \in Pool : DeathInv(q)'
<1>1. \A q \in Pool, u \in Thread : pc'[q][u] = IF q = p /\ u = t THEN l ELSE pc[q][u]
  BY Move DEF IInv
<1>2. UNCHANGED <<monitor, destructor>>
  BY DEF OtherVars
<1>3. ASSUME NEW q \in Pool PROVE DeathInv(q)' /\ (HasNull(q)' <=> HasNull(q))
  <2>1. DeathInv(q)
    BY DEF IInv
  <2>2. \A u \in Thread : /\ pc'[q][u] = "dying" <=> pc[q][u] = "dying"
                          /\ pc'[q][u] = "announced" <=> pc[q][u] = "announced"
    BY <1>1
  <2>3. (HasNull(q)' <=> HasNull(q)) /\ (IsDying(q)' <=> IsDying(q)) /\ (IsTold(q)' <=> IsTold(q))
    BY <2>2 DEF HasNull, IsDying, IsTold
  <2>4. DeathInv(q)'
    BY <1>2, <2>1, <2>2, <2>3 DEF DeathInv, Await, Join
  <2>5. QED BY <2>3, <2>4
<1>4. ASSUME NEW q \in Pool, destructor.at = "none"
      PROVE  Useful(q) \subseteq Useful(q)' /\ Deaths(q)' <= Deaths(q)
  <2>1. Deaths(q)' = Deaths(q)
    BY <1>2, <1>3 DEF Deaths, Killing
  <2>2. Useful(q) \subseteq Useful(q)'
    BY <1>1, <1>4 DEF Useful
  <2>3. QED BY <2>1, <2>2, DeathsType DEF IInv
<1>5. QED BY <1>2, <1>3, <1>4, UsefulStays

\* A request that is popped has moved from the queue to the thread.
LEMMA PopFacts ==
  ASSUME IInv, NEW p \in Pool, NEW t \in Thread, holding[p][t] = Null,
         queue[p] # << >>, Head(queue[p]) # Null,
         queue' = [queue EXCEPT ![p] = Tail(@)],
         holding' = [holding EXCEPT ![p][t] = Head(queue[p])],
         UNCHANGED <<arrived, handled>>
  PROVE  /\ queue' \in [Pool -> Seq(Request \cup {Null})]
         /\ holding' \in [Pool -> [Thread -> Request \cup {Null}]]
         /\ \A q \in Pool, u \in Thread :
              holding'[q][u] = IF q = p /\ u = t THEN Head(queue[p]) ELSE holding[q][u]
         /\ \A q \in Pool \ {p} : queue'[q] = queue[q]
         /\ HasNull(p)' <=> HasNull(p)
         /\ DeathInv(p) =>
              \A i, j \in 1 .. Len(queue'[p]) :
                queue'[p][i] = Null /\ queue'[p][j] = Null => i = j
         /\ PlaceInv(p)'
<1>1. /\ queue \in [Pool -> Seq(Request \cup {Null})]
      /\ holding \in [Pool -> [Thread -> Request \cup {Null}]]
      /\ queue[p] \in Seq(Request \cup {Null})
  BY DEF IInv, TypeOK
<1> DEFINE s == queue[p]  r == Head(queue[p])
<1>2. /\ Tail(s) \in Seq(Request \cup {Null}) /\ Len(s) \in Nat /\ Len(s) > 0
      /\ r = s[1] /\ r \in Request \cup {Null}
      /\ Len(Tail(s)) = Len(s) - 1
      /\ \A i \in 1 .. Len(Tail(s)) : i + 1 \in 1 .. Len(s) /\ Tail(s)[i] = s[i + 1]
  BY <1>1, TailFacts
<1>3. queue' \in [Pool -> Seq(Request \cup {Null})] /\ queue'[p] = Tail(s)
      /\ \A q \in Pool \ {p} : queue'[q] = queue[q]
  BY <1>1, <1>2
<1>4. /\ holding' \in [Pool -> [Thread -> Request \cup {Null}]]
      /\ \A q \in Pool, u \in Thread :
           holding'[q][u] = IF q = p /\ u = t THEN r ELSE holding[q][u]
  BY <1>1, <1>2
<1> HIDE DEF r, s
<1>5. \A i \in 1 .. Len(s) : i = 1 \/ (i - 1 \in 1 .. Len(Tail(s)) /\ Tail(s)[i - 1] = s[i])
  <2> SUFFICES ASSUME NEW i \in 1 .. Len(s), i # 1
               PROVE  i - 1 \in 1 .. Len(Tail(s)) /\ Tail(s)[i - 1] = s[i]
    OBVIOUS
  <2>1. i - 1 \in 1 .. Len(Tail(s)) /\ (i - 1) + 1 = i
    BY <1>2
  <2>2. QED BY <1>2, <2>1
<1>6. r # Null
  BY DEF r
<1>7. HasNull(p)' <=> HasNull(p)
  <2>1. ASSUME HasNull(p)' PROVE HasNull(p)
    <3>1. PICK i \in 1 .. Len(Tail(s)) : Tail(s)[i] = Null
      BY <1>3, <2>1 DEF HasNull
    <3>2. QED BY <1>2, <3>1 DEF HasNull, s
  <2>2. ASSUME HasNull(p) PROVE HasNull(p)'
    <3>1. PICK i \in 1 .. Len(s) : s[i] = Null
      BY <2>2 DEF HasNull, s
    <3>2. i - 1 \in 1 .. Len(Tail(s)) /\ Tail(s)[i - 1] = Null
      BY <1>2, <1>5, <1>6, <3>1
    <3>3. QED BY <1>3, <3>2 DEF HasNull
  <2>3. QED BY <2>1, <2>2
<1>8. ASSUME DeathInv(p), NEW i \in 1 .. Len(queue'[p]), NEW j \in 1 .. Len(queue'[p]),
             queue'[p][i] = Null, queue'[p][j] = Null
      PROVE  i = j
  <2>1. s[i + 1] = Null /\ s[j + 1] = Null /\ i + 1 \in 1 .. Len(s) /\ j + 1 \in 1 .. Len(s)
    BY <1>2, <1>3, <1>8
  <2>2. i + 1 = j + 1
    BY <1>8, <2>1 DEF DeathInv, s
  <2>3. QED BY <1>2, <1>3, <2>2
<1>9. PlaceInv(p)'
  <2>1. PlaceInv(p) /\ 1 \in 1 .. Len(s)
    BY <1>2 DEF IInv
  <2>2. /\ PoolOf[r] = p /\ r \in arrived \ handled
        /\ \A j \in 1 .. Len(s) : s[j] = r => j = 1
        /\ \A u \in Thread : holding[p][u] # r
    BY <1>2, <1>6, <2>1 DEF PlaceInv, s
  <2>3. ASSUME NEW i \in 1 .. Len(queue'[p]), queue'[p][i] # Null
        PROVE  /\ PoolOf[queue'[p][i]] = p /\ queue'[p][i] \in arrived' \ handled'
               /\ \A j \in 1 .. Len(queue'[p]) : queue'[p][i] = queue'[p][j] => i = j
               /\ \A u \in Thread : holding'[p][u] # queue'[p][i]
    <3>1. queue'[p][i] = s[i + 1] /\ i + 1 \in 1 .. Len(s) /\ i + 1 # 1 /\ i \in Nat
      BY <1>2, <1>3
    <3>2. /\ PoolOf[s[i + 1]] = p /\ s[i + 1] \in arrived \ handled
          /\ \A j \in 1 .. Len(s) : s[i + 1] = s[j] => i + 1 = j
          /\ \A u \in Thread : holding[p][u] # s[i + 1]
      BY <2>1, <2>3, <3>1 DEF PlaceInv, s
    <3>3. s[i + 1] # r
      BY <2>2, <3>1
    <3>4. \A j \in 1 .. Len(queue'[p]) : queue'[p][i] = queue'[p][j] => i = j
      <4> SUFFICES ASSUME NEW j \in 1 .. Len(queue'[p]), queue'[p][i] = queue'[p][j]
                   PROVE  i = j
        OBVIOUS
      <4>1. s[i + 1] = s[j + 1] /\ j + 1 \in 1 .. Len(s) /\ j \in Nat
        BY <1>2, <1>3, <3>1
      <4>2. i + 1 = j + 1
        BY <3>2, <4>1
      <4>3. QED BY <3>1, <4>1, <4>2
    <3>5. QED BY <1>4, <3>1, <3>2, <3>3, <3>4
  <2>4. ASSUME NEW u \in Thread, holding'[p][u] # Null
        PROVE  /\ PoolOf[holding'[p][u]] = p /\ holding'[p][u] \in arrived' \ handled'
               /\ \A v \in Thread : holding'[p][u] = holding'[p][v] => u = v
    BY <1>4, <2>1, <2>2, <2>4 DEF PlaceInv
  <2>5. ASSUME NEW x \in arrived' \ handled', PoolOf[x] = p
        PROVE  \/ \E i \in 1 .. Len(queue'[p]) : queue'[p][i] = x
               \/ \E u \in Thread : holding'[p][u] = x
    <3>1. CASE x = r
      BY <1>4, <3>1
    <3>2. CASE x # r /\ \E i \in 1 .. Len(s) : s[i] = x
      <4>1. PICK i \in 1 .. Len(s) : s[i] = x
        BY <3>2
      <4>2. i # 1
        BY <1>2, <3>2, <4>1
      <4>3. QED BY <1>3, <1>5, <4>1, <4>2
    <3>3. CASE \E u \in Thread : holding[p][u] = x
      <4>1. PICK u \in Thread : holding[p][u] = x
        BY <3>3
      <4>2. CASE u = t
        <5>1. x = Null
          BY <4>1, <4>2
        <5>2. QED BY <5>1, ThreadPoolAssumption DEF IInv, TypeOK
      <4>3. CASE u # t
        BY <1>4, <4>1, <4>3
      <4>4. QED BY <4>2, <4>3
    <3>4. QED BY <2>1, <2>5, <3>1, <3>2, <3>3 DEF PlaceInv, s
  <2>6. QED BY <2>3, <2>4, <2>5 DEF PlaceInv
<1>10. QED BY <1>3, <1>4, <1>7, <1>8, <1>9 DEF r

\* A request that is handled has left its thread for good.
LEMMA FinishFacts ==
  ASSUME IInv, NEW p \in Pool, NEW t \in Thread, holding[p][t] # Null,
         handled' = handled \cup {holding[p][t]},
         holding' = [holding EXCEPT ![p][t] = Null],
         UNCHANGED <<queue, arrived>>
  PROVE  /\ handled' \in SUBSET arrived
         /\ holding' \in [Pool -> [Thread -> Request \cup {Null}]]
         /\ \A q \in Pool, u \in Thread :
              holding'[q][u] = IF q = p /\ u = t THEN Null ELSE holding[q][u]
         /\ TypeOK' => \A q \in Pool : PlaceInv(q)'
<1> DEFINE r == holding[p][t]
<1>1. /\ holding \in [Pool -> [Thread -> Request \cup {Null}]] /\ r \in Request
      /\ queue[p] \in Seq(Request \cup {Null}) /\ handled \subseteq arrived
      /\ arrived \subseteq Request
  BY DEF IInv, TypeOK
<1>2. /\ holding' \in [Pool -> [Thread -> Request \cup {Null}]]
      /\ \A q \in Pool, u \in Thread :
           holding'[q][u] = IF q = p /\ u = t THEN Null ELSE holding[q][u]
  BY <1>1
<1>3. PlaceInv(p)
  BY DEF IInv
<1>4. /\ PoolOf[r] = p /\ r \in arrived \ handled
      /\ \A u \in Thread : holding[p][u] = r => u = t
      /\ \A i \in 1 .. Len(queue[p]) : queue[p][i] # r
  BY <1>3 DEF PlaceInv
<1>5. handled' \in SUBSET arrived
  BY <1>1, <1>4
<1> HIDE DEF r
<1>6. handled' = handled \cup {r} /\ arrived' = arrived /\ queue' = queue
  BY DEF r
<1>7. ASSUME TypeOK', NEW q \in Pool PROVE PlaceInv(q)'
  <2>1. CASE q # p
    <3>1. \A x \in Request : PoolOf[x] = q => (x \in arrived' \ handled' <=> x \in arrived \ handled)
      BY <1>4, <1>6, <2>1
    <3>2. \A u \in Thread : holding'[q][u] = holding[q][u]
      BY <1>2, <2>1
    <3>3. QED BY <1>6, <1>7, <3>1, <3>2, PlaceStays DEF IInv
  <2>2. CASE q = p
    <3>1. ASSUME NEW i \in 1 .. Len(queue[p]), queue[p][i] # Null
          PROVE  /\ PoolOf[queue[p][i]] = p /\ queue[p][i] \in arrived' \ handled'
                 /\ \A j \in 1 .. Len(queue[p]) : queue[p][i] = queue[p][j] => i = j
                 /\ \A u \in Thread : holding'[p][u] # queue[p][i]
      BY <1>2, <1>3, <1>4, <1>6, <3>1 DEF PlaceInv
    <3>2. ASSUME NEW u \in Thread, holding'[p][u] # Null
          PROVE  /\ PoolOf[holding'[p][u]] = p /\ holding'[p][u] \in arrived' \ handled'
                 /\ \A v \in Thread : holding'[p][u] = holding'[p][v] => u = v
      BY <1>2, <1>3, <1>4, <1>6, <3>2 DEF PlaceInv
    <3>3. ASSUME NEW x \in arrived' \ handled', PoolOf[x] = p
          PROVE  \/ \E i \in 1 .. Len(queue[p]) : queue[p][i] = x
                 \/ \E u \in Thread : holding'[p][u] = x
      <4>1. x \in arrived \ handled /\ x # r
        BY <1>6
      <4>2. CASE \E u \in Thread : holding[p][u] = x
        BY <1>2, <4>1, <4>2 DEF r
      <4>3. QED BY <1>3, <3>3, <4>1, <4>2 DEF PlaceInv
    <3>4. QED BY <1>6, <2>2, <3>1, <3>2, <3>3 DEF PlaceInv
  <2>3. QED BY <2>1, <2>2
<1>8. QED BY <1>2, <1>5, <1>7

----------------------------------------------------------------------------
(***************************************************************************)
(* The workers.                                                            *)
(***************************************************************************)
LEMMA Parts ==
  ASSUME IInv
  PROVE  /\ TypeOK /\ StageInv /\ AssignedInv /\ IdleInv /\ UsefulInv /\ HoldInv
         /\ \A p \in Pool : DeathInv(p) /\ PlaceInv(p)
         /\ queue \in [Pool -> Seq(Request \cup {Null})]
         /\ pc \in [Pool -> [Thread -> ThreadState]]
         /\ holding \in [Pool -> [Thread -> Request \cup {Null}]]
         /\ idle \in [Pool -> Nat] /\ deleted \in [Pool -> Seq(Thread)]
         /\ handled \in SUBSET arrived
  BY DEF IInv, TypeOK

LEMMA BecomeIdleStep ==
  ASSUME IInv, NEW p \in Pool, NEW t \in Thread, BecomeIdle(p, t)
  PROVE  IInv'
<1>1. /\ pc[p][t] = "created" /\ Goto(p, t, "idle") /\ Count(p, 1)
      /\ UNCHANGED <<handled, queue, holding, deleted>> /\ UNCHANGED OtherVars
  BY DEF BecomeIdle
<1>2. /\ pc' \in [Pool -> [Thread -> ThreadState]]
      /\ \A q \in Pool, u \in Thread : pc'[q][u] = IF q = p /\ u = t THEN "idle" ELSE pc[q][u]
  BY <1>1, Move, Parts DEF ThreadState
<1>3. IdleInv' /\ idle' \in [Pool -> Nat]
  BY <1>1, CountsIn, Parts DEF ThreadState, CountedState
<1>4. TypeOK' /\ StageInv' /\ AssignedInv'
  BY <1>1, <1>3, WorkerFrame, Parts DEF ThreadState
<1>5. UsefulInv' /\ \A q \in Pool : DeathInv(q)'
  BY <1>1, <1>4, PlainMove DEF ThreadState
<1>6. HoldInv'
  BY <1>1, <1>2, Parts DEF HoldInv
<1>7. \A q \in Pool : PlaceInv(q)'
  BY <1>1, <1>4, PlaceStays, Parts DEF OtherVars
<1>8. QED BY <1>3, <1>4, <1>5, <1>6, <1>7 DEF IInv

LEMMA PopRequestStep ==
  ASSUME IInv, NEW p \in Pool, NEW t \in Thread, PopRequest(p, t)
  PROVE  IInv'
<1>1. /\ pc[p][t] = "idle" /\ Goto(p, t, "popped")
      /\ queue[p] # << >> /\ Head(queue[p]) # Null
      /\ queue' = [queue EXCEPT ![p] = Tail(@)]
      /\ holding' = [holding EXCEPT ![p][t] = Head(queue[p])]
      /\ UNCHANGED <<handled, idle, deleted>> /\ UNCHANGED OtherVars
  BY DEF PopRequest
<1>2. /\ pc' \in [Pool -> [Thread -> ThreadState]]
      /\ \A q \in Pool, u \in Thread : pc'[q][u] = IF q = p /\ u = t THEN "popped" ELSE pc[q][u]
  BY <1>1, Move, Parts DEF ThreadState
<1>3. holding[p][t] = Null /\ UNCHANGED <<arrived, handled>>
  BY <1>1, Parts DEF HoldInv, OtherVars
<1>4. /\ queue' \in [Pool -> Seq(Request \cup {Null})]
      /\ holding' \in [Pool -> [Thread -> Request \cup {Null}]]
      /\ \A q \in Pool, u \in Thread :
           holding'[q][u] = IF q = p /\ u = t THEN Head(queue[p]) ELSE holding[q][u]
      /\ \A q \in Pool \ {p} : queue'[q] = queue[q]
      /\ HasNull(p)' <=> HasNull(p)
      /\ DeathInv(p) =>
           \A i, j \in 1 .. Len(queue'[p]) :
             queue'[p][i] = Null /\ queue'[p][j] = Null => i = j
      /\ PlaceInv(p)'
  BY <1>1, <1>3, PopFacts
<1>5. IdleInv' /\ idle' \in [Pool -> Nat]
  BY <1>1, IdleStays, Parts DEF ThreadState, CountedState
<1>6. TypeOK' /\ StageInv' /\ AssignedInv'
  BY <1>1, <1>4, <1>5, WorkerFrame, Parts DEF ThreadState
<1>7. HoldInv'
  BY <1>1, <1>2, <1>4, Parts DEF HoldInv
<1>8. ASSUME NEW q \in Pool PROVE DeathInv(q)' /\ PlaceInv(q)' /\ (HasNull(q)' <=> HasNull(q))
  <2>1. UNCHANGED <<monitor, deleted>>
    BY <1>1 DEF OtherVars
  <2>2. CASE q = p
    <3>1. DeathInv(p)
      BY Parts
    <3>2. \A u \in Thread : /\ pc'[p][u] = "dying" <=> pc[p][u] = "dying"
                            /\ pc'[p][u] = "announced" <=> pc[p][u] = "announced"
      BY <1>1, <1>2
    <3>3. (IsDying(p)' <=> IsDying(p)) /\ (IsTold(p)' <=> IsTold(p))
      BY <2>1, <3>2 DEF IsDying, IsTold
    <3>4. DeathInv(p)'
      BY <1>4, <2>1, <3>1, <3>2, <3>3 DEF DeathInv, Await, Join
    <3>5. QED BY <1>4, <2>2, <3>4
  <2>3. CASE q # p
    <3>1. queue'[q] = queue[q] /\ \A u \in Thread : /\ pc'[q][u] = pc[q][u]
                                                   /\ holding'[q][u] = holding[q][u]
      BY <1>2, <1>4, <2>3
    <3>2. QED BY <1>3, <1>6, <2>1, <3>1, DeathStays, PlaceStays, Parts
  <2>4. QED BY <2>2, <2>3
<1>9. UsefulInv'
  <2>1. ASSUME NEW q \in Pool PROVE Useful(q) \subseteq Useful(q)' /\ Deaths(q)' <= Deaths(q)
    <3>1. Deaths(q)' = Deaths(q)
      BY <1>1, <1>8 DEF Deaths, Killing, OtherVars
    <3>2. Useful(q) \subseteq Useful(q)'
      BY <1>1, <1>2 DEF Useful
    <3>3. QED BY <3>1, <3>2, DeathsType, Parts
  <2>2. QED BY <1>1, <1>6, <2>1, UsefulStays DEF OtherVars
<1>10. QED BY <1>5, <1>6, <1>7, <1>8, <1>9 DEF IInv

LEMMA CountOutStep ==
  ASSUME IInv, NEW p \in Pool, NEW t \in Thread, CountOut(p, t)
  PROVE  IInv'
<1>1. /\ pc[p][t] = "popped" /\ Goto(p, t, "handling") /\ Count(p, -1)
      /\ UNCHANGED <<handled, queue, holding, deleted>> /\ UNCHANGED OtherVars
  BY DEF CountOut
<1>2. /\ pc' \in [Pool -> [Thread -> ThreadState]]
      /\ \A q \in Pool, u \in Thread : pc'[q][u] = IF q = p /\ u = t THEN "handling" ELSE pc[q][u]
  BY <1>1, Move, Parts DEF ThreadState
<1>3. IdleInv' /\ idle' \in [Pool -> Nat]
  BY <1>1, CountsOut, Parts DEF ThreadState, CountedState
<1>4. TypeOK' /\ StageInv' /\ AssignedInv'
  BY <1>1, <1>3, WorkerFrame, Parts DEF ThreadState
<1>5. UsefulInv' /\ \A q \in Pool : DeathInv(q)'
  BY <1>1, <1>4, PlainMove DEF ThreadState
<1>6. HoldInv'
  BY <1>1, <1>2, Parts DEF HoldInv
<1>7. \A q \in Pool : PlaceInv(q)'
  BY <1>1, <1>4, PlaceStays, Parts DEF OtherVars
<1>8. QED BY <1>3, <1>4, <1>5, <1>6, <1>7 DEF IInv

LEMMA HandleStep ==
  ASSUME IInv, NEW p \in Pool, NEW t \in Thread, Handle(p, t)
  PROVE  IInv'
<1>1. /\ pc[p][t] = "handling" /\ Goto(p, t, "idle") /\ Count(p, 1)
      /\ handled' = handled \cup {holding[p][t]}
      /\ holding' = [holding EXCEPT ![p][t] = Null]
      /\ UNCHANGED <<queue, deleted>> /\ UNCHANGED OtherVars
  BY DEF Handle
<1>2. /\ pc' \in [Pool -> [Thread -> ThreadState]]
      /\ \A q \in Pool, u \in Thread : pc'[q][u] = IF q = p /\ u = t THEN "idle" ELSE pc[q][u]
  BY <1>1, Move, Parts DEF ThreadState
<1>3. holding[p][t] # Null /\ UNCHANGED <<queue, arrived>>
  BY <1>1, Parts DEF HoldInv, OtherVars
<1>4. /\ handled' \in SUBSET arrived
      /\ holding' \in [Pool -> [Thread -> Request \cup {Null}]]
      /\ \A q \in Pool, u \in Thread :
           holding'[q][u] = IF q = p /\ u = t THEN Null ELSE holding[q][u]
      /\ TypeOK' => \A q \in Pool : PlaceInv(q)'
  BY <1>1, <1>3, FinishFacts
<1>5. IdleInv' /\ idle' \in [Pool -> Nat]
  BY <1>1, CountsIn, Parts DEF ThreadState, CountedState
<1>6. TypeOK' /\ StageInv' /\ AssignedInv'
  BY <1>1, <1>4, <1>5, WorkerFrame, Parts DEF ThreadState
<1>7. UsefulInv' /\ \A q \in Pool : DeathInv(q)'
  BY <1>1, <1>6, PlainMove DEF ThreadState
<1>8. HoldInv'
  BY <1>1, <1>2, <1>4, Parts DEF HoldInv
<1>9. QED BY <1>4, <1>5, <1>6, <1>7, <1>8 DEF IInv

\* The NULL is gone and the thread dies of it: one death less to come, and one
\* thread less.
LEMMA PopNullStep ==
  ASSUME IInv, NEW p \in Pool, NEW t \in Thread, PopNull(p, t)
  PROVE  IInv'
<1>1. /\ pc[p][t] = "idle" /\ Goto(p, t, "dying")
      /\ queue[p] # << >> /\ Head(queue[p]) = Null
      /\ queue' = [queue EXCEPT ![p] = Tail(@)]
      /\ UNCHANGED <<handled, holding, idle, deleted>> /\ UNCHANGED OtherVars
  BY DEF PopNull
<1>2. /\ pc' \in [Pool -> [Thread -> ThreadState]]
      /\ \A q \in Pool, u \in Thread : pc'[q][u] = IF q = p /\ u = t THEN "dying" ELSE pc[q][u]
  BY <1>1, Move, Parts DEF ThreadState
<1> DEFINE s == queue[p]
<1>3. /\ Tail(s) \in Seq(Request \cup {Null}) /\ Len(s) \in Nat /\ Len(s) > 0 /\ s[1] = Null
      /\ Len(Tail(s)) = Len(s) - 1
      /\ \A i \in 1 .. Len(Tail(s)) : i + 1 \in 1 .. Len(s) /\ Tail(s)[i] = s[i + 1]
  <2>1. queue[p] \in Seq(Request \cup {Null})
    BY Parts
  <2>2. QED BY <1>1, <2>1, TailFacts
<1>4. queue' \in [Pool -> Seq(Request \cup {Null})] /\ queue'[p] = Tail(s)
      /\ \A q \in Pool \ {p} : queue'[q] = queue[q]
  BY <1>1, <1>3, Parts
<1> HIDE DEF s
<1>5. UNCHANGED <<arrived, handled, holding, monitor, deleted, destructor>>
  BY <1>1 DEF OtherVars
<1>6. IdleInv' /\ idle' \in [Pool -> Nat]
  BY <1>1, IdleStays, Parts DEF ThreadState, CountedState
<1>7. TypeOK' /\ StageInv' /\ AssignedInv'
  BY <1>1, <1>4, <1>6, WorkerFrame, Parts DEF ThreadState
<1>8. HoldInv'
  <2>1. holding' = holding /\ pc[p][t] = "idle" /\ HoldInv
    BY <1>1, Parts
  <2>2. QED BY <1>2, <2>1 DEF HoldInv
<1>9. /\ HasNull(p) /\ ~ HasNull(p)' /\ Await(p) /\ ~ IsDying(p) /\ ~ IsTold(p)
      /\ \A i \in 1 .. Len(Tail(s)) : Tail(s)[i] # Null
  <2>1. 1 \in 1 .. Len(s)
    BY <1>3
  <2>2. HasNull(p)
    BY <1>3, <2>1 DEF HasNull, s
  <2>3. DeathInv(p)
    BY Parts
  <2>4. \A i \in 1 .. Len(s) : s[i] = Null => i = 1
    BY <1>3, <2>1, <2>3 DEF DeathInv, s
  <2>5. \A i \in 1 .. Len(Tail(s)) : Tail(s)[i] # Null
    <3> SUFFICES ASSUME NEW i \in 1 .. Len(Tail(s)), s[i + 1] = Null PROVE FALSE
      BY <1>3
    <3>1. i + 1 = 1
      BY <1>3, <2>4
    <3>2. QED BY <1>3, <3>1
  <2>6. ~ HasNull(p)'
    BY <1>4, <2>5 DEF HasNull
  <2>7. QED BY <2>2, <2>3, <2>5, <2>6 DEF DeathInv
<1>10. DeathInv(p)'
  <2>1. DeathInv(p) /\ \A u \in Thread : pc[p][u] # "dying"
    BY <1>9, Parts DEF IsDying
  <2>2. Await(p)' /\ ~ IsTold(p)'
    BY <1>5, <1>9 DEF Await, IsTold
  <2>3. \A u, v \in Thread : pc'[p][u] = "dying" /\ pc'[p][v] = "dying" => u = v
    BY <1>2, <2>1
  <2>4. \A u \in Thread : pc'[p][u] # "announced"
    <3> SUFFICES ASSUME NEW u \in Thread, pc'[p][u] = "announced" PROVE FALSE
      OBVIOUS
    <3>1. pc[p][u] = "announced"
      BY <1>2
    <3>2. deleted[p] = <<u>> \/ Join(p)
      BY <2>1, <3>1 DEF DeathInv
    <3>3. deleted[p] = << >> /\ ~ Join(p)
      BY <1>9 DEF IsTold, Await, Join
    <3>4. QED BY <3>2, <3>3
  <2>5. Len(deleted'[p]) <= 1
    BY <1>5, <2>1 DEF DeathInv
  <2>6. QED BY <1>4, <1>9, <2>2, <2>3, <2>4, <2>5 DEF DeathInv
<1>11. PlaceInv(p)'
  <2>1. PlaceInv(p)
    BY Parts
  <2>2. ASSUME NEW i \in 1 .. Len(queue'[p]), queue'[p][i] # Null
        PROVE  /\ PoolOf[queue'[p][i]] = p /\ queue'[p][i] \in arrived' \ handled'
               /\ \A j \in 1 .. Len(queue'[p]) : queue'[p][i] = queue'[p][j] => i = j
               /\ \A u \in Thread : holding'[p][u] # queue'[p][i]
    <3>1. queue'[p][i] = s[i + 1] /\ i + 1 \in 1 .. Len(s) /\ i \in Nat
      BY <1>3, <1>4
    <3>2. /\ PoolOf[s[i + 1]] = p /\ s[i + 1] \in arrived \ handled
          /\ \A j \in 1 .. Len(s) : s[i + 1] = s[j] => i + 1 = j
          /\ \A u \in Thread : holding[p][u] # s[i + 1]
      BY <2>1, <2>2, <3>1 DEF PlaceInv, s
    <3>3. \A j \in 1 .. Len(queue'[p]) : queue'[p][i] = queue'[p][j] => i = j
      <4> SUFFICES ASSUME NEW j \in 1 .. Len(queue'[p]), queue'[p][i] = queue'[p][j]
                   PROVE  i = j
        OBVIOUS
      <4>1. s[i + 1] = s[j + 1] /\ j + 1 \in 1 .. Len(s) /\ j \in Nat
        BY <1>3, <1>4, <3>1
      <4>2. i + 1 = j + 1
        BY <3>2, <4>1
      <4>3. QED BY <3>1, <4>1, <4>2
    <3>4. QED BY <1>5, <3>1, <3>2, <3>3
  <2>3. ASSUME NEW x \in arrived \ handled, PoolOf[x] = p, NEW i \in 1 .. Len(s), s[i] = x
        PROVE  \E j \in 1 .. Len(queue'[p]) : queue'[p][j] = x
    <3>1. i # 1
      BY <1>3, <2>3, ThreadPoolAssumption, Parts DEF TypeOK
    <3>2. i - 1 \in 1 .. Len(Tail(s)) /\ (i - 1) + 1 = i
      BY <1>3, <3>1
    <3>3. Tail(s)[i - 1] = x
      BY <1>3, <2>3, <3>2
    <3>4. QED BY <1>4, <3>2, <3>3
  <2>4. ASSUME NEW x \in arrived' \ handled', PoolOf[x] = p
        PROVE  \/ \E j \in 1 .. Len(queue'[p]) : queue'[p][j] = x
               \/ \E u \in Thread : holding'[p][u] = x
    BY <1>5, <2>1, <2>3, <2>4 DEF PlaceInv, s
  <2>5. \A u \in Thread : holding'[p][u] # Null =>
          /\ PoolOf[holding'[p][u]] = p /\ holding'[p][u] \in arrived' \ handled'
          /\ \A v \in Thread : holding'[p][u] = holding'[p][v] => u = v
    BY <1>5, <2>1 DEF PlaceInv
  <2>6. QED BY <2>2, <2>4, <2>5 DEF PlaceInv
<1>12. ASSUME NEW q \in Pool \ {p}
       PROVE  DeathInv(q)' /\ PlaceInv(q)' /\ (HasNull(q)' <=> HasNull(q))
  BY <1>2, <1>4, <1>5, <1>7, DeathStays, PlaceStays, Parts
<1>13. UsefulInv'
  <2> SUFFICES ASSUME destructor.at = "none", NEW q \in Pool
               PROVE  Cardinality(Useful(q)') > Deaths(q)'
    BY <1>5 DEF UsefulInv
  <2>1. Cardinality(Useful(q)) > Deaths(q) /\ Deaths(q) \in Nat
    BY Parts, DeathsType DEF UsefulInv
  <2>2. CASE q = p
    <3>1. Useful(p)' = Useful(p) \ {t} /\ t \in Useful(p)
      BY <1>1, <1>2 DEF Useful
    <3>2. Cardinality(Useful(p)') = Cardinality(Useful(p)) - 1
      BY <3>1, Cardinalities, FS_RemoveElement
    <3>3. Deaths(p)' = Deaths(p) - 1
      BY <1>5, <1>9 DEF Deaths, Killing, Await
    <3>4. QED BY <2>1, <2>2, <3>2, <3>3, Cardinalities
  <2>3. CASE q # p
    <3>1. Useful(q)' = Useful(q)
      BY <1>2, <2>3 DEF Useful
    <3>2. Deaths(q)' = Deaths(q)
      BY <1>5, <1>12, <2>3 DEF Deaths, Killing
    <3>3. QED BY <2>1, <3>1, <3>2
  <2>4. QED BY <2>2, <2>3
<1>14. QED BY <1>6, <1>7, <1>8, <1>10, <1>11, <1>12, <1>13 DEF IInv

LEMMA AnnounceStep ==
  ASSUME IInv, NEW p \in Pool, NEW t \in Thread, Announce(p, t)
  PROVE  IInv'
<1>1. /\ pc[p][t] = "dying" /\ Goto(p, t, "announced")
      /\ deleted' = [deleted EXCEPT ![p] = Append(@, t)]
      /\ UNCHANGED <<handled, queue, holding, idle>> /\ UNCHANGED OtherVars
  BY DEF Announce
<1>2. /\ pc' \in [Pool -> [Thread -> ThreadState]]
      /\ \A q \in Pool, u \in Thread :
           pc'[q][u] = IF q = p /\ u = t THEN "announced" ELSE pc[q][u]
  BY <1>1, Move, Parts DEF ThreadState
<1>3. UNCHANGED <<arrived, handled, queue, holding, monitor, destructor>>
  BY <1>1 DEF OtherVars
<1>4. IsDying(p) /\ ~ IsTold(p) /\ ~ HasNull(p) /\ Await(p)
  BY <1>1, Parts DEF DeathInv, IsDying
<1>5. deleted' \in [Pool -> Seq(Thread)] /\ deleted'[p] = <<t>>
      /\ \A q \in Pool \ {p} : deleted'[q] = deleted[q]
  <2>1. deleted[p] = << >>
    BY <1>4 DEF IsTold
  <2>2. Append(deleted[p], t) = <<t>> /\ <<t>> \in Seq(Thread)
    BY <2>1
  <2>3. QED BY <1>1, <2>2, Parts
<1>6. IdleInv' /\ idle' \in [Pool -> Nat]
  BY <1>1, IdleStays, Parts DEF ThreadState, CountedState
<1>7. TypeOK' /\ StageInv' /\ AssignedInv'
  BY <1>1, <1>5, <1>6, WorkerFrame, Parts DEF ThreadState
<1>8. HoldInv'
  <2>1. holding' = holding /\ pc[p][t] = "dying" /\ HoldInv
    BY <1>1, Parts
  <2>2. QED BY <1>2, <2>1 DEF HoldInv
<1>9. DeathInv(p)'
  <2>1. DeathInv(p)
    BY Parts
  <2>2. ~ HasNull(p)' /\ Await(p)' /\ \A i \in 1 .. Len(queue'[p]) : queue'[p][i] # Null
    BY <1>3, <1>4 DEF HasNull, Await
  <2>3. \A u \in Thread : pc'[p][u] # "dying"
    BY <1>1, <1>2, <2>1 DEF DeathInv
  <2>4. \A u \in Thread : pc'[p][u] = "announced" => u = t
    <3> SUFFICES ASSUME NEW u \in Thread, pc[p][u] = "announced" PROVE FALSE
      BY <1>2
    <3>1. deleted[p] = <<u>> \/ Join(p)
      BY <2>1 DEF DeathInv
    <3>2. deleted[p] = << >> /\ ~ Join(p)
      BY <1>4 DEF IsTold, Await, Join
    <3>3. QED BY <3>1, <3>2
  <2>5. Len(deleted'[p]) <= 1
    BY <1>5
  <2>6. QED BY <1>5, <2>2, <2>3, <2>4, <2>5 DEF DeathInv, IsDying
<1>10. ASSUME NEW q \in Pool \ {p} PROVE DeathInv(q)'
  BY <1>2, <1>3, <1>5, DeathStays, Parts
<1>11. \A q \in Pool : PlaceInv(q)'
  BY <1>3, <1>7, PlaceStays, Parts
<1>12. UsefulInv'
  <2>1. ASSUME NEW q \in Pool PROVE Useful(q) \subseteq Useful(q)' /\ Deaths(q)' <= Deaths(q)
    <3>1. Deaths(q)' = Deaths(q)
      BY <1>3 DEF Deaths, Killing, HasNull
    <3>2. Useful(q) \subseteq Useful(q)'
      BY <1>1, <1>2 DEF Useful
    <3>3. QED BY <3>1, <3>2, DeathsType, Parts
  <2>2. QED BY <1>3, <1>7, <2>1, UsefulStays
<1>13. QED BY <1>6, <1>7, <1>8, <1>9, <1>10, <1>11, <1>12 DEF IInv

LEMMA DieStep ==
  ASSUME IInv, NEW p \in Pool, NEW t \in Thread, Die(p, t)
  PROVE  IInv'
<1>1. /\ pc[p][t] \in {"announced", "drained"} /\ Goto(p, t, "dead") /\ Count(p, -1)
      /\ UNCHANGED <<handled, queue, holding, deleted>> /\ UNCHANGED OtherVars
  BY DEF Die
<1>2. /\ pc' \in [Pool -> [Thread -> ThreadState]]
      /\ \A q \in Pool, u \in Thread : pc'[q][u] = IF q = p /\ u = t THEN "dead" ELSE pc[q][u]
  BY <1>1, Move, Parts DEF ThreadState
<1>3. UNCHANGED <<arrived, handled, queue, deleted, holding, monitor, destructor>>
  BY <1>1 DEF OtherVars
<1>4. IdleInv' /\ idle' \in [Pool -> Nat]
  <2>1. pc[p][t] \in CountedState /\ "dead" \notin CountedState /\ "dead" \in ThreadState
    BY <1>1 DEF CountedState, ThreadState
  <2>2. QED BY <1>1, <2>1, CountsOut, Parts
<1>5. TypeOK' /\ StageInv' /\ AssignedInv'
  BY <1>1, <1>4, WorkerFrame, Parts DEF ThreadState
<1>6. HoldInv'
  <2>1. holding' = holding /\ pc[p][t] \in {"announced", "drained"} /\ HoldInv
    BY <1>1, Parts
  <2>2. QED BY <1>2, <2>1 DEF HoldInv
<1>7. ASSUME NEW q \in Pool PROVE DeathInv(q)' /\ (HasNull(q)' <=> HasNull(q))
  <2>1. DeathInv(q)
    BY Parts
  <2>2. \A u \in Thread : /\ pc'[q][u] = "dying" <=> pc[q][u] = "dying"
                          /\ pc'[q][u] = "announced" => pc[q][u] = "announced"
    BY <1>1, <1>2
  <2>3. (HasNull(q)' <=> HasNull(q)) /\ (IsDying(q)' <=> IsDying(q)) /\ (IsTold(q)' <=> IsTold(q))
    BY <1>3, <2>2 DEF HasNull, IsDying, IsTold
  <2>4. DeathInv(q)'
    BY <1>3, <2>1, <2>2, <2>3 DEF DeathInv, Await, Join
  <2>5. QED BY <2>3, <2>4
<1>8. UsefulInv'
  <2>1. ASSUME NEW q \in Pool PROVE Useful(q) \subseteq Useful(q)' /\ Deaths(q)' <= Deaths(q)
    <3>1. Deaths(q)' = Deaths(q)
      BY <1>3, <1>7 DEF Deaths, Killing
    <3>2. Useful(q) \subseteq Useful(q)'
      BY <1>1, <1>2 DEF Useful
    <3>3. QED BY <3>1, <3>2, DeathsType, Parts
  <2>2. QED BY <1>3, <1>5, <2>1, UsefulStays
<1>9. \A q \in Pool : PlaceInv(q)'
  BY <1>3, <1>5, PlaceStays, Parts
<1>10. QED BY <1>4, <1>5, <1>6, <1>7, <1>8, <1>9 DEF IInv

\* While threads are stopped no NULL is in a queue: the monitor has ended.
LEMMA NoNullAtEnd ==
  ASSUME IInv, ~ Running, NEW p \in Pool
  PROVE  ~ HasNull(p) /\ destructor.at # "none"
  BY Parts DEF StageInv, DeathInv, Await, Running

LEMMA DrainStep ==
  ASSUME IInv, NEW p \in Pool, NEW t \in Thread, Drain(p, t)
  PROVE  IInv'
<1>1. pc[p][t] = "idle" /\ t \in stopped[p] /\ UNCHANGED <<handled, idle, deleted>>
      /\ UNCHANGED OtherVars
  BY DEF Drain
<1>2. ~ Running
  BY <1>1, Parts DEF StageInv
<1>3. ~ HasNull(p) /\ destructor.at # "none"
  BY <1>2, NoNullAtEnd
<1>4. holding[p][t] = Null
  BY <1>1, Parts DEF HoldInv
<1>5. UNCHANGED <<arrived, handled, deleted, monitor, destructor>>
  BY <1>1 DEF OtherVars
<1>6. CASE queue[p] = << >>
  <2>1. Goto(p, t, "drained") /\ UNCHANGED <<queue, holding>>
    BY <1>6 DEF Drain
  <2>2. \A q \in Pool, u \in Thread : pc'[q][u] = IF q = p /\ u = t THEN "drained" ELSE pc[q][u]
    BY <2>1, Move, Parts DEF ThreadState
  <2>3. IdleInv' /\ idle' \in [Pool -> Nat]
    BY <1>1, <2>1, IdleStays, Parts DEF ThreadState, CountedState
  <2>4. TypeOK' /\ StageInv' /\ AssignedInv'
    BY <1>1, <1>2, <2>1, <2>3, WorkerFrame, Parts DEF ThreadState
  <2>5. UsefulInv' /\ \A q \in Pool : DeathInv(q)'
    BY <1>1, <1>3, <2>1, <2>4, PlainMove DEF ThreadState
  <2>6. HoldInv'
    BY <1>1, <2>1, <2>2, Parts DEF HoldInv
  <2>7. \A q \in Pool : PlaceInv(q)'
    BY <1>5, <2>1, <2>4, PlaceStays, Parts
  <2>8. QED BY <2>3, <2>4, <2>5, <2>6, <2>7 DEF IInv
<1>7. CASE queue[p] # << >>
  <2>1. /\ Goto(p, t, "draining") /\ queue' = [queue EXCEPT ![p] = Tail(@)]
        /\ holding' = [holding EXCEPT ![p][t] = Head(queue[p])]
    BY <1>7 DEF Drain
  <2>2. \A q \in Pool, u \in Thread : pc'[q][u] = IF q = p /\ u = t THEN "draining" ELSE pc[q][u]
    BY <2>1, Move, Parts DEF ThreadState
  <2>3. Head(queue[p]) # Null
    <3>1. queue[p] \in Seq(Request \cup {Null})
      BY Parts
    <3>2. Head(queue[p]) = queue[p][1] /\ 1 \in 1 .. Len(queue[p])
      BY <1>7, <3>1
    <3>3. QED BY <1>3, <3>2 DEF HasNull
  <2>4. /\ queue' \in [Pool -> Seq(Request \cup {Null})]
        /\ holding' \in [Pool -> [Thread -> Request \cup {Null}]]
        /\ \A q \in Pool, u \in Thread :
             holding'[q][u] = IF q = p /\ u = t THEN Head(queue[p]) ELSE holding[q][u]
        /\ \A q \in Pool \ {p} : queue'[q] = queue[q]
        /\ HasNull(p)' <=> HasNull(p)
        /\ PlaceInv(p)'
    <3>1. UNCHANGED <<arrived, handled>>
      BY <1>5
    <3>2. /\ queue' = [queue EXCEPT ![p] = Tail(@)]
          /\ holding' = [holding EXCEPT ![p][t] = Head(queue[p])]
      BY <2>1
    <3>3. /\ queue' \in [Pool -> Seq(Request \cup {Null})]
          /\ holding' \in [Pool -> [Thread -> Request \cup {Null}]]
          /\ \A q \in Pool, u \in Thread :
               holding'[q][u] = IF q = p /\ u = t THEN Head(queue[p]) ELSE holding[q][u]
          /\ \A q \in Pool \ {p} : queue'[q] = queue[q]
          /\ HasNull(p)' <=> HasNull(p)
          /\ DeathInv(p) =>
               \A i, j \in 1 .. Len(queue'[p]) :
                 queue'[p][i] = Null /\ queue'[p][j] = Null => i = j
          /\ PlaceInv(p)'
      BY <1>4, <1>7, <2>3, <3>1, <3>2, PopFacts
    <3>4. QED BY <3>3
  <2>5. IdleInv' /\ idle' \in [Pool -> Nat]
    BY <1>1, <2>1, IdleStays, Parts DEF ThreadState, CountedState
  <2>6. TypeOK' /\ StageInv' /\ AssignedInv'
    BY <1>1, <1>2, <2>1, <2>4, <2>5, WorkerFrame, Parts DEF ThreadState
  <2>7. HoldInv'
    BY <1>1, <2>2, <2>3, <2>4, Parts DEF HoldInv
  <2>8. DeathInv(p)'
    <3>1. DeathInv(p) /\ ~ HasNull(p)'
      BY <1>3, <2>4, Parts
    <3>2. \A u \in Thread : /\ pc'[p][u] = "dying" <=> pc[p][u] = "dying"
                            /\ pc'[p][u] = "announced" => pc[p][u] = "announced"
      BY <1>1, <2>2
    <3>3. (IsDying(p)' <=> IsDying(p)) /\ (IsTold(p)' <=> IsTold(p))
      BY <1>5, <3>2 DEF IsDying, IsTold
    <3>4. \A i \in 1 .. Len(queue'[p]) : queue'[p][i] # Null
      BY <3>1 DEF HasNull
    <3>5. QED BY <1>5, <3>1, <3>2, <3>3, <3>4 DEF DeathInv, Await, Join
  <2>9. ASSUME NEW q \in Pool \ {p} PROVE DeathInv(q)' /\ PlaceInv(q)'
    BY <1>5, <2>2, <2>4, <2>6, DeathStays, PlaceStays, Parts
  <2>10. UsefulInv'
    BY <1>3, <1>5 DEF UsefulInv
  <2>11. QED BY <2>4, <2>5, <2>6, <2>7, <2>8, <2>9, <2>10 DEF IInv
<1>8. QED BY <1>6, <1>7

LEMMA HandleDrainedStep ==
  ASSUME IInv, NEW p \in Pool, NEW t \in Thread, HandleDrained(p, t)
  PROVE  IInv'
<1>1. /\ pc[p][t] = "draining" /\ Goto(p, t, "idle") /\ holding[p][t] # Null
      /\ handled' = handled \cup {holding[p][t]}
      /\ holding' = [holding EXCEPT ![p][t] = Null]
      /\ UNCHANGED <<queue, idle, deleted>> /\ UNCHANGED OtherVars
  BY DEF HandleDrained
<1>2. \A q \in Pool, u \in Thread : pc'[q][u] = IF q = p /\ u = t THEN "idle" ELSE pc[q][u]
  BY <1>1, Move, Parts DEF ThreadState
<1>3. UNCHANGED <<queue, arrived>>
  BY <1>1 DEF OtherVars
<1>4. /\ handled' \in SUBSET arrived
      /\ holding' \in [Pool -> [Thread -> Request \cup {Null}]]
      /\ \A q \in Pool, u \in Thread :
           holding'[q][u] = IF q = p /\ u = t THEN Null ELSE holding[q][u]
      /\ TypeOK' => \A q \in Pool : PlaceInv(q)'
  BY <1>1, <1>3, FinishFacts
<1>5. IdleInv' /\ idle' \in [Pool -> Nat]
  BY <1>1, IdleStays, Parts DEF ThreadState, CountedState
<1>6. TypeOK' /\ StageInv' /\ AssignedInv'
  BY <1>1, <1>4, <1>5, WorkerFrame, Parts DEF ThreadState
<1>7. UsefulInv' /\ \A q \in Pool : DeathInv(q)'
  BY <1>1, <1>6, PlainMove DEF ThreadState
<1>8. HoldInv'
  BY <1>1, <1>2, <1>4, Parts DEF HoldInv
<1>9. QED BY <1>4, <1>5, <1>6, <1>7, <1>8 DEF IInv

----------------------------------------------------------------------------
(***************************************************************************)
(* The monitor.                                                            *)
(***************************************************************************)
\* Without a death that the monitor waits for there is none on its way.
LEMMA NoDeath ==
  ASSUME NEW q, DeathInv(q), ~ Await(q)
  PROVE  /\ ~ HasNull(q) /\ ~ IsDying(q) /\ ~ IsTold(q)
         /\ ~ Join(q) => \A u \in Thread : pc[q][u] # "announced"
  BY DEF DeathInv

LEMMA NoDeathInv ==
  ASSUME NEW q, ~ HasNull(q), ~ IsDying(q), ~ IsTold(q), Len(deleted[q]) <= 1,
         \A u \in Thread : pc[q][u] = "announced" => Join(q) /\ monitor.victim = u
  PROVE  DeathInv(q)
  BY DEF DeathInv, HasNull, IsDying, IsTold

LEMMA MonitorType ==
  ASSUME IInv
  PROVE  /\ monitor \in [at : {"loop", "check", "kill", "await", "join", "ended"},
                         pool : Pool, left : 0 .. Batch, victim : Thread]
         /\ Batch \in Nat \ {0} /\ 0 \in Thread /\ monitor.pool \in Pool
         /\ monitor.at # "ended" => Running
         /\ NextCheck.pool \in Pool
         /\ NextCheck \in [at : {"loop", "check", "kill", "await", "join", "ended"},
                           pool : Pool, left : 0 .. Batch, victim : Thread]
         /\ NextCheck.at \in {"loop", "check"}
<1>1. /\ monitor \in [at : {"loop", "check", "kill", "await", "join", "ended"},
                      pool : Pool, left : 0 .. Batch, victim : Thread]
      /\ monitor.at # "ended" => Running
  BY DEF IInv, TypeOK, StageInv
<1>2. Batch \in Nat \ {0}
  BY ThreadPoolAssumption
<1>3. 0 \in Thread
  <2>1. 1 \in Pool
    BY DEF Pool
  <2>2. 0 \in 0 .. (MaxThreads[1] - 1)
    BY <2>1, ThreadFacts
  <2>3. QED BY <2>1, <2>2, ThreadFacts
<1>4. /\ NextCheck.pool \in Pool /\ NextCheck.at \in {"loop", "check"}
      /\ NextCheck \in [at : {"loop", "check", "kill", "await", "join", "ended"},
                        pool : Pool, left : 0 .. Batch, victim : Thread]
  BY <1>1 DEF NextCheck, Pool
<1>5. QED BY <1>1, <1>2, <1>3, <1>4

\* A step that only the monitor itself takes part in, and in which no death
\* begins or ends.
LEMMA QuietStep ==
  ASSUME IInv, monitor.at \in {"loop", "check"},
         monitor' \in [at : {"loop", "check", "kill", "ended"},
                       pool : Pool, left : 0 .. Batch, victim : Thread],
         monitor'.at = "kill" => monitor'.left > 0,
         UNCHANGED <<scenario, arrived, handled, queue, threadVars, assigned, stopped, destructor>>
  PROVE  /\ TypeOK' /\ StageInv' /\ AssignedInv' /\ IdleInv' /\ HoldInv'
         /\ \A q \in Pool : DeathInv(q)' /\ PlaceInv(q)' /\ Useful(q)' = Useful(q)
<1>1. UNCHANGED <<scenario, arrived, handled, queue, pc, holding, idle, deleted, assigned,
                  stopped, destructor>>
  BY DEF threadVars
<1>2. monitor' \in [at : {"loop", "check", "kill", "await", "join", "ended"},
                    pool : Pool, left : 0 .. Batch, victim : Thread]
  OBVIOUS
<1>3. TypeOK'
  BY <1>1, <1>2, Parts DEF TypeOK
<1>4. StageInv'
  BY <1>1, Parts DEF StageInv, Running, Killing
<1>5. AssignedInv' /\ IdleInv' /\ HoldInv'
  BY <1>1, Parts DEF AssignedInv, IdleInv, Counted, HoldInv
<1>6. ASSUME NEW q \in Pool PROVE DeathInv(q)' /\ PlaceInv(q)' /\ Useful(q)' = Useful(q)
  <2>1. DeathInv(q) /\ ~ Await(q) /\ ~ Join(q)
    BY Parts DEF Await, Join
  <2>2. /\ ~ HasNull(q) /\ ~ IsDying(q) /\ ~ IsTold(q)
        /\ \A u \in Thread : pc[q][u] # "announced"
    BY <2>1, NoDeath
  <2>3. DeathInv(q)'
    BY <1>1, <2>1, <2>2 DEF DeathInv, HasNull, IsDying, IsTold
  <2>4. PlaceInv(q)'
    BY <1>1, <1>3, PlaceStays, Parts
  <2>5. QED BY <1>1, <2>3, <2>4 DEF Useful
<1>7. QED BY <1>3, <1>4, <1>5, <1>6

LEMMA MonitorLoopStep == ASSUME IInv, MonitorLoop PROVE IInv'
<1>1. /\ monitor.at = "loop"
      /\ monitor' = [monitor EXCEPT !.at = IF destructor.at = "none" THEN "check" ELSE "ended"]
      /\ UNCHANGED <<scenario, arrived, handled, queue, threadVars, assigned, stopped, destructor>>
  BY DEF MonitorLoop
<1>2. /\ monitor' \in [at : {"loop", "check", "kill", "ended"},
                       pool : Pool, left : 0 .. Batch, victim : Thread]
      /\ monitor'.at \in {"check", "ended"}
  BY <1>1, MonitorType
<1>3. /\ TypeOK' /\ StageInv' /\ AssignedInv' /\ IdleInv' /\ HoldInv'
      /\ \A q \in Pool : DeathInv(q)' /\ PlaceInv(q)' /\ Useful(q)' = Useful(q)
  BY <1>1, <1>2, QuietStep
<1>4. UsefulInv'
  <2>1. ASSUME NEW q \in Pool PROVE Useful(q) \subseteq Useful(q)' /\ Deaths(q)' <= Deaths(q)
    BY <1>1, <1>2, <1>3 DEF Deaths, Killing
  <2>2. QED BY <1>1, <1>3, <2>1, UsefulStays
<1>5. QED BY <1>3, <1>4 DEF IInv

LEMMA LeaveThreadsStep == ASSUME IInv, LeaveThreads PROVE IInv'
<1>1. /\ monitor.at = "check" /\ monitor' = NextCheck
      /\ UNCHANGED <<scenario, arrived, handled, queue, threadVars, assigned, stopped, destructor>>
  BY DEF LeaveThreads
<1>2. /\ monitor' \in [at : {"loop", "check", "kill", "ended"},
                       pool : Pool, left : 0 .. Batch, victim : Thread]
      /\ monitor'.at \in {"loop", "check"}
  BY <1>1, MonitorType
<1>3. /\ TypeOK' /\ StageInv' /\ AssignedInv' /\ IdleInv' /\ HoldInv'
      /\ \A q \in Pool : DeathInv(q)' /\ PlaceInv(q)' /\ Useful(q)' = Useful(q)
  BY <1>1, <1>2, QuietStep
<1>4. UsefulInv'
  <2>1. ASSUME NEW q \in Pool PROVE Useful(q) \subseteq Useful(q)' /\ Deaths(q)' <= Deaths(q)
    BY <1>1, <1>2, <1>3 DEF Deaths, Killing
  <2>2. QED BY <1>1, <1>3, <2>1, UsefulStays
<1>5. QED BY <1>3, <1>4 DEF IInv

\* The decision: between two rounds every thread that is counted can work, so
\* more than a batch of them are there.
LEMMA DeleteThreadsStep == ASSUME IInv, DeleteThreads PROVE IInv'
<1> PICK p \in Pool : p = monitor.pool
  BY MonitorType
<1>1. /\ monitor.at = "check" /\ ManyIdle(p)
      /\ monitor' = [monitor EXCEPT !.at = "kill", !.left = Batch]
      /\ UNCHANGED <<scenario, arrived, handled, queue, threadVars, assigned, stopped, destructor>>
  BY DEF DeleteThreads
<1>2. /\ monitor' \in [at : {"loop", "check", "kill", "ended"},
                       pool : Pool, left : 0 .. Batch, victim : Thread]
      /\ monitor'.at = "kill" /\ monitor'.left = Batch /\ Batch > 0 /\ monitor'.pool = p
  <2>1. Batch \in Nat /\ Batch > 0 /\ Batch \in 0 .. Batch
    BY MonitorType
  <2>2. QED BY <1>1, <2>1, MonitorType
<1>3. /\ TypeOK' /\ StageInv' /\ AssignedInv' /\ IdleInv' /\ HoldInv'
      /\ \A q \in Pool : DeathInv(q)' /\ PlaceInv(q)' /\ Useful(q)' = Useful(q)
  BY <1>1, <1>2, QuietStep
<1>4. UsefulInv'
  <2> SUFFICES ASSUME destructor.at = "none", NEW q \in Pool
               PROVE  Cardinality(Useful(q)') > Deaths(q)'
    BY <1>1 DEF UsefulInv
  <2>1. CASE q # p
    <3>1. Deaths(q)' = 0 /\ Deaths(q) = 0
      BY <1>1, <1>2, <2>1 DEF Deaths, Killing
    <3>2. QED BY <1>3, <3>1, Parts DEF UsefulInv
  <2>2. CASE q = p
    <3>1. Deaths(q)' = Batch
      BY <1>2, <2>2 DEF Deaths, Killing
    <3>2. /\ \A u \in Thread : pc[q][u] \notin {"draining", "drained", "dying", "announced"}
      <4>1. DeathInv(q) /\ ~ Await(q) /\ ~ Join(q) /\ Running
        BY <1>1, Parts DEF Await, Join, Running
      <4>2. QED BY <4>1, NoDeath, Parts DEF IsDying, StageInv
    <3>3. Counted(q) \in SUBSET Useful(q)
      BY <3>2 DEF Counted, CountedState, Useful
    <3>4. Cardinality(Counted(q)) <= Cardinality(Useful(q))
      BY <3>3, Cardinalities, FS_Subset
    <3>5. idle[q] > scenario.maxIdle /\ scenario.maxIdle >= Batch /\ scenario.maxIdle \in Nat
          /\ Batch \in Nat
      BY <1>1, <2>2, ThreadPoolAssumption, Parts DEF ManyIdle, TypeOK, ScenarioRecord
    <3>6. idle[q] = Cardinality(Counted(q)) /\ idle[q] \in Nat
      BY Parts DEF IdleInv
    <3>7. QED BY <1>3, <3>1, <3>4, <3>5, <3>6, Cardinalities
  <2>3. QED BY <2>1, <2>2
<1>5. QED BY <1>3, <1>4 DEF IInv

\* New threads have numbers that no thread had.
LEMMA CreateThreadsStep == ASSUME IInv, CreateThreads PROVE IInv'
<1> PICK p \in Pool : p = monitor.pool
  BY MonitorType
<1>1. /\ monitor.at = "check" /\ assigned[p] + Batch <= MaxThreads[p]
      /\ pc' = [pc EXCEPT ![p] = [t \in Thread |->
                 IF t \in assigned[p] .. (assigned[p] + Batch - 1) THEN "created" ELSE pc[p][t]]]
      /\ assigned' = [assigned EXCEPT ![p] = assigned[p] + Batch]
      /\ monitor' = NextCheck
      /\ UNCHANGED <<scenario, arrived, handled, queue, holding, idle, deleted, stopped, destructor>>
  BY Parts DEF CreateThreads
<1>2. /\ monitor'.at \in {"loop", "check"} /\ Running
      /\ monitor' \in [at : {"loop", "check", "kill", "await", "join", "ended"},
                       pool : Pool, left : 0 .. Batch, victim : Thread]
      /\ Batch \in Nat
  BY <1>1, MonitorType
<1>3. assigned[p] \in Nat /\ MaxThreads[p] \in Nat /\ Thread \subseteq Nat
  BY <1>2, ThreadFacts, Parts DEF TypeOK
<1> DEFINE new == assigned[p] .. (assigned[p] + Batch - 1)
<1>4. /\ pc' \in [Pool -> [Thread -> ThreadState]]
      /\ \A q \in Pool, u \in Thread :
           pc'[q][u] = IF q = p /\ u \in new THEN "created" ELSE pc[q][u]
  <2> HIDE DEF new
  <2>1. pc' = [pc EXCEPT ![p] = [t \in Thread |-> IF t \in new THEN "created" ELSE pc[p][t]]]
    BY <1>1 DEF new
  <2>2. [t \in Thread |-> IF t \in new THEN "created" ELSE pc[p][t]] \in [Thread -> ThreadState]
    BY <1>2, Parts DEF ThreadState
  <2>3. QED BY <1>2, <2>1, <2>2, Parts
<1>5. \A u \in Thread : u \in new => pc[p][u] = "none"
  <2> SUFFICES ASSUME NEW u \in Thread, u \in new PROVE pc[p][u] = "none"
    OBVIOUS
  <2>1. u >= assigned[p]
    BY <1>2, <1>3
  <2>2. QED BY <1>2, <2>1, Parts DEF AssignedInv
<1> HIDE DEF new
<1>6. /\ assigned' \in [Pool -> Nat]
      /\ \A q \in Pool : assigned'[q] = IF q = p THEN assigned[p] + Batch ELSE assigned[q]
  <2>1. assigned \in [Pool -> Nat] /\ assigned[p] + Batch \in Nat
    <3>1. assigned \in [Pool -> Nat]
      BY Parts DEF TypeOK
    <3>2. QED BY <1>2, <1>3, <3>1
  <2>2. assigned' = [assigned EXCEPT ![p] = assigned[p] + Batch]
    BY <1>1
  <2>3. QED BY <2>1, <2>2
<1>7. TypeOK'
  <2>1. \A q \in Pool : assigned'[q] <= MaxThreads[q] /\ assigned[q] <= assigned'[q]
    <3>1. \A q \in Pool : assigned[q] <= MaxThreads[q] /\ assigned[q] \in Nat
      BY Parts DEF TypeOK
    <3>2. QED BY <1>1, <1>2, <1>6, <3>1
  <2>2. destructor' = destructor /\ destructor.pool \in Pool /\ destructor.thread \in Nat
        /\ destructor.thread <= assigned[destructor.pool]
    BY <1>1, Parts DEF TypeOK
  <2>3. destructor'.thread <= assigned'[destructor'.pool]
    BY <1>6, <2>1, <2>2, Parts DEF TypeOK
  <2>4. QED BY <1>1, <1>2, <1>4, <1>6, <2>1, <2>3, Parts DEF TypeOK
<1>8. StageInv'
  <2>1. \A q \in Pool, u \in Thread :
          pc'[q][u] \in {"draining", "drained"} => pc[q][u] \in {"draining", "drained"}
    BY <1>4
  <2>2. UNCHANGED <<stopped, destructor>>
    BY <1>1
  <2>3. QED BY <1>2, <2>1, <2>2, Parts DEF StageInv, Running, Killing
<1>9. AssignedInv'
  <2> SUFFICES ASSUME NEW q \in Pool, NEW u \in Thread
               PROVE  pc'[q][u] = "none" <=> u >= assigned'[q]
    BY DEF AssignedInv
  <2>1. (pc[q][u] = "none" <=> u >= assigned[q]) /\ u \in Nat /\ assigned[q] \in Nat
    BY <1>3, Parts DEF AssignedInv, TypeOK
  <2>2. CASE q # p
    BY <1>4, <1>6, <2>1, <2>2
  <2>3. CASE q = p
    <3>1. u \in new <=> u >= assigned[p] /\ ~ u >= assigned[p] + Batch
      BY <1>2, <1>3, <2>1 DEF new
    <3>2. QED BY <1>2, <1>3, <1>4, <1>6, <2>1, <2>3, <3>1
  <2>4. QED BY <2>2, <2>3
<1>10. IdleInv'
  <2> SUFFICES ASSUME NEW q \in Pool PROVE idle'[q] = Cardinality(Counted(q)')
    BY DEF IdleInv
  <2>1. Counted(q)' = Counted(q)
    BY <1>4, <1>5 DEF Counted, CountedState
  <2>2. QED BY <1>1, <2>1, Parts DEF IdleInv
<1>11. HoldInv'
  <2>1. holding' = holding
    BY <1>1
  <2>2. \A q \in Pool, u \in Thread : pc'[q][u] \in {"popped", "handling", "draining"} <=>
                                      pc[q][u] \in {"popped", "handling", "draining"}
    BY <1>4, <1>5
  <2>3. QED BY <2>1, <2>2, Parts DEF HoldInv
<1>12. ASSUME NEW q \in Pool PROVE DeathInv(q)' /\ PlaceInv(q)' /\ Useful(q) \subseteq Useful(q)'
  <2>1. DeathInv(q) /\ ~ Await(q) /\ ~ Join(q)
    BY <1>1, Parts DEF Await, Join
  <2>2. /\ ~ HasNull(q) /\ ~ IsDying(q) /\ ~ IsTold(q)
        /\ \A u \in Thread : pc[q][u] # "announced"
    BY <2>1, NoDeath
  <2>3. \A u \in Thread : pc'[q][u] \notin {"dying", "announced"}
    BY <1>4, <2>2 DEF IsDying
  <2>4. UNCHANGED <<queue, deleted, arrived, handled, holding>>
    BY <1>1
  <2>5. DeathInv(q)'
    BY <2>1, <2>2, <2>3, <2>4 DEF DeathInv, HasNull, IsDying, IsTold
  <2>6. PlaceInv(q)'
    BY <1>7, <2>4, PlaceStays, Parts
  <2>7. Useful(q) \subseteq Useful(q)'
    BY <1>4 DEF Useful
  <2>8. QED BY <2>5, <2>6, <2>7
<1>13. UsefulInv'
  <2>1. ASSUME NEW q \in Pool PROVE Useful(q) \subseteq Useful(q)' /\ Deaths(q)' <= Deaths(q)
    BY <1>1, <1>2, <1>12 DEF Deaths, Killing
  <2>2. destructor' = destructor
    BY <1>1
  <2>3. QED BY <1>7, <1>8, <2>1, <2>2, UsefulStays
<1>14. QED BY <1>7, <1>8, <1>9, <1>10, <1>11, <1>12, <1>13 DEF IInv

\* What is appended has its place behind the others.
LEMMA AppendPlace ==
  ASSUME IInv, NEW p \in Pool, NEW x \in Request \cup {Null},
         queue' = [queue EXCEPT ![p] = Append(@, x)], UNCHANGED <<holding, handled>>,
         \/ x = Null /\ arrived' = arrived
         \/ x # Null /\ x \notin arrived /\ arrived' = arrived \cup {x} /\ PoolOf[x] = p
  PROVE  /\ queue' \in [Pool -> Seq(Request \cup {Null})]
         /\ \A q \in Pool \ {p} : queue'[q] = queue[q]
         /\ \A q \in Pool : x # Null \/ q # p => (HasNull(q)' <=> HasNull(q))
         /\ x = Null => HasNull(p)'
         /\ ~ HasNull(p) => \A i, j \in 1 .. Len(queue'[p]) :
                              queue'[p][i] = Null /\ queue'[p][j] = Null => i = j
         /\ x # Null => \A i \in 1 .. Len(queue'[p]) :
                          queue'[p][i] = Null => i \in 1 .. Len(queue[p]) /\ queue[p][i] = Null
         /\ PlaceInv(p)'
<1> DEFINE s == queue[p]  n == Len(queue[p])
<1>1. s \in Seq(Request \cup {Null})
  BY Parts
<1>2. /\ Append(s, x) \in Seq(Request \cup {Null}) /\ n \in Nat /\ Len(Append(s, x)) = n + 1
      /\ Append(s, x)[n + 1] = x
      /\ \A i \in 1 .. n : Append(s, x)[i] = s[i]
  BY <1>1, AppendFacts
<1>3. /\ queue' \in [Pool -> Seq(Request \cup {Null})] /\ queue'[p] = Append(s, x)
      /\ \A q \in Pool \ {p} : queue'[q] = queue[q]
  BY <1>2, Parts
<1> HIDE DEF s, n
<1>4. /\ Len(queue'[p]) = n + 1 /\ queue'[p][n + 1] = x
      /\ \A i \in 1 .. n : queue'[p][i] = s[i]
      /\ \A i \in 1 .. Len(queue'[p]) : i \in 1 .. n \/ i = n + 1
  BY <1>2, <1>3
<1>5. 1 .. n \subseteq 1 .. Len(queue'[p]) /\ n + 1 \in 1 .. Len(queue'[p])
  BY <1>2, <1>4
<1>6. x = Null => HasNull(p)'
  BY <1>4, <1>5 DEF HasNull
<1>7. ASSUME x # Null PROVE HasNull(p)' <=> HasNull(p)
  <2>1. HasNull(p)' => HasNull(p)
    BY <1>4, <1>7 DEF HasNull, s, n
  <2>2. HasNull(p) => HasNull(p)'
    BY <1>4, <1>5 DEF HasNull, s, n
  <2>3. QED BY <2>1, <2>2
<1>8. ASSUME ~ HasNull(p), NEW i \in 1 .. Len(queue'[p]), NEW j \in 1 .. Len(queue'[p]),
             queue'[p][i] = Null, queue'[p][j] = Null
      PROVE  i = j
  BY <1>4, <1>8 DEF HasNull, s, n
<1>9. x # Null => \A i \in 1 .. Len(queue'[p]) :
                    queue'[p][i] = Null => i \in 1 .. n /\ s[i] = Null
  BY <1>4
<1>10. PlaceInv(p)'
  <2>1. PlaceInv(p) /\ handled \subseteq arrived
    BY Parts
  <2>2. x # Null => /\ x \in arrived' \ handled' /\ PoolOf[x] = p
                    /\ \A i \in 1 .. n : s[i] # x
                    /\ \A u \in Thread : holding[p][u] # x
    BY <2>1 DEF PlaceInv, s, n
  <2>3. arrived \ handled \subseteq arrived' \ handled'
    OBVIOUS
  <2>4. ASSUME NEW i \in 1 .. Len(queue'[p]), queue'[p][i] # Null
        PROVE  /\ PoolOf[queue'[p][i]] = p /\ queue'[p][i] \in arrived' \ handled'
               /\ \A j \in 1 .. Len(queue'[p]) : queue'[p][i] = queue'[p][j] => i = j
               /\ \A u \in Thread : holding'[p][u] # queue'[p][i]
    <3>1. CASE i = n + 1
      BY <1>4, <2>2, <2>4, <3>1
    <3>2. CASE i \in 1 .. n
      <4>1. /\ PoolOf[s[i]] = p /\ s[i] \in arrived \ handled /\ s[i] # Null
            /\ \A j \in 1 .. n : s[i] = s[j] => i = j
            /\ \A u \in Thread : holding[p][u] # s[i]
        BY <1>4, <2>1, <2>4, <3>2 DEF PlaceInv, s, n
      <4>2. x # s[i]
        BY <2>2, <3>2, <4>1
      <4>3. QED BY <1>4, <2>3, <3>2, <4>1, <4>2
    <3>3. QED BY <1>4, <3>1, <3>2
  <2>5. ASSUME NEW u \in Thread, holding'[p][u] # Null
        PROVE  /\ PoolOf[holding'[p][u]] = p /\ holding'[p][u] \in arrived' \ handled'
               /\ \A v \in Thread : holding'[p][u] = holding'[p][v] => u = v
    BY <2>1, <2>3, <2>5 DEF PlaceInv
  <2>6. ASSUME NEW r \in arrived' \ handled', PoolOf[r] = p
        PROVE  \/ \E i \in 1 .. Len(queue'[p]) : queue'[p][i] = r
               \/ \E u \in Thread : holding'[p][u] = r
    <3>1. CASE r = x
      BY <1>4, <1>5, <3>1
    <3>2. CASE r # x
      <4>1. r \in arrived \ handled
        BY <3>2
      <4>2. (\E i \in 1 .. n : s[i] = r) \/ \E u \in Thread : holding[p][u] = r
        BY <2>1, <2>6, <4>1 DEF PlaceInv, s, n
      <4>3. QED BY <1>4, <1>5, <4>2
    <3>3. QED BY <3>1, <3>2
  <2>7. QED BY <2>4, <2>5, <2>6 DEF PlaceInv
<1>11. \A q \in Pool \ {p} : HasNull(q)' <=> HasNull(q)
  BY <1>3 DEF HasNull
<1>12. QED BY <1>3, <1>6, <1>7, <1>8, <1>9, <1>10, <1>11 DEF s, n

LEMMA KillStep == ASSUME IInv, Kill PROVE IInv'
<1> PICK p \in Pool : p = monitor.pool
  BY MonitorType
<1>1. /\ monitor.at = "kill" /\ queue' = [queue EXCEPT ![p] = Append(@, Null)]
      /\ monitor' = [monitor EXCEPT !.at = "await"]
      /\ UNCHANGED <<scenario, arrived, handled, pc, holding, idle, deleted, assigned, stopped,
                     destructor>>
  BY DEF Kill, threadVars
<1>2. /\ monitor'.at = "await" /\ monitor'.pool = p /\ monitor'.left = monitor.left
      /\ monitor' \in [at : {"loop", "check", "kill", "await", "join", "ended"},
                       pool : Pool, left : 0 .. Batch, victim : Thread]
  BY <1>1, MonitorType
<1>3. /\ queue' \in [Pool -> Seq(Request \cup {Null})]
      /\ \A q \in Pool \ {p} : queue'[q] = queue[q] /\ (HasNull(q)' <=> HasNull(q))
      /\ HasNull(p)'
      /\ ~ HasNull(p) => \A i, j \in 1 .. Len(queue'[p]) :
                           queue'[p][i] = Null /\ queue'[p][j] = Null => i = j
      /\ PlaceInv(p)'
  <2>1. Null \in Request \cup {Null} /\ arrived' = arrived /\ UNCHANGED <<holding, handled>>
    BY <1>1
  <2>2. QED BY <1>1, <2>1, AppendPlace
<1>4. TypeOK'
  BY <1>1, <1>2, <1>3, Parts DEF TypeOK
<1>5. StageInv'
  BY <1>1, <1>2, Parts DEF StageInv, Running, Killing
<1>6. AssignedInv' /\ IdleInv' /\ HoldInv'
  BY <1>1, Parts DEF AssignedInv, IdleInv, Counted, HoldInv
<1>7. ASSUME NEW q \in Pool
      PROVE  /\ DeathInv(q) /\ ~ HasNull(q) /\ ~ IsDying(q) /\ ~ IsTold(q)
             /\ \A u \in Thread : pc[q][u] # "announced"
  <2>1. DeathInv(q) /\ ~ Await(q) /\ ~ Join(q)
    BY <1>1, Parts DEF Await, Join
  <2>2. QED BY <2>1, NoDeath
<1>8. ASSUME NEW q \in Pool PROVE DeathInv(q)'
  <2>1. /\ ~ IsDying(q)' /\ ~ IsTold(q)' /\ \A u \in Thread : pc'[q][u] \notin {"dying", "announced"}
    BY <1>1, <1>7 DEF IsDying, IsTold
  <2>2. Len(deleted'[q]) <= 1
    BY <1>1, <1>7 DEF DeathInv
  <2>3. CASE q = p
    <3>1. Await(p)'
      BY <1>2 DEF Await
    <3>2. QED BY <1>3, <1>7, <2>1, <2>2, <2>3, <3>1 DEF DeathInv
  <2>4. CASE q # p
    <3>1. ~ HasNull(q)' /\ \A i \in 1 .. Len(queue'[q]) : queue'[q][i] # Null
      BY <1>3, <1>7, <2>4 DEF HasNull
    <3>2. QED BY <2>1, <2>2, <3>1 DEF DeathInv
  <2>5. QED BY <2>3, <2>4
<1>9. ASSUME NEW q \in Pool \ {p} PROVE PlaceInv(q)'
  BY <1>1, <1>3, <1>4, PlaceStays, Parts
<1>10. UsefulInv'
  <2>1. ASSUME NEW q \in Pool PROVE Useful(q) \subseteq Useful(q)' /\ Deaths(q)' <= Deaths(q)
    <3>1. Useful(q)' = Useful(q)
      BY <1>1 DEF Useful
    <3>2. Deaths(q)' = Deaths(q)
      BY <1>1, <1>2, <1>3 DEF Deaths, Killing
    <3>3. QED BY <3>1, <3>2, DeathsType, Parts
  <2>2. destructor' = destructor
    BY <1>1
  <2>3. QED BY <1>4, <1>5, <2>1, <2>2, UsefulStays
<1>11. QED BY <1>3, <1>4, <1>5, <1>6, <1>8, <1>9, <1>10 DEF IInv

LEMMA OneElement ==
  ASSUME NEW S, NEW s \in Seq(S), Len(s) = 1
  PROVE  \E t \in S : s = <<t>>
<1>1. s[1] \in S
  OBVIOUS
<1>2. <<s[1]>> \in Seq(S) /\ Len(<<s[1]>>) = 1 /\ <<s[1]>>[1] = s[1]
  BY <1>1
<1>3. s = <<s[1]>>
  BY <1>2, SeqEqual
<1>4. QED BY <1>1, <1>3

LEMMA AwaitDeathStep == ASSUME IInv, AwaitDeath PROVE IInv'
<1> PICK p \in Pool : p = monitor.pool
  BY MonitorType
<1>1. /\ monitor.at = "await" /\ deleted[p] # << >>
      /\ deleted' = [deleted EXCEPT ![p] = Tail(@)]
      /\ monitor' = [monitor EXCEPT !.at = "join", !.victim = Head(deleted[p])]
      /\ UNCHANGED <<scenario, arrived, handled, queue, pc, holding, idle, assigned, stopped, destructor>>
  BY DEF AwaitDeath
<1>2. PICK t \in Thread : deleted[p] = <<t>>
  <2>1. deleted[p] \in Seq(Thread) /\ Len(deleted[p]) <= 1
    BY Parts DEF DeathInv
  <2>2. Len(deleted[p]) = 1
    <3>1. Len(deleted[p]) \in Nat \ {0}
      BY <1>1, <2>1, EmptySeq
    <3>2. \A n \in Nat \ {0} : n <= 1 => n = 1
      OBVIOUS
    <3>3. QED BY ONLY <2>1, <3>1, <3>2, Zenon
  <2>3. QED BY ONLY <2>1, <2>2, OneElement, Zenon
<1>3. Head(deleted[p]) = t /\ Tail(deleted[p]) = << >>
  BY <1>2
<1>4. /\ monitor'.at = "join" /\ monitor'.pool = p /\ monitor'.left = monitor.left
      /\ monitor'.victim = t
      /\ monitor' \in [at : {"loop", "check", "kill", "await", "join", "ended"},
                       pool : Pool, left : 0 .. Batch, victim : Thread]
  BY <1>1, <1>3, MonitorType
<1>5. /\ deleted' \in [Pool -> Seq(Thread)] /\ deleted'[p] = << >>
      /\ \A q \in Pool \ {p} : deleted'[q] = deleted[q]
  <2>1. deleted' = [deleted EXCEPT ![p] = << >>]
    BY <1>1, <1>3
  <2>2. << >> \in Seq(Thread)
    OBVIOUS
  <2>3. QED BY <2>1, <2>2, Parts
<1>6. TypeOK'
  BY <1>1, <1>4, <1>5, Parts DEF TypeOK
<1>7. StageInv'
  BY <1>1, <1>4, Parts DEF StageInv, Running, Killing
<1>8. AssignedInv' /\ IdleInv' /\ HoldInv'
  BY <1>1, Parts DEF AssignedInv, IdleInv, Counted, HoldInv
<1>9. ~ HasNull(p) /\ ~ IsDying(p) /\ DeathInv(p)
  BY <1>1, Parts DEF DeathInv, IsTold
<1>10. ASSUME NEW q \in Pool PROVE DeathInv(q)'
  <2>1. (HasNull(q)' <=> HasNull(q)) /\ (IsDying(q)' <=> IsDying(q))
    BY <1>1 DEF HasNull, IsDying
  <2>2. CASE q = p
    <3>1. ~ IsTold(p)' /\ Len(deleted'[p]) <= 1 /\ Join(p)'
      BY <1>4, <1>5 DEF IsTold, Join
    <3>2. \A u \in Thread : pc'[p][u] = "announced" => u = t
      <4> SUFFICES ASSUME NEW u \in Thread, pc[p][u] = "announced" PROVE u = t
        BY <1>1
      <4>1. deleted[p] = <<u>>
        BY <1>1, <1>9 DEF DeathInv, Join
      <4>2. QED BY <1>2, <4>1
    <3>3. /\ \A i \in 1 .. Len(queue'[p]) : queue'[p][i] # Null
          /\ \A u \in Thread : pc'[p][u] # "dying"
      BY <1>1, <1>9 DEF HasNull, IsDying
    <3>4. QED BY <1>4, <1>9, <2>1, <2>2, <3>1, <3>2, <3>3 DEF DeathInv
  <2>3. CASE q # p
    <3>1. DeathInv(q) /\ ~ Await(q) /\ ~ Join(q)
      BY <1>1, <2>3, Parts DEF Await, Join
    <3>2. /\ ~ HasNull(q) /\ ~ IsDying(q) /\ ~ IsTold(q) /\ Len(deleted[q]) <= 1
          /\ \A u \in Thread : pc[q][u] # "announced"
      BY <3>1, NoDeath DEF DeathInv
    <3>3. ~ IsTold(q)' /\ Len(deleted'[q]) <= 1 /\ \A u \in Thread : pc'[q][u] # "announced"
      BY <1>1, <1>5, <2>3, <3>2 DEF IsTold
    <3>4. /\ \A i \in 1 .. Len(queue'[q]) : queue'[q][i] # Null
          /\ \A u \in Thread : pc'[q][u] # "dying"
      BY <1>1, <3>2 DEF HasNull, IsDying
    <3>5. QED BY <2>1, <3>2, <3>3, <3>4 DEF DeathInv
  <2>4. QED BY <2>2, <2>3
<1>11. \A q \in Pool : PlaceInv(q)'
  BY <1>1, <1>6, PlaceStays, Parts
<1>12. UsefulInv'
  <2>1. ASSUME NEW q \in Pool PROVE Useful(q) \subseteq Useful(q)' /\ Deaths(q)' <= Deaths(q)
    <3>1. Useful(q)' = Useful(q)
      BY <1>1 DEF Useful
    <3>2. Deaths(q)' = Deaths(q)
      BY <1>1, <1>4, <1>9 DEF Deaths, Killing, HasNull
    <3>3. QED BY <3>1, <3>2, DeathsType, Parts
  <2>2. destructor' = destructor
    BY <1>1
  <2>3. QED BY <1>6, <1>7, <2>1, <2>2, UsefulStays
<1>13. QED BY <1>6, <1>7, <1>8, <1>10, <1>11, <1>12 DEF IInv

LEMMA JoinVictimStep == ASSUME IInv, JoinVictim PROVE IInv'
<1> PICK p \in Pool : p = monitor.pool
  BY MonitorType
<1> PICK t \in Thread : t = monitor.victim
  BY MonitorType
<1>1. /\ monitor.at = "join" /\ pc[p][t] = "dead" /\ Goto(p, t, "erased")
      /\ monitor' = IF monitor.left > 1
                    THEN [monitor EXCEPT !.at = "kill", !.left = monitor.left - 1, !.victim = 0]
                    ELSE [NextCheck EXCEPT !.left = 0, !.victim = 0]
      /\ UNCHANGED <<scenario, arrived, handled, queue, holding, idle, deleted, assigned, stopped,
                     destructor>>
  BY DEF JoinVictim
<1>2. /\ pc' \in [Pool -> [Thread -> ThreadState]]
      /\ \A q \in Pool, u \in Thread :
           pc'[q][u] = IF q = p /\ u = t THEN "erased" ELSE pc[q][u]
  BY <1>1, Move, Parts DEF ThreadState
<1>3. /\ monitor' \in [at : {"loop", "check", "kill", "await", "join", "ended"},
                       pool : Pool, left : 0 .. Batch, victim : Thread]
      /\ monitor'.at \in {"loop", "check", "kill"}
      /\ monitor'.at = "kill" => /\ monitor'.pool = p /\ monitor'.left = monitor.left - 1
                                 /\ monitor'.left > 0
  <2>1. monitor.left \in 0 .. Batch /\ Batch \in Nat /\ 0 \in Thread /\ 0 \in 0 .. Batch
    BY MonitorType
  <2>2. CASE monitor.left > 1
    <3>1. monitor.left - 1 \in 0 .. Batch /\ monitor.left - 1 > 0
      BY <2>1, <2>2
    <3>2. QED BY <1>1, <2>1, <2>2, <3>1, MonitorType
  <2>3. CASE ~ monitor.left > 1
    <3>1. monitor' = [NextCheck EXCEPT !.left = 0, !.victim = 0]
      BY <1>1, <2>3
    <3>2. QED BY <2>1, <3>1, MonitorType
  <2>4. QED BY <2>2, <2>3
<1>4. TypeOK'
  BY <1>1, <1>2, <1>3, Parts DEF TypeOK
<1>5. Running /\ Running' /\ destructor' = destructor /\ assigned' = assigned
  BY <1>1, MonitorType DEF Running
<1>6. StageInv'
  <2>1. \A q \in Pool : stopped'[q] = {} /\ \A u \in Thread : pc'[q][u] \notin {"draining", "drained"}
    <3>1. stopped' = stopped /\ \A q \in Pool : stopped[q] = {} /\ \A u \in Thread : pc[q][u] \notin {"draining", "drained"}
      BY <1>1, <1>5, Parts DEF StageInv
    <3>2. QED BY <3>1, <1>2
  <2>2. Killing' => monitor'.left > 0
    BY <1>3 DEF Killing
  <2>3. destructor'.at = "join" => destructor'.thread < assigned'[destructor'.pool]
    BY <1>5, Parts DEF StageInv
  <2>4. QED BY <1>5, <2>1, <2>2, <2>3 DEF StageInv
<1>7. AssignedInv'
  <2>1. \A q \in Pool, u \in Thread : pc'[q][u] = "none" <=> pc[q][u] = "none"
    BY <1>1, <1>2
  <2>2. assigned' = assigned /\ AssignedInv
    BY <1>5, Parts
  <2>3. QED BY <2>1, <2>2 DEF AssignedInv
<1>8. IdleInv'
  BY <1>1, IdleStays, Parts DEF ThreadState, CountedState
<1>9. HoldInv'
  <2>1. holding' = holding /\ HoldInv
    BY <1>1, Parts
  <2>2. QED BY <1>1, <1>2, <2>1 DEF HoldInv
<1>10. ASSUME NEW q \in Pool PROVE DeathInv(q)'
  <2>1. DeathInv(q) /\ ~ Await(q)
    BY <1>1, Parts DEF Await
  <2>2. ~ HasNull(q) /\ ~ IsDying(q) /\ ~ IsTold(q) /\ Len(deleted[q]) <= 1
    BY <2>1, NoDeath DEF DeathInv
  <2>3. \A u \in Thread : pc[q][u] # "announced"
    <3> SUFFICES ASSUME NEW u \in Thread, pc[q][u] = "announced" PROVE FALSE
      OBVIOUS
    <3>1. q = p /\ u = t
      BY <2>1 DEF DeathInv, Join
    <3>2. QED BY <1>1, <3>1
  <2>4. \A u \in Thread : pc'[q][u] \notin {"dying", "announced"}
    BY <1>2, <2>2, <2>3 DEF IsDying
  <2>5. UNCHANGED <<queue, deleted>>
    BY <1>1
  <2>6. QED BY <2>1, <2>2, <2>4, <2>5 DEF DeathInv, HasNull, IsDying, IsTold
<1>11. \A q \in Pool : PlaceInv(q)'
  BY <1>1, <1>4, PlaceStays, Parts
<1>12. UsefulInv'
  <2>1. ASSUME NEW q \in Pool PROVE Useful(q) \subseteq Useful(q)' /\ Deaths(q)' <= Deaths(q)
    <3>1. Useful(q) \subseteq Useful(q)'
      BY <1>1, <1>2 DEF Useful
    <3>2. ~ HasNull(q)
      <4>1. DeathInv(q) /\ ~ Await(q)
        BY <1>1, Parts DEF Await
      <4>2. QED BY <4>1, NoDeath
    <3>3. Deaths(q) \in Nat
      BY DeathsType, Parts
    <3>4. CASE q = p
      <4>1. Deaths(q) = monitor.left - 1
        BY <1>1, <3>2, <3>4 DEF Deaths, Killing
      <4>2. Deaths(q)' = 0 \/ Deaths(q)' = monitor.left - 1
        BY <1>3, <3>4 DEF Deaths, Killing
      <4>3. QED BY <3>1, <3>3, <4>1, <4>2
    <3>5. CASE q # p
      <4>1. Deaths(q)' = 0
        BY <1>3, <3>5 DEF Deaths, Killing
      <4>2. QED BY <3>1, <3>3, <4>1
    <3>6. QED BY <3>4, <3>5
  <2>2. QED BY <1>4, <1>5, <1>6, <2>1, UsefulStays
<1>13. QED BY <1>4, <1>6, <1>7, <1>8, <1>9, <1>10, <1>11, <1>12 DEF IInv

----------------------------------------------------------------------------
(***************************************************************************)
(* Requests arrive; the destructor.                                        *)
(***************************************************************************)
LEMMA HandleMessageStep == ASSUME IInv, NEW r \in Request, HandleMessage(r) PROVE IInv'
<1>1. /\ r \notin arrived /\ arrived' = arrived \cup {r}
      /\ queue' = [queue EXCEPT ![PoolOf[r]] = Append(@, r)]
      /\ UNCHANGED <<scenario, handled, pc, holding, idle, deleted, assigned, monitor, stopped,
                     destructor>>
  BY DEF HandleMessage, threadVars
<1> PICK p \in Pool : p = PoolOf[r]
  BY ThreadPoolAssumption
<1>2. r # Null /\ r \in Request \cup {Null} /\ UNCHANGED <<holding, handled>>
  BY <1>1, ThreadPoolAssumption
<1>3. /\ queue' \in [Pool -> Seq(Request \cup {Null})]
      /\ \A q \in Pool \ {p} : queue'[q] = queue[q]
      /\ \A q \in Pool : HasNull(q)' <=> HasNull(q)
      /\ \A i \in 1 .. Len(queue'[p]) :
           queue'[p][i] = Null => i \in 1 .. Len(queue[p]) /\ queue[p][i] = Null
      /\ PlaceInv(p)'
  <2>1. queue' = [queue EXCEPT ![p] = Append(@, r)]
    BY <1>1
  <2>2. r # Null /\ r \notin arrived /\ arrived' = arrived \cup {r} /\ PoolOf[r] = p
    BY <1>1, <1>2
  <2>3. QED BY <1>2, <2>1, <2>2, AppendPlace
<1>4. TypeOK'
  BY <1>1, <1>3, Parts DEF TypeOK
<1>5. StageInv' /\ AssignedInv' /\ IdleInv' /\ HoldInv'
  BY <1>1, Parts DEF StageInv, Running, Killing, AssignedInv, IdleInv, Counted, HoldInv
<1>6. ASSUME NEW q \in Pool PROVE DeathInv(q)' /\ PlaceInv(q)'
  <2>1. CASE q = p
    <3>1. DeathInv(p) /\ UNCHANGED <<pc, deleted, monitor>>
      BY <1>1, Parts
    <3>2. (IsDying(p)' <=> IsDying(p)) /\ (IsTold(p)' <=> IsTold(p))
      BY <3>1 DEF IsDying, IsTold
    <3>3. \A i, j \in 1 .. Len(queue'[p]) : queue'[p][i] = Null /\ queue'[p][j] = Null => i = j
      BY <1>3, <3>1 DEF DeathInv
    <3>4. DeathInv(p)'
      BY <1>3, <3>1, <3>2, <3>3 DEF DeathInv, Await, Join
    <3>5. QED BY <1>3, <2>1, <3>4
  <2>2. CASE q # p
    <3>1. queue'[q] = queue[q] /\ UNCHANGED <<pc, deleted, monitor, holding, handled>>
      BY <1>1, <1>3, <2>2
    <3>2. \A x \in Request : PoolOf[x] = q => (x \in arrived' \ handled' <=> x \in arrived \ handled)
      BY <1>1, <2>2
    <3>3. QED BY <1>4, <3>1, <3>2, DeathStays, PlaceStays, Parts
  <2>3. QED BY <2>1, <2>2
<1>7. UsefulInv'
  <2>1. ASSUME NEW q \in Pool PROVE Useful(q) \subseteq Useful(q)' /\ Deaths(q)' <= Deaths(q)
    <3>1. Useful(q)' = Useful(q) /\ Deaths(q)' = Deaths(q)
      BY <1>1, <1>3 DEF Useful, Deaths, Killing
    <3>2. QED BY <3>1, DeathsType, Parts
  <2>2. destructor' = destructor
    BY <1>1
  <2>3. QED BY <1>4, <1>5, <2>1, <2>2, UsefulStays
<1>8. QED BY <1>4, <1>5, <1>6, <1>7 DEF IInv

\* Nothing but the destructor itself, and whom it has stopped, changes.
LEMMA DestructorFrame ==
  ASSUME IInv, UNCHANGED <<scenario, arrived, handled, queue, threadVars, assigned, monitor>>,
         stopped' \in [Pool -> SUBSET Thread],
         destructor' \in [at : {"monitor", "stop", "join", "over"}, pool : Pool, thread : Nat],
         destructor'.thread <= assigned[destructor'.pool],
         destructor'.at = "join" => destructor'.thread < assigned[destructor'.pool],
         \/ destructor'.at = "monitor" /\ Running /\ stopped' = stopped
         \/ destructor'.at # "monitor" /\ monitor.at = "ended"
  PROVE  IInv'
<1>1. UNCHANGED <<scenario, arrived, handled, queue, pc, holding, idle, deleted, assigned, monitor>>
  BY DEF threadVars
<1>2. TypeOK'
  <2>1. destructor' \in [at : {"none", "monitor", "stop", "join", "over"}, pool : Pool, thread : Nat]
    OBVIOUS
  <2>2. QED BY <1>1, <2>1, Parts DEF TypeOK
<1>3. StageInv'
  BY <1>1, Parts DEF StageInv, Running, Killing
<1>4. AssignedInv' /\ IdleInv' /\ HoldInv'
  BY <1>1, Parts DEF AssignedInv, IdleInv, Counted, HoldInv
<1>5. UsefulInv'
  BY DEF UsefulInv
<1>6. ASSUME NEW q \in Pool PROVE DeathInv(q)' /\ PlaceInv(q)'
  BY <1>1, <1>2, DeathStays, PlaceStays, Parts
<1>7. QED BY <1>2, <1>3, <1>4, <1>5, <1>6 DEF IInv

LEMMA DestructorStep == ASSUME IInv, BeginDestructor \/ Destructor PROVE IInv'
<1>1. /\ destructor \in [at : {"none", "monitor", "stop", "join", "over"}, pool : Pool, thread : Nat]
      /\ destructor.thread <= assigned[destructor.pool]
      /\ stopped \in [Pool -> SUBSET Thread]
      /\ destructor.at \notin {"none", "monitor"} => monitor.at = "ended"
      /\ destructor.at = "join" => destructor.thread < assigned[destructor.pool]
      /\ assigned \in [Pool -> Nat]
  BY Parts DEF TypeOK, StageInv, Running
<1>2. CASE BeginDestructor
  <2>1. /\ destructor' \in [at : {"monitor", "stop", "join", "over"}, pool : Pool, thread : Nat]
        /\ destructor'.at = "monitor" /\ Running /\ stopped' = stopped
        /\ destructor'.thread = destructor.thread /\ destructor'.pool = destructor.pool
    BY <1>1, <1>2 DEF BeginDestructor, Running
  <2>2. QED BY <1>1, <1>2, <2>1, DestructorFrame DEF BeginDestructor
<1>3. CASE JoinMonitor
  <2>1. /\ destructor' \in [at : {"monitor", "stop", "join", "over"}, pool : Pool, thread : Nat]
        /\ destructor'.at = "stop" /\ monitor.at = "ended" /\ stopped' = stopped
        /\ destructor'.thread = destructor.thread /\ destructor'.pool = destructor.pool
    BY <1>1, <1>3 DEF JoinMonitor
  <2>2. QED BY <1>1, <1>3, <2>1, DestructorFrame DEF JoinMonitor
<1>4. CASE StopThread
  <2>1. destructor.at = "stop" /\ monitor.at = "ended" /\ destructor.thread < assigned[destructor.pool]
        /\ UNCHANGED <<scenario, arrived, handled, queue, threadVars, assigned, monitor>>
    BY <1>1, <1>4 DEF StopThread
  <2>2. CASE pc[destructor.pool][destructor.thread] = "erased"
    <3>1. destructor' = [destructor EXCEPT !.thread = destructor.thread + 1] /\ stopped' = stopped
      BY <1>4, <2>2 DEF StopThread
    <3>2. /\ destructor' \in [at : {"monitor", "stop", "join", "over"}, pool : Pool, thread : Nat]
          /\ destructor'.at = "stop" /\ destructor'.pool = destructor.pool
          /\ destructor'.thread = destructor.thread + 1
      BY <1>1, <2>1, <3>1
    <3>3. destructor'.thread <= assigned[destructor'.pool]
      BY <1>1, <2>1, <3>2
    <3>4. QED BY <1>1, <2>1, <3>1, <3>2, <3>3, DestructorFrame
  <2>3. CASE pc[destructor.pool][destructor.thread] # "erased"
    <3>1. /\ stopped' = [stopped EXCEPT ![destructor.pool] = @ \cup {destructor.thread}]
          /\ destructor' = [destructor EXCEPT !.at = "join"]
      BY <1>4, <2>3 DEF StopThread
    <3>2. destructor.thread \in Thread
      <4>1. destructor.pool \in Pool /\ destructor.thread \in Nat
        BY <1>1
      <4>2. assigned[destructor.pool] <= MaxThreads[destructor.pool]
            /\ assigned[destructor.pool] \in Nat /\ MaxThreads[destructor.pool] \in Nat
        BY <1>1, <4>1, ThreadFacts, Parts DEF TypeOK
      <4>3. destructor.thread \in 0 .. (MaxThreads[destructor.pool] - 1)
        BY <2>1, <4>1, <4>2
      <4>4. QED BY <4>1, <4>3, ThreadFacts
    <3>3. stopped' \in [Pool -> SUBSET Thread]
      BY <1>1, <3>1, <3>2
    <3>4. /\ destructor' \in [at : {"monitor", "stop", "join", "over"}, pool : Pool, thread : Nat]
          /\ destructor'.at = "join" /\ destructor'.pool = destructor.pool
          /\ destructor'.thread = destructor.thread
      BY <1>1, <3>1
    <3>5. QED BY <1>1, <2>1, <3>3, <3>4, DestructorFrame
  <2>4. QED BY <2>2, <2>3
<1>5. CASE JoinThread
  <2>1. /\ destructor' \in [at : {"monitor", "stop", "join", "over"}, pool : Pool, thread : Nat]
        /\ destructor'.at = "stop" /\ destructor'.pool = destructor.pool
        /\ destructor'.thread = destructor.thread + 1 /\ destructor.at = "join"
        /\ stopped' = stopped
    <3>1. /\ destructor.at = "join" /\ stopped' = stopped
          /\ destructor' = [destructor EXCEPT !.at = "stop", !.thread = destructor.thread + 1]
      BY <1>5 DEF JoinThread
    <3>2. destructor.thread + 1 \in Nat
      BY <1>1
    <3>3. QED BY <1>1, <3>1, <3>2
  <2>2. destructor'.thread <= assigned[destructor'.pool]
    BY <1>1, <2>1
  <2>3. QED BY <1>1, <1>5, <2>1, <2>2, DestructorFrame DEF JoinThread
<1>6. CASE EndSubPool
  <2>1. /\ destructor.at = "stop" /\ stopped' = stopped
        /\ UNCHANGED <<scenario, arrived, handled, queue, threadVars, assigned, monitor>>
        /\ destructor' = IF destructor.pool = 1 THEN [at |-> "stop", pool |-> 2, thread |-> 0]
                         ELSE [destructor EXCEPT !.at = "over"]
    BY <1>6 DEF EndSubPool
  <2>2. /\ destructor' \in [at : {"monitor", "stop", "join", "over"}, pool : Pool, thread : Nat]
        /\ destructor'.at \in {"stop", "over"}
        /\ destructor'.thread = 0 \/ (destructor'.thread = destructor.thread
                                      /\ destructor'.pool = destructor.pool)
    BY <1>1, <2>1 DEF Pool
  <2>3. destructor'.thread <= assigned[destructor'.pool]
    BY <1>1, <2>2
  <2>4. QED BY <1>1, <2>1, <2>2, <2>3, DestructorFrame
<1>7. QED BY <1>2, <1>3, <1>4, <1>5, <1>6 DEF Destructor

----------------------------------------------------------------------------
LEMMA NextInv == IInv /\ [Next]_vars => IInv'
<1> SUFFICES ASSUME IInv, [Next]_vars PROVE IInv'
  OBVIOUS
<1>1. ASSUME NEW p \in Pool, NEW t \in Thread, RunThread(p, t) PROVE IInv'
  BY <1>1, BecomeIdleStep, PopRequestStep, CountOutStep, HandleStep, PopNullStep, AnnounceStep,
     DieStep, DrainStep, HandleDrainedStep DEF RunThread
<1>2. CASE MonitorThread
  BY <1>2, MonitorLoopStep, CreateThreadsStep, LeaveThreadsStep, DeleteThreadsStep, KillStep,
     AwaitDeathStep, JoinVictimStep DEF MonitorThread
<1>3. CASE UNCHANGED vars
  <2>1. UNCHANGED <<scenario, arrived, handled, queue, pc, holding, idle, deleted, assigned,
                    monitor, stopped, destructor>>
    BY <1>3 DEF vars, threadVars
  <2>2. TypeOK'
    BY <2>1, Parts DEF TypeOK
  <2>3. StageInv' /\ AssignedInv' /\ IdleInv' /\ HoldInv'
    BY <2>1, Parts DEF StageInv, Running, Killing, AssignedInv, IdleInv, Counted, HoldInv
  <2>4. UsefulInv'
    BY <2>1, Parts DEF UsefulInv, Useful, Deaths, Killing, HasNull
  <2>5. \A q \in Pool : DeathInv(q)' /\ PlaceInv(q)'
    BY <2>1, <2>2, DeathStays, PlaceStays, Parts
  <2>6. QED BY <2>2, <2>3, <2>4, <2>5 DEF IInv
<1>4. QED BY <1>1, <1>2, <1>3, HandleMessageStep, DestructorStep DEF Next

LEMMA Invariance == Spec => []IInv
<1>1. Init => IInv
  BY InitInv
<1>2. IInv /\ [Next]_vars => IInv'
  BY NextInv
<1>3. QED BY <1>1, <1>2, PTL DEF Spec

\* A request that is in one place is counted once.
LEMMA OnePlace ==
  ASSUME IInv, NEW r \in arrived
  PROVE  Places(r) = 1
<1>1. r \in Request /\ r # Null /\ PoolOf[r] \in Pool
  BY ThreadPoolAssumption, Parts DEF TypeOK
<1>2. /\ IsFiniteSet({}) /\ Cardinality({}) = 0
      /\ \A x : Cardinality({x}) = 1
  BY FS_EmptySet, FS_Singleton
<1>3. ASSUME NEW p \in Pool, p # PoolOf[r] \/ r \in handled
      PROVE  Cardinality(PlacesInQueue(p, r)) = 0 /\ Cardinality(Holders(p, r)) = 0
  <2>1. PlaceInv(p)
    BY Parts
  <2>2. PlacesInQueue(p, r) = {} /\ Holders(p, r) = {}
    BY <1>1, <1>3, <2>1 DEF PlaceInv, PlacesInQueue, Holders
  <2>3. QED BY <1>2, <2>2
<1>4. CASE r \in handled
  <2>1. /\ Cardinality(PlacesInQueue(1, r)) = 0 /\ Cardinality(Holders(1, r)) = 0
        /\ Cardinality(PlacesInQueue(2, r)) = 0 /\ Cardinality(Holders(2, r)) = 0
    BY <1>3, <1>4 DEF Pool
  <2>2. QED BY <1>4, <2>1 DEF Places
<1>5. CASE r \notin handled
  <2> PICK p \in Pool : p = PoolOf[r]
    BY <1>1
  <2>1. PlaceInv(p) /\ r \in arrived \ handled
    BY <1>5, Parts
  <2>2. \/ Cardinality(PlacesInQueue(p, r)) = 1 /\ Cardinality(Holders(p, r)) = 0
        \/ Cardinality(PlacesInQueue(p, r)) = 0 /\ Cardinality(Holders(p, r)) = 1
    <3>1. CASE \E i \in 1 .. Len(queue[p]) : queue[p][i] = r
      <4>1. PICK i \in 1 .. Len(queue[p]) : queue[p][i] = r
        BY <3>1
      <4>2. PlacesInQueue(p, r) = {i} /\ Holders(p, r) = {}
        BY <1>1, <2>1, <4>1 DEF PlaceInv, PlacesInQueue, Holders
      <4>3. QED BY <1>2, <4>2
    <3>2. CASE \E t \in Thread : holding[p][t] = r
      <4>1. PICK t \in Thread : holding[p][t] = r
        BY <3>2
      <4>2. Holders(p, r) = {t} /\ PlacesInQueue(p, r) = {}
        BY <1>1, <2>1, <4>1 DEF PlaceInv, PlacesInQueue, Holders
      <4>3. QED BY <1>2, <4>2
    <3>3. QED BY <2>1, <3>1, <3>2 DEF PlaceInv
  <2>3. \A q \in Pool : q # p =>
          Cardinality(PlacesInQueue(q, r)) = 0 /\ Cardinality(Holders(q, r)) = 0
    BY <1>3
  <2>4. CASE p = 1
    <3>1. Cardinality(PlacesInQueue(2, r)) = 0 /\ Cardinality(Holders(2, r)) = 0
      BY <2>3, <2>4 DEF Pool
    <3>2. QED BY <1>5, <2>2, <2>4, <3>1 DEF Places
  <2>5. CASE p = 2
    <3>1. Cardinality(PlacesInQueue(1, r)) = 0 /\ Cardinality(Holders(1, r)) = 0
      BY <2>3, <2>5 DEF Pool
    <3>2. QED BY <1>5, <2>2, <2>5, <3>1 DEF Places
  <2>6. QED BY <2>4, <2>5 DEF Pool
<1>6. QED BY <1>4, <1>5

\* No request is lost, none is in two hands or handled and still queued, and no
\* handler is called with a NULL that was meant for a thread, at any number of
\* requests and threads, with the monitor and the destructor at work
\* (thread_pool.cc:218-260, 274-377).
THEOREM ConsistentHolds == Spec => []Consistent
<1>1. IInv => Consistent
  <2> SUFFICES ASSUME IInv PROVE Consistent
    OBVIOUS
  <2>1. TypeOK
    BY Parts
  <2>2. RequestsAreKept
    BY OnePlace DEF RequestsAreKept
  <2>3. NullIsNotHandled
    BY Parts DEF NullIsNotHandled, HoldInv
  <2>4. QED BY <2>1, <2>2, <2>3 DEF Consistent
<1>2. QED BY <1>1, Invariance, PTL

\* The monitor never kills the last thread of a pool, although the threads it
\* counts go on while it kills, as long as max_idle_ is not below the number it
\* kills at a time (thread_pool.cc:274-377).
THEOREM PoolKeepsAThreadHolds == Spec => []PoolKeepsAThread
<1>1. IInv => PoolKeepsAThread
  <2> SUFFICES ASSUME IInv, NEW p \in Pool
               PROVE  \E t \in Thread :
                        destructor.at = "none" => pc[p][t] \in {"created", "idle", "popped", "handling"}
    BY DEF PoolKeepsAThread
  <2>0. CASE destructor.at # "none"
    BY <2>0, MonitorType
  <2> SUFFICES ASSUME destructor.at = "none"
               PROVE  \E t \in Thread : pc[p][t] \in {"created", "idle", "popped", "handling"}
    BY <2>0
  <2>1. Cardinality(Useful(p)) > Deaths(p) /\ Deaths(p) \in Nat
    BY Parts, DeathsType DEF UsefulInv
  <2>2. Useful(p) # {}
    BY <2>1, Cardinalities, FS_EmptySet
  <2>3. QED BY <2>2 DEF Useful
<1>2. QED BY <1>1, Invariance, PTL

----------------------------------------------------------------------------
(***************************************************************************)
(* The in-memory log is right for any number of readers, any versions and  *)
(* any number of moves of the array: what a reader exposes is what was     *)
(* appended, Seek stands at the first entry that is not below its target,  *)
(* and no CHECK fails when versions begin at 1.                            *)
(*                                                                         *)
(* Readers see the log only through the array.  While a reader holds the   *)
(* lock, entries_ is the newest allocation, and that begins with the log   *)
(* (ArrayHoldsLog); the log is sorted and only grows (LogIsSorted), so     *)
(* what a reader has found out before it took the lock stays true.         *)
(***************************************************************************)
Positions == {"idle", "full", "moved", "room", "written", "counted", "next", "nextLocked",
              "seek", "search", "searchLocked", "halving", "failed"}

Types ==
  /\ LogTypeOK
  /\ place \in [Reader \cup {Appender} -> Positions]
  /\ Len(array) > 0

LastOf == IF Len(log) = 0 THEN 0 ELSE log[Len(log)]

\* The appender: entries_ dangles while it holds the lock, and only then; the
\* array holds the log, and then what is being appended.
ArrayHoldsLog ==
  /\ exclusive <=> place[Appender] = "moved"
  /\ place[Appender] # "moved" => entries = allocation
  /\ \A i \in 1 .. Len(log) : array[i] = log[i]
  /\ place[Appender] \in {"moved", "room", "written"} => size < Len(array)
  /\ place[Appender] = "written" => array[size + 1] = writing

LogIsSorted ==
  /\ \A i, j \in 1 .. Len(log) : i < j => log[i] < log[j]
  /\ place[Appender] # "counted" => maxVersion = LastOf
  /\ place[Appender] = "counted" => Len(log) > 0 /\ maxVersion < writing /\ LastOf = writing
  /\ place[Appender] \in {"full", "moved", "room", "written"} => writing > maxVersion

\* A reader: what it knows at each place of Next and Seek.
Locked(r)  == place[r] \in {"nextLocked", "searchLocked", "halving"}
Seeking(r) == place[r] \in {"seek", "search", "searchLocked", "halving"}
Sized(r)   == place[r] \in {"search", "searchLocked", "halving"}

Stands(r) == offset[r] < Len(log) /\ entry[r] = log[offset[r] + 1]

ReaderInv(r) ==
  /\ r \in shared <=> Locked(r)
  /\ place[r] \in {"next", "nextLocked"} => offset[r] < Len(log) /\ target[r] = 0
  /\ place[r] = "idle" /\ started[r] => Stands(r)
  /\ place[r] = "idle" /\ target[r] # 0 =>
       started[r] /\ entry[r] >= target[r] /\ \A i \in 1 .. offset[r] : log[i] < target[r]
  /\ Seeking(r) => target[r] > 0 /\ Len(log) > 0 /\ target[r] <= log[Len(log)]
  /\ Sized(r) => started[r] /\ snapshot[r] \in 1 .. Len(log) /\ target[r] <= log[snapshot[r]]
  /\ place[r] = "halving" => low[r] <= high[r] /\ high[r] < snapshot[r]

\* With versions that begin at 1, the invariant of the loop, as its comment in
\* the code has it.
SearchInv(r) ==
  /\ place[r] # "failed"
  /\ place[r] = "halving" =>
       low[r] < high[r] /\ log[low[r] + 1] < target[r] /\ target[r] < log[high[r] + 1]

BeginsAtOne == Len(log) > 0 => log[1] = 1

LogInv == Types /\ ArrayHoldsLog /\ LogIsSorted

LogIInv == LogInv /\ \A r \in Reader : ReaderInv(r)

----------------------------------------------------------------------------
LEMMA LogInitInv == LogInit => LogIInv
<1> SUFFICES ASSUME LogInit PROVE LogIInv
  OBVIOUS
<1>1. array \in Seq(0 .. MaxVersion) /\ Len(array) = InitialSize
  BY LocalMemLogAssumption DEF LogInit
<1>2. log = << >> /\ log \in Seq(1 .. MaxVersion) /\ Len(log) = 0
  BY DEF LogInit
<1>3. Types
  <2>1. /\ place \in [Reader \cup {Appender} -> Positions]
        /\ place[Appender] = "idle" /\ \A r \in Reader : place[r] = "idle"
    BY DEF LogInit, Positions
  <2>2. 0 \in 0 .. MaxVersion
    BY LocalMemLogAssumption
  <2>3. Len(array) \in Nat /\ Len(array) > 0
    BY <1>1, LocalMemLogAssumption
  <2>4. LogTypeOK
    <3>1. allocation \in Nat /\ entries \in {allocation - 1, allocation} /\ size = Len(log)
      BY <1>2 DEF LogInit
    <3>2. size <= Len(array) /\ maxVersion \in 0 .. MaxVersion /\ writing \in 0 .. MaxVersion
      <4>1. size = 0 /\ maxVersion = 0 /\ writing = 0
        BY DEF LogInit
      <4>2. QED BY <2>2, <2>3, <4>1
    <3>3. /\ exclusive \in BOOLEAN /\ shared \subseteq Reader /\ (exclusive => shared = {})
          /\ started \in [Reader -> BOOLEAN] /\ offset \in [Reader -> Nat]
          /\ entry \in [Reader -> 0 .. MaxVersion] /\ target \in [Reader -> 0 .. MaxVersion]
          /\ snapshot \in [Reader -> Nat] /\ low \in [Reader -> Nat] /\ high \in [Reader -> Nat]
      BY <2>2 DEF LogInit
    <3>4. QED BY <1>1, <1>2, <2>1, <3>1, <3>2, <3>3 DEF LogTypeOK
  <2>5. QED BY <2>1, <2>3, <2>4 DEF Types
<1>4. ArrayHoldsLog
  <2>1. place[Appender] = "idle" /\ exclusive = FALSE /\ entries = allocation
    BY DEF LogInit
  <2>2. QED BY <1>2, <2>1 DEF ArrayHoldsLog
<1>5. LogIsSorted
  BY <1>2 DEF LogInit, LogIsSorted, LastOf
<1>6. ASSUME NEW r \in Reader PROVE ReaderInv(r)
  BY DEF LogInit, ReaderInv, Locked, Seeking, Sized
<1>7. QED BY <1>3, <1>4, <1>5, <1>6 DEF LogIInv, LogInv

\* What a reader that holds the lock finds at a counted entry.
LEMMA LockedSeesLog ==
  ASSUME LogInv, NEW r \in Reader, ReaderInv(r), Locked(r), NEW i \in Nat, i < Len(log)
  PROVE  At(i) = log[i + 1] /\ At(i) \in 1 .. MaxVersion
<1>1. entries = allocation
  BY DEF LogInv, ReaderInv, Types, LogTypeOK, ArrayHoldsLog
<1>2. log \in Seq(1 .. MaxVersion) /\ i + 1 \in 1 .. Len(log)
  BY DEF LogInv, Types, LogTypeOK
<1>3. array[i + 1] = log[i + 1]
  BY <1>2 DEF LogInv, ArrayHoldsLog
<1>4. log[i + 1] \in 1 .. MaxVersion
  BY <1>2, ElementOfSeq
<1>5. QED BY <1>1, <1>3, <1>4 DEF At

\* A step of the appender: the log grows at its end, if at all.
LogGrows ==
  /\ Len(log) <= Len(log')
  /\ \A i \in 1 .. Len(log) : log'[i] = log[i]

LEMMA AppenderStep ==
  ASSUME LogInv, AppendStep
  PROVE  /\ LogInv' /\ LogGrows /\ UNCHANGED readVars
         /\ \A r \in Reader : place'[r] = place[r]
<1>1. /\ log \in Seq(1 .. MaxVersion) /\ Len(log) \in Nat
      /\ size = Len(log)
  BY LocalMemLogAssumption DEF LogInv, Types, LogTypeOK
<1>2. /\ array \in Seq(0 .. MaxVersion) /\ Len(array) \in Nat
      /\ size <= Len(array) /\ Len(array) > 0
  BY LocalMemLogAssumption DEF LogInv, Types, LogTypeOK
<1>3. /\ place \in [Reader \cup {Appender} -> Positions]
      /\ maxVersion \in 0 .. MaxVersion /\ writing \in 0 .. MaxVersion /\ MaxVersion \in Nat
      /\ allocation \in Nat
  BY LocalMemLogAssumption DEF LogInv, Types, LogTypeOK
<1>4. ASSUME NEW l, NEW k \in Positions, Advance(Appender, l, k)
      PROVE  /\ place' \in [Reader \cup {Appender} -> Positions]
             /\ place[Appender] = l /\ place'[Appender] = k
             /\ \A r \in Reader : place'[r] = place[r]
  BY <1>3, <1>4, LocalMemLogAssumption DEF Advance
<1>5. log' = log => LogGrows
  BY <1>1 DEF LogGrows
<1>6. ASSUME NEW v \in 1 .. MaxVersion, BeginAppend(v)
      PROVE  /\ LogInv' /\ LogGrows /\ UNCHANGED readVars
             /\ \A r \in Reader : place'[r] = place[r]
  <2> DEFINE to == IF size >= Len(array) THEN "full" ELSE "room"
  <2>1. Advance(Appender, "idle", to) /\ to \in Positions
    BY <1>6 DEF BeginAppend, Positions
  <2> HIDE DEF to
  <2>2. /\ place' \in [Reader \cup {Appender} -> Positions] /\ place[Appender] = "idle"
        /\ place'[Appender] = to /\ \A r \in Reader : place'[r] = place[r]
    BY <1>4, <2>1
  <2>3. to \in {"full", "room"} /\ (to = "room" => size < Len(array))
    BY <1>1, <1>2 DEF to
  <2>4. Types'
    BY <1>3, <1>6, <2>2, <2>3 DEF BeginAppend, LogInv, Types, LogTypeOK, readVars
  <2>5. ArrayHoldsLog'
    BY <1>6, <2>2, <2>3 DEF BeginAppend, LogInv, ArrayHoldsLog, readVars
  <2>6. LogIsSorted'
    BY <1>3, <1>6, <2>2, <2>3 DEF BeginAppend, LogInv, LogIsSorted, LastOf, readVars
  <2>7. QED BY <1>5, <1>6, <2>2, <2>4, <2>5, <2>6 DEF LogInv, BeginAppend
<1>7. CASE Resize
  <2>1. Advance(Appender, "full", "moved")
    BY <1>7 DEF Resize
  <2>2. /\ place' \in [Reader \cup {Appender} -> Positions] /\ place[Appender] = "full"
        /\ place'[Appender] = "moved" /\ \A r \in Reader : place'[r] = place[r]
    BY <1>4, <2>1 DEF Positions
  <2>3. array' \in Seq(0 .. MaxVersion) /\ Len(array') = Len(array) + Len(array)
        /\ \A i \in 1 .. Len(array) : array'[i] = array[i]
    <3> DEFINE room == [i \in 1 .. Len(array) |-> 0]
    <3>1. array' = array \o room
      BY <1>7 DEF Resize
    <3>2. room \in Seq(0 .. MaxVersion) /\ Len(room) = Len(array)
      BY <1>2, <1>3
    <3> HIDE DEF room
    <3>3. /\ Len(array \o room) = Len(array) + Len(room)
          /\ array \o room \in Seq(0 .. MaxVersion)
          /\ \A i \in 1 .. Len(array) : (array \o room)[i] = array[i]
      BY <1>2, <3>2
    <3>4. QED BY <3>1, <3>2, <3>3
  <2>4. entries = allocation
    BY <2>2 DEF LogInv, ArrayHoldsLog
  <2>5. Types'
    <3>1. size' <= Len(array') /\ Len(array') > 0
      BY <1>1, <1>2, <1>7, <2>3 DEF Resize
    <3>2. allocation' \in Nat /\ entries' = allocation' - 1
      BY <1>3, <1>7, <2>4 DEF Resize
    <3>3. QED BY <1>1, <1>3, <1>7, <2>2, <2>3, <3>1, <3>2
              DEF Resize, LogInv, Types, LogTypeOK, readVars
  <2>6. ArrayHoldsLog'
    BY <1>1, <1>2, <1>7, <2>2, <2>3 DEF Resize, LogInv, ArrayHoldsLog, readVars
  <2>7. LogIsSorted'
    BY <1>7, <2>2 DEF Resize, LogInv, LogIsSorted, LastOf, readVars
  <2>8. QED BY <1>5, <1>7, <2>2, <2>5, <2>6, <2>7 DEF LogInv, Resize
<1>8. CASE AssignEntries
  <2>1. Advance(Appender, "moved", "room")
    BY <1>8 DEF AssignEntries
  <2>2. /\ place' \in [Reader \cup {Appender} -> Positions] /\ place[Appender] = "moved"
        /\ place'[Appender] = "room" /\ \A r \in Reader : place'[r] = place[r]
    BY <1>4, <2>1 DEF Positions
  <2>3. Types'
    BY <1>3, <1>8, <2>2 DEF AssignEntries, LogInv, Types, LogTypeOK, readVars
  <2>4. ArrayHoldsLog'
    BY <1>8, <2>2 DEF AssignEntries, LogInv, ArrayHoldsLog, readVars
  <2>5. LogIsSorted'
    BY <1>8, <2>2 DEF AssignEntries, LogInv, LogIsSorted, LastOf, readVars
  <2>6. QED BY <1>5, <1>8, <2>2, <2>3, <2>4, <2>5 DEF LogInv, AssignEntries
<1>9. CASE WriteEntry
  <2>1. Advance(Appender, "room", "written")
    BY <1>9 DEF WriteEntry
  <2>2. /\ place' \in [Reader \cup {Appender} -> Positions] /\ place[Appender] = "room"
        /\ place'[Appender] = "written" /\ \A r \in Reader : place'[r] = place[r]
    BY <1>4, <2>1 DEF Positions
  <2>3. size < Len(array)
    BY <2>2 DEF LogInv, ArrayHoldsLog
  <2>4. array' \in Seq(0 .. MaxVersion) /\ Len(array') = Len(array) /\ array'[size + 1] = writing
        /\ \A i \in 1 .. size : array'[i] = array[i]
    <3>1. array' = [array EXCEPT ![size + 1] = writing] /\ size + 1 \in 1 .. Len(array)
      BY <1>1, <1>2, <1>9, <2>3 DEF WriteEntry
    <3>2. QED BY <1>1, <1>2, <1>3, <3>1
  <2>5. Types'
    BY <1>9, <2>2, <2>4 DEF WriteEntry, LogInv, Types, LogTypeOK, readVars
  <2>6. ArrayHoldsLog'
    BY <1>1, <1>9, <2>2, <2>3, <2>4 DEF WriteEntry, LogInv, ArrayHoldsLog, readVars
  <2>7. LogIsSorted'
    BY <1>9, <2>2 DEF WriteEntry, LogInv, LogIsSorted, LastOf, readVars
  <2>8. QED BY <1>5, <1>9, <2>2, <2>5, <2>6, <2>7 DEF LogInv, WriteEntry
<1>10. CASE CountEntry
  <2>1. Advance(Appender, "written", "counted")
    BY <1>10 DEF CountEntry
  <2>2. /\ place' \in [Reader \cup {Appender} -> Positions] /\ place[Appender] = "written"
        /\ place'[Appender] = "counted" /\ \A r \in Reader : place'[r] = place[r]
    BY <1>4, <2>1 DEF Positions
  <2>3. /\ array[Len(log) + 1] = writing /\ Len(log) < Len(array)
        /\ \A i \in 1 .. Len(log) : array[i] = log[i]
    BY <1>1, <2>2 DEF LogInv, ArrayHoldsLog
  <2>4. writing > maxVersion /\ maxVersion = LastOf
    BY <2>2 DEF LogInv, LogIsSorted
  <2>5. /\ log' \in Seq(1 .. MaxVersion) /\ Len(log') = Len(log) + 1
        /\ log'[Len(log) + 1] = writing /\ \A i \in 1 .. Len(log) : log'[i] = log[i]
    <3>1. log' = Append(log, writing) /\ writing \in 1 .. MaxVersion
      BY <1>3, <1>10, <2>4 DEF CountEntry
    <3>2. QED BY <1>1, <3>1
  <2>6. LogGrows
    BY <1>1, <2>5 DEF LogGrows
  <2>7. Types'
    BY <1>1, <1>2, <1>10, <2>2, <2>3, <2>5 DEF CountEntry, LogInv, Types, LogTypeOK, readVars
  <2>8. ArrayHoldsLog'
    BY <1>1, <1>10, <2>2, <2>3, <2>5 DEF CountEntry, LogInv, ArrayHoldsLog, readVars
  <2>9. LogIsSorted'
    <3>1. \A i, j \in 1 .. Len(log) : i < j => log[i] < log[j]
      BY DEF LogInv, LogIsSorted
    <3>2. \A i \in 1 .. Len(log) : log[i] \in Nat
      BY <1>1, <1>3
    <3>3. \A i \in 1 .. Len(log) : log[i] < writing
      <4> SUFFICES ASSUME NEW i \in 1 .. Len(log) PROVE log[i] < writing
        OBVIOUS
      <4>1. LastOf = log[Len(log)] /\ Len(log) \in 1 .. Len(log)
        BY <1>1 DEF LastOf
      <4>2. log[i] <= log[Len(log)]
        BY <1>1, <3>1, <3>2, <4>1
      <4>3. QED BY <1>3, <2>4, <3>2, <4>1, <4>2
    <3>4. \A i, j \in 1 .. Len(log') : i < j => log'[i] < log'[j]
      <4> SUFFICES ASSUME NEW i \in 1 .. Len(log'), NEW j \in 1 .. Len(log'), i < j
                   PROVE  log'[i] < log'[j]
        OBVIOUS
      <4>1. i \in 1 .. Len(log) /\ (j \in 1 .. Len(log) \/ j = Len(log) + 1)
        BY <1>1, <2>5
      <4>2. QED BY <2>5, <3>1, <3>3, <4>1
    <3>5. LastOf' = writing /\ Len(log') > 0
      BY <1>1, <2>5 DEF LastOf
    <3>6. maxVersion' = maxVersion /\ writing' = writing
      BY <1>10 DEF CountEntry
    <3>7. QED BY <2>2, <2>4, <3>4, <3>5, <3>6 DEF LogIsSorted
  <2>10. QED BY <1>10, <2>2, <2>6, <2>7, <2>8, <2>9 DEF LogInv, CountEntry
<1>11. CASE EndAppend
  <2>1. Advance(Appender, "counted", "idle")
    BY <1>11 DEF EndAppend
  <2>2. /\ place' \in [Reader \cup {Appender} -> Positions] /\ place[Appender] = "counted"
        /\ place'[Appender] = "idle" /\ \A r \in Reader : place'[r] = place[r]
    BY <1>4, <2>1 DEF Positions
  <2>3. Types'
    BY <1>11, <2>2 DEF EndAppend, LogInv, Types, LogTypeOK, readVars
  <2>4. ArrayHoldsLog'
    BY <1>11, <2>2 DEF EndAppend, LogInv, ArrayHoldsLog, readVars
  <2>5. LogIsSorted'
    BY <1>11, <2>2 DEF EndAppend, LogInv, LogIsSorted, LastOf, readVars
  <2>6. QED BY <1>5, <1>11, <2>2, <2>3, <2>4, <2>5 DEF LogInv, EndAppend
<1>12. QED BY <1>6, <1>7, <1>8, <1>9, <1>10, <1>11 DEF AppendStep

\* A reader whose members, local variables and place do not change is right as
\* long as the log only grows.
LEMMA ReaderStays ==
  ASSUME LogInv, LogInv', LogGrows, NEW r \in Reader, ReaderInv(r), place'[r] = place[r],
         r \in shared' <=> r \in shared,
         started'[r] = started[r], offset'[r] = offset[r], entry'[r] = entry[r],
         target'[r] = target[r], snapshot'[r] = snapshot[r],
         low'[r] = low[r], high'[r] = high[r]
  PROVE  ReaderInv(r)'
<1>1. log \in Seq(1 .. MaxVersion) /\ log' \in Seq(1 .. MaxVersion)
  BY DEF LogInv, Types, LogTypeOK
<1>2. Len(log) \in Nat /\ Len(log') \in Nat
  BY <1>1
<1>3. /\ \A i \in 1 .. Len(log) : log[i] \in Nat
      /\ \A i \in 1 .. Len(log') : log'[i] \in Nat
  BY <1>1, LocalMemLogAssumption
<1>4. Len(log) <= Len(log') /\ \A i \in 1 .. Len(log) : log'[i] = log[i]
  BY DEF LogGrows
<1>5. offset[r] \in Nat /\ target[r] \in Nat /\ snapshot[r] \in Nat
  BY LocalMemLogAssumption DEF LogInv, Types, LogTypeOK
<1>6. Len(log) > 0 => log[Len(log)] <= log'[Len(log')]
  <2>1. \A i, j \in 1 .. Len(log') : i < j => log'[i] < log'[j]
    BY DEF LogInv, LogIsSorted
  <2>2. CASE Len(log) = Len(log')
    BY <1>2, <1>3, <1>4, <2>2
  <2>3. CASE Len(log) < Len(log') /\ Len(log) > 0
    <3>1. Len(log) \in 1 .. Len(log) /\ Len(log) \in 1 .. Len(log') /\ Len(log') \in 1 .. Len(log')
      BY <1>2, <2>3
    <3>2. log'[Len(log)] < log'[Len(log')]
      BY <2>1, <2>3, <3>1
    <3>3. QED BY <1>3, <1>4, <3>1, <3>2
  <2>4. QED BY <1>2, <1>4, <2>2, <2>3
<1>7. Stands(r) => Stands(r)'
  <2> SUFFICES ASSUME Stands(r) PROVE Stands(r)'
    OBVIOUS
  <2>1. offset[r] + 1 \in 1 .. Len(log) /\ offset[r] < Len(log')
    BY <1>2, <1>4, <1>5 DEF Stands
  <2>2. QED BY <1>4, <2>1 DEF Stands
<1>8. (\A i \in 1 .. offset[r] : log[i] < target[r]) /\ offset[r] < Len(log)
      => \A i \in 1 .. offset[r] : log'[i] < target[r]
  BY <1>2, <1>4, <1>5
<1>9. place[r] \in {"next", "nextLocked"} => offset[r] < Len(log')
  BY <1>2, <1>4, <1>5 DEF ReaderInv
<1>10. Seeking(r) => target[r] > 0 /\ Len(log') > 0 /\ target[r] <= log'[Len(log')]
  <2> SUFFICES ASSUME Seeking(r)
               PROVE  target[r] > 0 /\ Len(log') > 0 /\ target[r] <= log'[Len(log')]
    OBVIOUS
  <2>1. target[r] > 0 /\ Len(log) > 0 /\ target[r] <= log[Len(log)]
    BY DEF ReaderInv
  <2>2. Len(log) \in 1 .. Len(log) /\ Len(log') \in 1 .. Len(log')
    BY <1>2, <1>4, <2>1
  <2>3. QED BY <1>2, <1>3, <1>4, <1>5, <1>6, <2>1, <2>2
<1>11. Sized(r) => started[r] /\ snapshot[r] \in 1 .. Len(log') /\ target[r] <= log'[snapshot[r]]
  BY <1>2, <1>4, <1>5 DEF ReaderInv
<1>12. place[r] = "idle" /\ target[r] # 0 => \A i \in 1 .. offset[r] : log'[i] < target[r]
  BY <1>8 DEF ReaderInv, Stands
<1>13. (Locked(r) <=> Locked(r)') /\ (Seeking(r) <=> Seeking(r)') /\ (Sized(r) <=> Sized(r)')
  BY DEF Locked, Seeking, Sized
<1>14. QED BY <1>7, <1>9, <1>10, <1>11, <1>12, <1>13 DEF ReaderInv

\* The sequence is sorted: a reader may compare where it stands with the rest.
LEMMA Sorted ==
  ASSUME LogInv
  PROVE  /\ Len(log) \in Nat
         /\ \A i \in 1 .. Len(log) : log[i] \in Nat
         /\ \A i, j \in 1 .. Len(log) : i <= j => log[i] <= log[j]
         /\ \A i, j \in 1 .. Len(log) : i < j => log[i] < log[j]
<1>1. log \in Seq(1 .. MaxVersion)
  BY DEF LogInv, Types, LogTypeOK
<1>2. Len(log) \in Nat /\ \A i \in 1 .. Len(log) : log[i] \in Nat
  BY <1>1, LocalMemLogAssumption
<1>3. \A i, j \in 1 .. Len(log) : i < j => log[i] < log[j]
  BY DEF LogInv, LogIsSorted
<1>4. \A i, j \in 1 .. Len(log) : i <= j => log[i] <= log[j]
  BY <1>2, <1>3
<1>5. QED BY <1>2, <1>3, <1>4

LEMMA AllBefore ==
  ASSUME LogInv, NEW i \in 1 .. Len(log), NEW n \in Nat, NEW x \in Nat,
         (n < i /\ log[i] = x) \/ (n <= i /\ log[i] < x)
  PROVE  \A j \in 1 .. n : log[j] < x
<1> SUFFICES ASSUME NEW j \in 1 .. n PROVE log[j] < x
  OBVIOUS
<1>1. Len(log) \in Nat
  BY Sorted
<1>2. j \in 1 .. Len(log) /\ i \in 1 .. Len(log) /\ j <= i /\ (n < i => j < i)
  BY <1>1
<1>3. /\ log[j] \in Nat /\ log[i] \in Nat /\ log[j] <= log[i]
      /\ j < i => log[j] < log[i]
  BY <1>2, Sorted
<1>4. QED BY <1>2, <1>3

\* A step of a reader changes what is its own, and keeps its types.
Own(r) ==
  /\ UNCHANGED appendVars
  /\ place' \in [Reader \cup {Appender} -> Positions]
  /\ place'[Appender] = place[Appender]
  /\ \A q \in Reader \ {r} :
       /\ place'[q] = place[q] /\ (q \in shared' <=> q \in shared)
       /\ started'[q] = started[q] /\ offset'[q] = offset[q] /\ entry'[q] = entry[q]
       /\ target'[q] = target[q] /\ snapshot'[q] = snapshot[q]
       /\ low'[q] = low[q] /\ high'[q] = high[q]
  /\ place'[r] \in {"idle", "next", "nextLocked", "seek", "search", "searchLocked",
                 "halving", "failed"}
  /\ shared' \subseteq Reader /\ (exclusive => shared' = {})
  /\ started' \in [Reader -> BOOLEAN] /\ offset' \in [Reader -> Nat]
  /\ entry' \in [Reader -> 0 .. MaxVersion]
  /\ target' \in [Reader -> 0 .. MaxVersion] /\ snapshot' \in [Reader -> Nat]
  /\ low' \in [Reader -> Nat] /\ high' \in [Reader -> Nat]

LEMMA OwnStep ==
  ASSUME LogInv, \A q \in Reader : ReaderInv(q), NEW r \in Reader, Own(r)
  PROVE  LogInv' /\ LogGrows /\ \A q \in Reader \ {r} : ReaderInv(q)'
<1>1. UNCHANGED <<array, allocation, entries, size, maxVersion, log, writing, exclusive>>
  BY DEF Own, appendVars
<1>2. LogGrows
  BY <1>1, Sorted DEF LogGrows
<1>3. ASSUME NEW q \in Reader
      PROVE  place'[q] \in {"idle", "next", "nextLocked", "seek", "search", "searchLocked",
                         "halving", "failed"}
  BY DEF Own, LogInv, Types, LogTypeOK
<1>4. Types'
  <2>1. LogTypeOK'
    BY <1>1, <1>3 DEF Own, LogInv, Types, LogTypeOK
  <2>2. QED BY <1>1, <2>1 DEF Own, LogInv, Types
<1>5. ArrayHoldsLog' /\ LogIsSorted'
  BY <1>1 DEF Own, LogInv, ArrayHoldsLog, LogIsSorted, LastOf
<1>6. LogInv'
  BY <1>4, <1>5 DEF LogInv
<1>7. ASSUME NEW q \in Reader \ {r} PROVE ReaderInv(q)'
  BY <1>2, <1>6, ReaderStays DEF Own
<1>8. QED BY <1>2, <1>6, <1>7

\* What the types say of the readers.
LEMMA ReaderTypes ==
  ASSUME LogInv
  PROVE  /\ place \in [Reader \cup {Appender} -> Positions]
         /\ shared \subseteq Reader /\ (exclusive => shared = {})
         /\ started \in [Reader -> BOOLEAN] /\ offset \in [Reader -> Nat]
         /\ entry \in [Reader -> 0 .. MaxVersion] /\ MaxVersion \in Nat
         /\ target \in [Reader -> 0 .. MaxVersion] /\ snapshot \in [Reader -> Nat]
         /\ low \in [Reader -> Nat] /\ high \in [Reader -> Nat]
         /\ size = Len(log) /\ Len(log) \in Nat
         /\ Appender \notin Reader
  BY LocalMemLogAssumption DEF LogInv, Types, LogTypeOK

----------------------------------------------------------------------------
(***************************************************************************)
(* Each step of a reader.                                                  *)
(***************************************************************************)
LEMMA BeginNextStep ==
  ASSUME LogInv, NEW r \in Reader, ReaderInv(r), BeginNext(r)
  PROVE  Own(r) /\ ReaderInv(r)'
<1>1. /\ place[r] = "idle" /\ place' = [place EXCEPT ![r] = "next"]
      /\ started' = [started EXCEPT ![r] = TRUE] /\ target' = [target EXCEPT ![r] = 0]
      /\ offset' = [offset EXCEPT ![r] = IF started[r] THEN offset[r] + 1 ELSE 0]
      /\ UNCHANGED <<appendVars, shared, entry, snapshot, low, high>>
  BY ReaderTypes DEF BeginNext, Advance
<1>2. Own(r)
  <2>1. offset' \in [Reader -> Nat] /\ started' \in [Reader -> BOOLEAN]
    BY <1>1, ReaderTypes
  <2>2. /\ place' \in [Reader \cup {Appender} -> Positions] /\ place'[Appender] = place[Appender]
        /\ place'[r] = "next"
    BY <1>1, ReaderTypes DEF Positions
  <2>3. target' \in [Reader -> 0 .. MaxVersion]
    BY <1>1, ReaderTypes
  <2>4. QED BY <1>1, <2>1, <2>2, <2>3, ReaderTypes DEF Own
<1>3. offset'[r] < Len(log)
  <2>1. CASE started[r]
    <3>1. offset[r] < Len(log) /\ offset[r] # Len(log) - 1
      BY <1>1, <2>1, ReaderTypes DEF BeginNext, AtEnd, ReaderInv, Stands
    <3>2. QED BY <1>1, <2>1, <3>1, ReaderTypes
  <2>2. CASE ~ started[r]
    <3>1. Len(log) # 0
      BY ReaderTypes DEF BeginNext, AtEnd
    <3>2. QED BY <1>1, <2>2, <3>1, ReaderTypes
  <2>3. QED BY <2>1, <2>2
<1>4. /\ place'[r] = "next" /\ target'[r] = 0 /\ (r \in shared' <=> r \in shared)
      /\ log' = log
  BY <1>1, ReaderTypes DEF appendVars
<1>5. r \notin shared
  BY <1>1 DEF ReaderInv, Locked
<1>6. QED BY <1>2, <1>3, <1>4, <1>5 DEF ReaderInv, Locked, Seeking, Sized

LEMMA LockArrayStep ==
  ASSUME LogInv, NEW r \in Reader, ReaderInv(r), LockArray(r)
  PROVE  Own(r) /\ ReaderInv(r)'
<1>1. PICK to \in {"nextLocked", "searchLocked"} :
        /\ place[r] = (IF to = "nextLocked" THEN "next" ELSE "search")
        /\ place' = [place EXCEPT ![r] = to]
  BY DEF LockArray, Advance
<1>2. ~ exclusive /\ shared' = shared \cup {r}
      /\ UNCHANGED <<appendVars, started, offset, entry, target, snapshot, low, high>>
  BY DEF LockArray
<1>3. Own(r)
  BY <1>1, <1>2, ReaderTypes DEF Own, Positions
<1>4. /\ place'[r] = to /\ r \in shared' /\ log' = log
  BY <1>1, <1>2, ReaderTypes DEF appendVars
<1>5. ReaderInv(r)'
  BY <1>1, <1>2, <1>4 DEF ReaderInv, Locked, Seeking, Sized
<1>6. QED BY <1>3, <1>5

LEMMA ReadNextStep ==
  ASSUME LogInv, NEW r \in Reader, ReaderInv(r), ReadNext(r)
  PROVE  Own(r) /\ ReaderInv(r)'
<1>1. /\ place[r] = "nextLocked" /\ place' = [place EXCEPT ![r] = "idle"]
      /\ entry' = [entry EXCEPT ![r] = At(offset[r])] /\ shared' = shared \ {r}
      /\ UNCHANGED <<appendVars, started, offset, target, snapshot, low, high>>
  BY DEF ReadNext, Advance
<1>2. offset[r] < Len(log) /\ target[r] = 0 /\ offset[r] \in Nat
  BY <1>1, ReaderTypes DEF ReaderInv
<1>3. At(offset[r]) = log[offset[r] + 1] /\ At(offset[r]) \in 0 .. MaxVersion
  BY <1>1, <1>2, LockedSeesLog, ReaderTypes DEF Locked
<1>4. Own(r)
  BY <1>1, <1>3, ReaderTypes DEF Own, Positions
<1>5. place'[r] = "idle" /\ r \notin shared' /\ log' = log /\ entry'[r] = log[offset[r] + 1]
  BY <1>1, <1>3, ReaderTypes DEF appendVars
<1>6. ReaderInv(r)'
  BY <1>1, <1>2, <1>5 DEF ReaderInv, Locked, Seeking, Sized, Stands
<1>7. QED BY <1>4, <1>6

LEMMA BeginSeekStep ==
  ASSUME LogInv, NEW r \in Reader, ReaderInv(r), NEW t \in 1 .. MaxVersion, BeginSeek(r, t)
  PROVE  Own(r) /\ ReaderInv(r)'
<1>1. /\ place[r] = "idle" /\ place' = [place EXCEPT ![r] = "seek"]
      /\ target' = [target EXCEPT ![r] = t]
      /\ UNCHANGED <<appendVars, shared, started, offset, entry, snapshot, low, high>>
  BY DEF BeginSeek, Advance
<1>2. Own(r)
  BY <1>1, ReaderTypes DEF Own, Positions
<1>3. Len(log) > 0 /\ t <= log[Len(log)]
  <2>1. t <= maxVersion /\ maxVersion \in Nat /\ writing \in Nat /\ t \in Nat /\ t > 0
    BY ReaderTypes DEF BeginSeek, LogInv, Types, LogTypeOK
  <2>2. LastOf = maxVersion \/ (LastOf = writing /\ maxVersion < writing)
    BY DEF LogInv, LogIsSorted
  <2>3. QED BY <2>1, <2>2, ReaderTypes DEF LastOf
<1>4. place'[r] = "seek" /\ target'[r] = t /\ log' = log /\ r \notin shared'
  BY <1>1, ReaderTypes DEF appendVars, ReaderInv, Locked
<1>5. ReaderInv(r)'
  BY <1>3, <1>4 DEF ReaderInv, Locked, Seeking, Sized
<1>6. QED BY <1>2, <1>5

LEMMA SnapshotSizeStep ==
  ASSUME LogInv, NEW r \in Reader, ReaderInv(r), SnapshotSize(r)
  PROVE  Own(r) /\ ReaderInv(r)'
<1>1. /\ place[r] = "seek" /\ place' = [place EXCEPT ![r] = "search"]
      /\ snapshot' = [snapshot EXCEPT ![r] = size] /\ started' = [started EXCEPT ![r] = TRUE]
      /\ UNCHANGED <<appendVars, shared, offset, entry, target, low, high>>
  BY DEF SnapshotSize, Advance
<1>2. Own(r)
  BY <1>1, ReaderTypes DEF Own, Positions
<1>3. target[r] > 0 /\ Len(log) > 0 /\ target[r] <= log[Len(log)] /\ r \notin shared
  BY <1>1 DEF ReaderInv, Seeking, Locked
<1>4. /\ place'[r] = "search" /\ started'[r] /\ log' = log /\ snapshot'[r] = Len(log)
      /\ r \notin shared' /\ Len(log) \in 1 .. Len(log) /\ target' = target
  BY <1>1, <1>3, ReaderTypes DEF appendVars
<1>5. ReaderInv(r)'
  BY <1>3, <1>4 DEF ReaderInv, Locked, Seeking, Sized
<1>6. QED BY <1>2, <1>5

LEMMA ResetStep ==
  ASSUME LogInv, NEW r \in Reader, ReaderInv(r), Reset(r)
  PROVE  Own(r) /\ ReaderInv(r)'
<1>1. /\ place[r] = "idle" /\ place' = [place EXCEPT ![r] = "idle"]
      /\ started' = [started EXCEPT ![r] = FALSE] /\ target' = [target EXCEPT ![r] = 0]
      /\ UNCHANGED <<appendVars, shared, offset, entry, snapshot, low, high>>
  BY DEF Reset, Advance
<1>2. Own(r)
  BY <1>1, ReaderTypes DEF Own, Positions
<1>3. /\ place'[r] = "idle" /\ started'[r] = FALSE /\ target'[r] = 0 /\ r \notin shared'
  BY <1>1, ReaderTypes DEF ReaderInv, Locked
<1>4. ReaderInv(r)'
  BY <1>3 DEF ReaderInv, Locked, Seeking, Sized
<1>5. QED BY <1>2, <1>4

\* The call ends at an entry that is not below the target, and all before it are.
LEMMA FoundStep ==
  ASSUME LogInv, NEW r \in Reader, ReaderInv(r), place[r] \in {"searchLocked", "halving"},
         NEW i \in Nat, i < Len(log), Found(r, i), UNCHANGED <<appendVars, started, target>>,
         log[i + 1] >= target[r], \A j \in 1 .. i : log[j] < target[r]
  PROVE  Own(r) /\ ReaderInv(r)'
<1>1. /\ place' = [place EXCEPT ![r] = "idle"]
      /\ entry' = [entry EXCEPT ![r] = At(i)] /\ shared' = shared \ {r}
      /\ offset' = [offset EXCEPT ![r] = i] /\ snapshot' = [snapshot EXCEPT ![r] = 0]
      /\ low' = [low EXCEPT ![r] = 0] /\ high' = [high EXCEPT ![r] = 0]
  BY DEF Found, Leave
<1>2. At(i) = log[i + 1] /\ At(i) \in 0 .. MaxVersion
  BY LockedSeesLog, ReaderTypes DEF Locked
<1>3. Own(r)
  BY <1>1, <1>2, ReaderTypes DEF Own, Positions
<1>4. /\ place'[r] = "idle" /\ r \notin shared' /\ log' = log /\ started'[r] = started[r]
      /\ entry'[r] = log[i + 1] /\ offset'[r] = i /\ target'[r] = target[r]
  BY <1>1, <1>2, ReaderTypes DEF appendVars
<1>5. started[r]
  BY DEF ReaderInv, Sized
<1>6. ReaderInv(r)'
  BY <1>4, <1>5 DEF ReaderInv, Locked, Seeking, Sized, Stands
<1>7. QED BY <1>3, <1>6

\* The reader goes on searching between two entries.
LEMMA NarrowStep ==
  ASSUME LogInv, NEW r \in Reader, ReaderInv(r), place[r] \in {"searchLocked", "halving"},
         NEW l \in Nat, NEW h \in Nat, l <= h, h < snapshot[r],
         place' = [place EXCEPT ![r] = "halving"],
         low' = [low EXCEPT ![r] = l], high' = [high EXCEPT ![r] = h],
         UNCHANGED <<appendVars, started, target, shared, offset, entry, snapshot>>
  PROVE  Own(r) /\ ReaderInv(r)'
<1>1. Own(r)
  BY ReaderTypes DEF Own, Positions
<1>2. /\ place'[r] = "halving" /\ low'[r] = l /\ high'[r] = h /\ log' = log
      /\ r \in shared'
  BY ReaderTypes DEF appendVars, ReaderInv, Locked
<1>3. ReaderInv(r)'
  BY <1>2 DEF ReaderInv, Locked, Seeking, Sized
<1>4. QED BY <1>1, <1>3

LEMMA BeginSearchStep ==
  ASSUME LogInv, NEW r \in Reader, ReaderInv(r), BeginSearch(r)
  PROVE  /\ Own(r) /\ ReaderInv(r)'
         /\ BeginsAtOne => SearchInv(r)'
<1> DEFINE last == snapshot[r] - 1
<1>1. /\ place[r] = "searchLocked" /\ UNCHANGED <<appendVars, started, target>>
      /\ \/ At(0) = target[r] /\ Found(r, 0)
         \/ At(last) = target[r] /\ Found(r, last)
         \/ /\ At(0) # target[r] /\ At(last) # target[r]
            /\ place' = [place EXCEPT ![r] = "halving"]
            /\ low' = [low EXCEPT ![r] = 0]
            /\ high' = [high EXCEPT ![r] = last]
            /\ UNCHANGED <<shared, offset, entry, snapshot>>
  BY DEF BeginSearch
<1>2. /\ snapshot[r] \in 1 .. Len(log) /\ target[r] <= log[snapshot[r]] /\ target[r] > 0
      /\ Len(log) > 0 /\ last \in Nat /\ last < Len(log) /\ last + 1 = snapshot[r]
      /\ snapshot[r] \in Nat /\ target[r] \in Nat
  BY <1>1, ReaderTypes DEF ReaderInv, Sized, Seeking
<1>3. At(0) = log[1] /\ At(last) = log[snapshot[r]]
  <2>1. At(0) = log[0 + 1]
    BY <1>1, <1>2, LockedSeesLog DEF Locked
  <2>2. At(last) = log[last + 1]
    BY <1>1, <1>2, LockedSeesLog DEF Locked
  <2>3. QED BY <1>2, <2>1, <2>2
<1>4. (place'[r] = "idle" => SearchInv(r)') /\ log' = log
  BY <1>1 DEF SearchInv, appendVars
<1> HIDE DEF last
<1>5. CASE At(0) = target[r] /\ Found(r, 0)
  <2>1. log[0 + 1] >= target[r] /\ \A j \in 1 .. 0 : log[j] < target[r]
    BY <1>2, <1>3, <1>5
  <2>2. Own(r) /\ ReaderInv(r)'
    BY <1>1, <1>2, <1>5, <2>1, FoundStep
  <2>3. place'[r] = "idle"
    BY <1>5, ReaderTypes DEF Found
  <2>4. QED BY <1>4, <2>2, <2>3
<1>6. CASE At(last) = target[r] /\ Found(r, last)
  <2>1. \A j \in 1 .. last : log[j] < target[r]
    <3>1. last < snapshot[r] /\ log[snapshot[r]] = target[r]
      BY <1>2, <1>3, <1>6
    <3>2. QED BY <1>2, <3>1, AllBefore
  <2>2. log[last + 1] >= target[r]
    BY <1>2, <1>3, <1>6
  <2>3. Own(r) /\ ReaderInv(r)'
    BY <1>1, <1>2, <1>6, <2>1, <2>2, FoundStep
  <2>4. place'[r] = "idle"
    BY <1>6, ReaderTypes DEF Found
  <2>5. QED BY <1>4, <2>3, <2>4
<1>7. CASE /\ At(0) # target[r] /\ At(last) # target[r]
           /\ place' = [place EXCEPT ![r] = "halving"]
           /\ low' = [low EXCEPT ![r] = 0]
           /\ high' = [high EXCEPT ![r] = last]
           /\ UNCHANGED <<shared, offset, entry, snapshot>>
  <2>1. 0 <= last /\ last < snapshot[r] /\ 0 \in Nat
    BY <1>2
  <2>2. UNCHANGED <<appendVars, started, target, shared, offset, entry, snapshot>>
    BY <1>1, <1>7
  <2>3. Own(r) /\ ReaderInv(r)'
    BY <1>1, <1>2, <1>7, <2>1, <2>2, NarrowStep
  <2>4. ASSUME BeginsAtOne PROVE SearchInv(r)'
    <3>1. log[1] = 1 /\ 1 \in 1 .. Len(log)
      BY <1>2, <2>4, ReaderTypes DEF BeginsAtOne
    <3>2. log[1] < target[r] /\ target[r] < log[last + 1]
      BY <1>2, <1>3, <1>7, <3>1, Sorted
    <3>3. last # 0
      BY <1>2, <1>3, <1>7, <3>2, Sorted
    <3>4. /\ place'[r] = "halving" /\ low'[r] = 0 /\ high'[r] = last /\ target'[r] = target[r]
      BY <1>1, <1>7, ReaderTypes
    <3>5. QED BY <1>2, <1>4, <3>2, <3>3, <3>4 DEF SearchInv
  <2>5. QED BY <2>3, <2>4
<1>8. QED BY <1>1, <1>5, <1>6, <1>7

LEMMA HalveStep ==
  ASSUME LogInv, NEW r \in Reader, ReaderInv(r), Halve(r)
  PROVE  /\ Own(r) /\ ReaderInv(r)'
         /\ SearchInv(r) => SearchInv(r)'
<1> DEFINE mid == (low[r] + high[r]) \div 2
<1>1. /\ place[r] = "halving" /\ Apart(r) /\ UNCHANGED <<appendVars, started, target>>
      /\ \/ At(mid) = target[r] /\ Found(r, mid)
         \/ /\ At(mid) # target[r]
            /\ \/ /\ target[r] < At(mid)
                  /\ high' = [high EXCEPT ![r] = mid] /\ low' = low
               \/ /\ ~ target[r] < At(mid)
                  /\ low' = [low EXCEPT ![r] = mid] /\ high' = high
            /\ UNCHANGED <<place, shared, offset, entry, snapshot>>
  BY DEF Halve
<1>2. /\ snapshot[r] \in 1 .. Len(log) /\ high[r] < snapshot[r] /\ target[r] \in Nat
      /\ low[r] \in Nat /\ high[r] \in Nat /\ Len(log) \in Nat
  BY <1>1, ReaderTypes DEF ReaderInv, Sized
<1>3. mid \in Nat /\ low[r] < mid /\ mid < high[r]
  BY <1>1, <1>2 DEF Apart
<1>4. At(mid) = log[mid + 1]
  BY <1>1, <1>2, <1>3, LockedSeesLog DEF Locked
<1>5. (place'[r] = "idle" => SearchInv(r)') /\ log' = log
  BY <1>1 DEF SearchInv, appendVars
<1>6. mid + 1 \in 1 .. Len(log) /\ log[mid + 1] \in Nat
  BY <1>2, <1>3, Sorted
<1> HIDE DEF mid
<1>7. CASE At(mid) = target[r] /\ Found(r, mid)
  <2>1. \A j \in 1 .. mid : log[j] < target[r]
    <3>1. mid < mid + 1 /\ log[mid + 1] = target[r]
      BY <1>3, <1>4, <1>7
    <3>2. QED BY <1>2, <1>3, <1>6, <3>1, AllBefore
  <2>2. log[mid + 1] >= target[r] /\ mid < Len(log)
    BY <1>2, <1>3, <1>4, <1>6, <1>7
  <2>3. Own(r) /\ ReaderInv(r)'
    BY <1>1, <1>3, <1>7, <2>1, <2>2, FoundStep
  <2>4. place'[r] = "idle"
    BY <1>7, ReaderTypes DEF Found
  <2>5. QED BY <1>5, <2>3, <2>4
<1>8. CASE /\ At(mid) # target[r] /\ target[r] < At(mid)
           /\ high' = [high EXCEPT ![r] = mid] /\ low' = low
           /\ UNCHANGED <<place, shared, offset, entry, snapshot>>
  <2>1. place' = [place EXCEPT ![r] = "halving"] /\ low' = [low EXCEPT ![r] = low[r]]
    BY <1>1, <1>8, ReaderTypes
  <2>2. low[r] <= mid /\ mid < snapshot[r]
    BY <1>2, <1>3
  <2>3. Own(r) /\ ReaderInv(r)'
    BY <1>1, <1>2, <1>3, <1>8, <2>1, <2>2, NarrowStep
  <2>4. /\ place'[r] = "halving" /\ low'[r] = low[r] /\ high'[r] = mid /\ target'[r] = target[r]
    BY <1>1, <1>8, ReaderTypes
  <2>5. SearchInv(r) => SearchInv(r)'
    BY <1>1, <1>3, <1>4, <1>5, <1>8, <2>4 DEF SearchInv
  <2>6. QED BY <2>3, <2>5
<1>9. CASE /\ At(mid) # target[r] /\ ~ target[r] < At(mid)
           /\ low' = [low EXCEPT ![r] = mid] /\ high' = high
           /\ UNCHANGED <<place, shared, offset, entry, snapshot>>
  <2>1. place' = [place EXCEPT ![r] = "halving"] /\ high' = [high EXCEPT ![r] = high[r]]
    BY <1>1, <1>9, ReaderTypes
  <2>2. mid <= high[r]
    BY <1>2, <1>3
  <2>3. Own(r) /\ ReaderInv(r)'
    BY <1>1, <1>2, <1>3, <1>9, <2>1, <2>2, NarrowStep
  <2>4. /\ place'[r] = "halving" /\ low'[r] = mid /\ high'[r] = high[r] /\ target'[r] = target[r]
    BY <1>1, <1>9, ReaderTypes
  <2>5. log[mid + 1] < target[r]
    BY <1>2, <1>4, <1>6, <1>9
  <2>6. SearchInv(r) => SearchInv(r)'
    BY <1>1, <1>3, <1>5, <2>4, <2>5 DEF SearchInv
  <2>7. QED BY <2>3, <2>6
<1>10. QED BY <1>1, <1>7, <1>8, <1>9

LEMMA EndSearchStep ==
  ASSUME LogInv, NEW r \in Reader, ReaderInv(r), EndSearch(r)
  PROVE  /\ Own(r) /\ ReaderInv(r)'
         /\ SearchInv(r) => SearchInv(r)'
<1>1. /\ place[r] = "halving" /\ ~ Apart(r) /\ UNCHANGED <<appendVars, started, target>>
      /\ \/ At(low[r]) < target[r] /\ target[r] < At(high[r]) /\ Found(r, high[r])
         \/ /\ ~ (At(low[r]) < target[r] /\ target[r] < At(high[r]))
            /\ place' = [place EXCEPT ![r] = "failed"]
            /\ Leave(r) /\ UNCHANGED <<offset, entry>>
  BY DEF EndSearch
<1>2. /\ snapshot[r] \in 1 .. Len(log) /\ high[r] < snapshot[r] /\ target[r] \in Nat
      /\ low[r] \in Nat /\ high[r] \in Nat /\ Len(log) \in Nat /\ low[r] <= high[r]
  BY <1>1, ReaderTypes DEF ReaderInv, Sized
<1>3. At(low[r]) = log[low[r] + 1] /\ At(high[r]) = log[high[r] + 1]
  BY <1>1, <1>2, LockedSeesLog DEF Locked
<1>4. high[r] <= low[r] + 1 /\ low[r] + 1 \in 1 .. Len(log) /\ high[r] + 1 \in 1 .. Len(log)
  BY <1>1, <1>2 DEF Apart
<1>5. CASE At(low[r]) < target[r] /\ target[r] < At(high[r]) /\ Found(r, high[r])
  <2>1. \A j \in 1 .. high[r] : log[j] < target[r]
    BY <1>2, <1>3, <1>4, <1>5, AllBefore
  <2>2. log[high[r] + 1] >= target[r] /\ high[r] < Len(log)
    BY <1>2, <1>3, <1>4, <1>5, Sorted
  <2>3. Own(r) /\ ReaderInv(r)'
    BY <1>1, <1>2, <1>5, <2>1, <2>2, FoundStep
  <2>4. place'[r] = "idle"
    BY <1>5, ReaderTypes DEF Found
  <2>5. QED BY <2>3, <2>4 DEF SearchInv
<1>6. CASE /\ ~ (At(low[r]) < target[r] /\ target[r] < At(high[r]))
           /\ place' = [place EXCEPT ![r] = "failed"]
           /\ Leave(r) /\ UNCHANGED <<offset, entry>>
  <2>1. ~ SearchInv(r)
    BY <1>1, <1>3, <1>6 DEF SearchInv
  <2>2. Own(r)
    BY <1>1, <1>6, ReaderTypes DEF Own, Positions, Leave
  <2>3. place'[r] = "failed" /\ r \notin shared'
    BY <1>6, ReaderTypes DEF Leave
  <2>4. ReaderInv(r)'
    BY <2>3 DEF ReaderInv, Locked, Seeking, Sized
  <2>5. QED BY <2>1, <2>2, <2>4
<1>7. QED BY <1>1, <1>5, <1>6

LEMMA ReaderStep ==
  ASSUME LogInv, NEW r \in Reader, ReaderInv(r), ReadStep(r)
  PROVE  /\ Own(r) /\ ReaderInv(r)'
         /\ SearchInv(r) /\ BeginsAtOne => SearchInv(r)'
<1>1. ASSUME place'[r] \notin {"halving", "failed"} PROVE SearchInv(r)'
  BY <1>1 DEF SearchInv
<1>2. CASE BeginNext(r)
  <2>1. place'[r] = "next"
    BY <1>2, ReaderTypes DEF BeginNext, Advance
  <2>2. QED BY <1>1, <1>2, <2>1, BeginNextStep
<1>3. CASE LockArray(r)
  <2>1. place'[r] \in {"nextLocked", "searchLocked"}
    BY <1>3, ReaderTypes DEF LockArray, Advance
  <2>2. QED BY <1>1, <1>3, <2>1, LockArrayStep
<1>4. CASE ReadNext(r)
  <2>1. place'[r] = "idle"
    BY <1>4, ReaderTypes DEF ReadNext, Advance
  <2>2. QED BY <1>1, <1>4, <2>1, ReadNextStep
<1>5. ASSUME NEW t \in 1 .. MaxVersion, BeginSeek(r, t)
      PROVE  Own(r) /\ ReaderInv(r)' /\ SearchInv(r)'
  <2>1. place'[r] = "seek"
    BY <1>5, ReaderTypes DEF BeginSeek, Advance
  <2>2. QED BY <1>1, <1>5, <2>1, BeginSeekStep
<1>6. CASE SnapshotSize(r)
  <2>1. place'[r] = "search"
    BY <1>6, ReaderTypes DEF SnapshotSize, Advance
  <2>2. QED BY <1>1, <1>6, <2>1, SnapshotSizeStep
<1>7. CASE Reset(r)
  <2>1. place'[r] = "idle"
    BY <1>7, ReaderTypes DEF Reset, Advance
  <2>2. QED BY <1>1, <1>7, <2>1, ResetStep
<1>8. QED
  BY <1>2, <1>3, <1>4, <1>5, <1>6, <1>7, BeginSearchStep, HalveStep, EndSearchStep DEF ReadStep

----------------------------------------------------------------------------
LEMMA LogNextInv == LogIInv /\ [LogNext]_logVars => LogIInv' /\ LogGrows
<1> SUFFICES ASSUME LogIInv, [LogNext]_logVars PROVE LogIInv' /\ LogGrows
  OBVIOUS
<1>1. LogInv /\ \A r \in Reader : ReaderInv(r)
  BY DEF LogIInv
<1>2. CASE AppendStep
  <2>1. /\ LogInv' /\ LogGrows /\ UNCHANGED readVars
        /\ \A r \in Reader : place'[r] = place[r]
    BY <1>1, <1>2, AppenderStep
  <2>2. ASSUME NEW r \in Reader PROVE ReaderInv(r)'
    BY <1>1, <2>1, ReaderStays DEF readVars
  <2>3. QED BY <2>1, <2>2 DEF LogIInv
<1>3. ASSUME NEW r \in Reader, ReadStep(r) PROVE LogIInv' /\ LogGrows
  <2>1. Own(r) /\ ReaderInv(r)'
    BY <1>1, <1>3, ReaderStep
  <2>2. LogInv' /\ LogGrows /\ \A q \in Reader \ {r} : ReaderInv(q)'
    BY <1>1, <2>1, OwnStep
  <2>3. QED BY <2>1, <2>2 DEF LogIInv
<1>4. CASE UNCHANGED logVars
  <2>1. UNCHANGED <<appendVars, readVars, place>>
    BY <1>4 DEF logVars
  <2>2. LogGrows
    BY <1>1, <2>1, Sorted DEF LogGrows, appendVars
  <2>3. LogIInv'
    BY <1>1, <2>1 DEF LogIInv, LogInv, Types, LogTypeOK, ArrayHoldsLog, LogIsSorted, LastOf,
                      ReaderInv, Locked, Seeking, Sized, Stands, appendVars, readVars
  <2>4. QED BY <2>2, <2>3
<1>5. QED BY <1>2, <1>3, <1>4 DEF LogNext

LEMMA LogInvariance == LogSpec => []LogIInv
<1>1. LogInit => LogIInv
  BY LogInitInv
<1>2. LogIInv /\ [LogNext]_logVars => LogIInv'
  BY LogNextInv
<1>3. QED BY <1>1, <1>2, PTL DEF LogSpec

\* What an idle reader exposes is the entry that was appended at its offset,
\* although Next and Seek decide before they take the lock, and the appender
\* writes and moves the array (local_mem_log.cc:61-76, 100-172).
THEOREM ReadersExposeTheLogHolds == LogSpec => []ReadersExposeTheLog
<1>1. LogIInv => ReadersExposeTheLog
  BY DEF LogIInv, ReaderInv, Stands, ReadersExposeTheLog
<1>2. QED BY <1>1, LogInvariance, PTL

\* After a Seek the reader stands at the first entry that is not below its
\* target, until it moves on, and whatever is appended meanwhile: also when
\* the binary search and the appender overlap (local_mem_log.cc:120-172).
THEOREM SeekFindsFirstHolds == LogSpec => []SeekFindsFirst
<1>1. LogIInv => SeekFindsFirst
  BY DEF LogIInv, ReaderInv, SeekFindsFirst
<1>2. QED BY <1>1, LogInvariance, PTL

----------------------------------------------------------------------------
(***************************************************************************)
(* The CHECKs.  They need that versions begin at 1: the loop expects the   *)
(* first entry below the target.                                           *)
(***************************************************************************)
FirstIsOne == FirstVersions \subseteq {1}

BeginsRight ==
  /\ BeginsAtOne
  /\ place[Appender] \in {"full", "moved", "room", "written"} /\ Len(log) = 0 => writing = 1

CheckInv == LogIInv /\ BeginsRight /\ \A r \in Reader : SearchInv(r)

LEMMA InitCheck == LogInit => CheckInv
<1> SUFFICES ASSUME LogInit PROVE CheckInv
  OBVIOUS
<1>1. BeginsRight
  BY DEF LogInit, BeginsRight, BeginsAtOne
<1>2. \A r \in Reader : SearchInv(r)
  BY DEF LogInit, SearchInv
<1>3. QED BY <1>1, <1>2, LogInitInv DEF CheckInv

LEMMA LogNextCheck == FirstIsOne /\ CheckInv /\ [LogNext]_logVars => CheckInv'
<1> SUFFICES ASSUME FirstIsOne, CheckInv, [LogNext]_logVars PROVE CheckInv'
  OBVIOUS
<1>1. LogIInv /\ BeginsRight /\ (\A r \in Reader : SearchInv(r)) /\ LogInv
      /\ (\A r \in Reader : ReaderInv(r))
  BY DEF CheckInv, LogIInv
<1>2. LogIInv' /\ LogGrows
  BY <1>1, LogNextInv
<1>3. Len(log) \in Nat /\ (Len(log) > 0 => log'[1] = log[1])
  BY <1>1, <1>2, Sorted DEF LogGrows
\* A step that leaves the places a search looks at as they were.
<1>4. ASSUME NEW r \in Reader, place'[r] = place[r], target'[r] = target[r],
             low'[r] = low[r], high'[r] = high[r]
      PROVE  SearchInv(r)'
  <2>1. CASE place[r] = "halving"
    <3>1. /\ low[r] \in Nat /\ high[r] \in Nat /\ low[r] <= high[r] /\ high[r] < snapshot[r]
          /\ snapshot[r] \in 1 .. Len(log)
      BY <1>1, <2>1, ReaderTypes DEF ReaderInv, Sized
    <3>2. low[r] + 1 \in 1 .. Len(log) /\ high[r] + 1 \in 1 .. Len(log)
      BY <1>3, <3>1
    <3>3. log'[low[r] + 1] = log[low[r] + 1] /\ log'[high[r] + 1] = log[high[r] + 1]
      BY <1>2, <3>2 DEF LogGrows
    <3>4. QED BY <1>1, <1>4, <2>1, <3>3 DEF SearchInv
  <2>2. QED BY <1>1, <1>4, <2>1 DEF SearchInv
<1>5. CASE AppendStep
  <2>1. UNCHANGED readVars /\ \A r \in Reader : place'[r] = place[r]
    BY <1>1, <1>5, AppenderStep
  <2>2. \A r \in Reader : SearchInv(r)'
    BY <1>4, <2>1 DEF readVars
  <2>3. BeginsRight'
    <3>1. place \in [Reader \cup {Appender} -> Positions] /\ size = Len(log) /\ log \in Seq(1 .. MaxVersion)
      BY <1>1, ReaderTypes DEF LogInv, Types, LogTypeOK
    <3>2. ASSUME NEW v \in 1 .. MaxVersion, BeginAppend(v) PROVE BeginsRight'
      <4>1. (Len(log) = 0 => v = 1) /\ writing' = v /\ log' = log
        BY <3>1, <3>2 DEF BeginAppend, FirstIsOne
      <4>2. QED BY <1>1, <4>1 DEF BeginsRight, BeginsAtOne
    <3>3. CASE Resize \/ AssignEntries \/ WriteEntry
      <4>1. /\ log' = log /\ writing' = writing
            /\ place[Appender] \in {"full", "moved", "room"}
        BY <3>3 DEF Resize, AssignEntries, WriteEntry, Advance
      <4>2. QED BY <1>1, <4>1 DEF BeginsRight, BeginsAtOne
    <3>4. CASE CountEntry
      <4>1. /\ place[Appender] = "written" /\ place'[Appender] = "counted"
            /\ log' = Append(log, writing)
        BY <3>1, <3>4 DEF CountEntry, Advance
      <4>2. CASE Len(log) = 0
        <5>1. writing = 1
          BY <1>1, <4>1, <4>2 DEF BeginsRight
        <5>2. log'[1] = 1
          BY <3>1, <4>1, <4>2, <5>1
        <5>3. QED BY <4>1, <5>2 DEF BeginsRight, BeginsAtOne
      <4>3. CASE Len(log) # 0
        <5>1. log'[1] = 1
          BY <1>1, <1>3, <4>3 DEF BeginsRight, BeginsAtOne
        <5>2. QED BY <4>1, <5>1 DEF BeginsRight, BeginsAtOne
      <4>4. QED BY <4>2, <4>3
    <3>5. CASE EndAppend
      <4>1. log' = log /\ place'[Appender] = "idle"
        BY <3>1, <3>5 DEF EndAppend, Advance
      <4>2. QED BY <1>1, <4>1 DEF BeginsRight, BeginsAtOne
    <3>6. QED BY <1>5, <3>2, <3>3, <3>4, <3>5 DEF AppendStep
  <2>4. QED BY <1>2, <2>2, <2>3 DEF CheckInv
<1>6. ASSUME NEW r \in Reader, ReadStep(r) PROVE CheckInv'
  <2>1. Own(r) /\ SearchInv(r)'
    BY <1>1, <1>6, ReaderStep DEF BeginsRight
  <2>2. ASSUME NEW q \in Reader \ {r} PROVE SearchInv(q)'
    BY <1>4, <2>1 DEF Own
  <2>3. log' = log /\ writing' = writing /\ place'[Appender] = place[Appender]
    BY <2>1 DEF Own, appendVars
  <2>4. BeginsRight'
    BY <1>1, <2>3 DEF BeginsRight, BeginsAtOne
  <2>5. QED BY <1>2, <2>1, <2>2, <2>4 DEF CheckInv
<1>7. CASE UNCHANGED logVars
  <2>1. UNCHANGED <<appendVars, readVars, place>>
    BY <1>7 DEF logVars
  <2>2. \A r \in Reader : SearchInv(r)'
    BY <1>4, <2>1 DEF readVars
  <2>3. BeginsRight'
    BY <1>1, <2>1 DEF BeginsRight, BeginsAtOne, appendVars
  <2>4. QED BY <1>2, <2>2, <2>3 DEF CheckInv
<1>8. QED BY <1>5, <1>6, <1>7 DEF LogNext

\* The types hold, no CHECK of a reader fails, and none reads behind the end,
\* however calls overlap with appends and moves (local_mem_log.cc:110, 166-167):
\* if the first version is 1, as it is in both logs of the code (paxos2.cc:93,
\* log_app.cc:51).
THEOREM LogIsConsistentHolds == FirstIsOne => (LogSpec => []LogIsConsistent)
<1> SUFFICES ASSUME FirstIsOne PROVE LogSpec => []LogIsConsistent
  OBVIOUS
<1>1. LogInit => CheckInv
  BY InitCheck
<1>2. CheckInv /\ [LogNext]_logVars => CheckInv'
  BY LogNextCheck
<1>3. CheckInv => LogIsConsistent
  <2> SUFFICES ASSUME CheckInv PROVE LogIsConsistent
    OBVIOUS
  <2>1. LogTypeOK /\ size = Len(log)
    BY DEF CheckInv, LogIInv, LogInv, Types, LogTypeOK
  <2>2. ReadersPassChecks
    BY <2>1 DEF CheckInv, LogIInv, ReaderInv, SearchInv, ReadersPassChecks
  <2>3. QED BY <2>1, <2>2 DEF LogIsConsistent
<1>4. QED BY <1>1, <1>2, <1>3, PTL DEF LogSpec
============================================================================
