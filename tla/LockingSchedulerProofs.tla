----------------------- MODULE LockingSchedulerProofs -----------------------
(***************************************************************************)
(* LockingScheduler executes the log deterministically and publishes safe  *)
(* snapshots, for any number of keys and versions, any limits, and any     *)
(* footprints that name no key twice in a writeset.                        *)
(***************************************************************************)
EXTENDS LockingScheduler, FiniteSetTheorems, WellFoundedInduction, TLAPS

NoRepeats == \A f \in Footprint : f.repeated = {}

\* In active_actions_: accepted, and its locks not released yet.
Live(v) == stage[v] \notin {"none", "done"}

Began == {"executing", "completed", "done"}

LogMatchesStage ==
  \A v \in Version : /\ log[v] = NoFootprint <=> stage[v] = "none"
                     /\ stage[v] # "none" => v <= highWaterMark

ActiveIsLive == active = {v \in Version : Live(v)}

\* Each queue holds the requests of the live actions that touch its key, in
\* version order, EXCLUSIVE for the writers.
QueueMatchesLog(k) ==
  /\ \A v \in Version : Requested(lockTable[k], v) <=> Live(v) /\ k \in Touched(log[v])
  /\ \A i \in DOMAIN lockTable[k] :
       lockTable[k][i].mode = EXCLUSIVE <=> k \in log[lockTable[k][i].action].writeset
  /\ \A i, j \in DOMAIN lockTable[k] :
       i < j => lockTable[k][i].action < lockTable[k][j].action

QueuesMatchLog == \A k \in Key : QueueMatchesLog(k)

ReadyWaitsForNothing == \A v \in ready : waiting[v] = 0

StoreMatchesStage ==
  \A v \in Version, k \in Key :
    /\ v \in stored[k] => stage[v] \in Began /\ k \in log[v].writeset
    /\ stage[v] \in {"completed", "done"} /\ k \in log[v].writeset => v \in stored[k]

SafeBelowLive ==
  /\ safeVersion <= highWaterMark + 1
  /\ \A v \in Version : Live(v) => safeVersion <= v

IInv ==
  /\ TypeOK
  /\ LogMatchesStage
  /\ ActiveIsLive
  /\ QueuesMatchLog
  /\ WaitingCountsPending
  /\ ReadyWaitsForNothing
  /\ StoreMatchesStage
  /\ SafeBelowLive
  /\ ReadsAreSerial

----------------------------------------------------------------------------
(***************************************************************************)
(* The scheduler's lock table is one of LockManager, with the versions for *)
(* its actions: what LockManagerProofs says of one queue holds here.  The  *)
(* lemmas cited are about queues and mention no variable, so the history   *)
(* variables of LockManager, which the scheduler does not keep, may stand  *)
(* for anything.                                                           *)
(***************************************************************************)
LM == INSTANCE LockManagerProofs
        WITH Action <- Version, NoAction <- 0,
             called <- {}, granted <- {}, current <- 0, cancelled <- {}

LEMMA TableAssumption == LM!LockManagerAssumption
<1>1. LM!IsFiniteSet(Key) /\ 0 \notin Version
  BY LockingSchedulerAssumption DEF LM!IsFiniteSet, IsFiniteSet, Version
<1>2. QED BY <1>1 DEF LM!LockManagerAssumption

\* Both modules take the operators on queues from LockTable.
LEMMA TableOperators ==
  /\ \A A : LM!LockRequest(A) = LockRequest(A)
  /\ LM!LockMode = LockMode
  /\ \A q : LM!Distinct(q) = Distinct(q) /\ LM!Owners(q) = Owners(q)
  /\ \A q, a : LM!Requested(q, a) = Requested(q, a) /\ LM!Target(q, a) = Target(q, a)
  /\ \A q, t : LM!Erase(q, t) = Erase(q, t) /\ LM!NewOwners(q, t) = NewOwners(q, t)
  /\ \A q, m : LM!GrantedOnPush(q, m) = GrantedOnPush(q, m)
BY DEF LM!LockRequest, LM!LockMode, LM!SHARED, LM!EXCLUSIVE, LM!Distinct, LM!Requested,
       LM!Target, LM!Erase, LM!NewOwners, LM!SharedRun, LM!Owners, LM!Holds,
       LM!GrantedOnPush, LM!WriteRequestsPrecede,
       LockRequest, LockMode, SHARED, EXCLUSIVE, Distinct, Requested, Target, Erase,
       NewOwners, SharedRun, Owners, Holds, GrantedOnPush, WriteRequestsPrecede

\* Erasing a request keeps the others, in their order.
LEMMA EraseOrder ==
  ASSUME NEW A, NEW q \in Seq(LockRequest(A)), NEW t \in DOMAIN q
  PROVE  /\ \A i \in DOMAIN Erase(q, t) : \E k \in DOMAIN q : Erase(q, t)[i] = q[k]
         /\ \A i, j \in DOMAIN Erase(q, t) : i < j =>
              \E k, l \in DOMAIN q : k < l /\ Erase(q, t)[i] = q[k] /\ Erase(q, t)[j] = q[l]
<1> DEFINE At(i) == IF i < t THEN i ELSE i + 1
<1>1. Len(q) \in Nat /\ DOMAIN q = 1 .. Len(q) /\ t \in 1 .. Len(q)
  OBVIOUS
<1>2. /\ DOMAIN Erase(q, t) = 1 .. (Len(q) - 1)
      /\ \A i \in 1 .. (Len(q) - 1) : Erase(q, t)[i] = q[At(i)]
  BY <1>1 DEF Erase
<1>3. /\ \A i \in 1 .. (Len(q) - 1) : At(i) \in 1 .. Len(q)
      /\ \A i, j \in 1 .. (Len(q) - 1) : i < j => At(i) < At(j)
  BY <1>1
<1> HIDE DEF At
<1>4. QED BY <1>1, <1>2, <1>3

----------------------------------------------------------------------------
(***************************************************************************)
(* Extrema of sets of naturals.                                            *)
(***************************************************************************)
LEMMA NatSetHasLeast ==
  ASSUME NEW S \in SUBSET Nat, S # {}
  PROVE  \E v \in S : \A w \in S : v <= w
<1> DEFINE R == OpToRel(<, Nat)
<1>1. IsWellFoundedOn(R, Nat)
  BY NatLessThanWellFounded
<1>2. \A x, y \in Nat : <<y, x>> \in R <=> y < x
  BY DEF OpToRel
<1> HIDE DEF R
<1>3. PICK x \in S : \A y \in S : ~ (<<y, x>> \in R)
  BY <1>1, WFMin
<1>4. ASSUME NEW w \in S PROVE x <= w
  <2>1. x \in Nat /\ w \in Nat
    OBVIOUS
  <2>2. ~ (w < x)
    BY <1>2, <1>3, <2>1
  <2>3. QED BY <2>1, <2>2
<1>5. QED BY <1>4

LEMMA VersionSetHasGreatest ==
  ASSUME NEW S \in SUBSET Version, S # {}
  PROVE  \E v \in S : \A w \in S : w <= v
<1> DEFINE T == {MaxVersion - v : v \in S}
<1>1. MaxVersion \in Nat /\ \A v \in S : v \in 1 .. MaxVersion
  BY LockingSchedulerAssumption DEF Version
<1>2. T \in SUBSET Nat /\ T # {}
  BY <1>1
<1>3. PICK x \in T : \A y \in T : x <= y
  BY <1>2, NatSetHasLeast
<1>4. PICK v \in S : x = MaxVersion - v
  BY <1>3
<1>5. ASSUME NEW w \in S PROVE w <= v
  <2>1. MaxVersion - v <= MaxVersion - w
    BY <1>3, <1>4
  <2>2. v \in 1 .. MaxVersion /\ w \in 1 .. MaxVersion
    BY <1>1
  <2>3. QED BY <2>1, <2>2, <1>1
<1>6. QED BY <1>5

LEMMA NewestType ==
  ASSUME NEW S \in SUBSET Version
  PROVE  Newest(S) \in 0 .. MaxVersion
<1>1. MaxVersion \in Nat /\ S \subseteq 1 .. MaxVersion
  BY LockingSchedulerAssumption DEF Version
<1>2. CASE S = {}
  BY <1>1, <1>2 DEF Newest
<1>3. CASE S # {}
  <2> DEFINE greatest == CHOOSE v \in S : \A w \in S : w <= v
  <2>1. greatest \in S
    BY <1>3, VersionSetHasGreatest
  <2> HIDE DEF greatest
  <2>2. greatest \in 0 .. MaxVersion
    BY <1>1, <2>1
  <2>3. QED BY <1>3, <2>2 DEF greatest, Newest
<1>4. QED BY <1>2, <1>3

----------------------------------------------------------------------------
(***************************************************************************)
(* Facts about reachable states.                                           *)
(***************************************************************************)
LEMMA FootprintFields ==
  ASSUME NEW f \in Footprint
  PROVE  /\ f.readset \subseteq Key /\ f.writeset \subseteq Key
         /\ f.repeated \subseteq Key
         /\ f # NoFootprint
BY LockingSchedulerAssumption DEF FootprintRecord

LEMMA LoggedFootprint ==
  ASSUME IInv, NEW v \in Version, stage[v] # "none"
  PROVE  log[v] \in Footprint
BY DEF IInv, TypeOK, LogMatchesStage

LEMMA QueuesAreDistinct ==
  ASSUME IInv, NEW k \in Key
  PROVE  /\ lockTable[k] \in Seq(LockRequest(Version))
         /\ Distinct(lockTable[k])
<1>1. lockTable[k] \in Seq(LockRequest(Version))
  BY DEF IInv, TypeOK
<1>2. /\ Len(lockTable[k]) \in Nat /\ DOMAIN lockTable[k] = 1 .. Len(lockTable[k])
      /\ \A i \in DOMAIN lockTable[k] : lockTable[k][i].action \in Version
  <2>1. \A i \in DOMAIN lockTable[k] : lockTable[k][i] \in LockRequest(Version)
    BY <1>1
  <2>2. QED BY <1>1, <2>1 DEF LockRequest
<1>3. \A i, j \in DOMAIN lockTable[k] :
        i < j => lockTable[k][i].action < lockTable[k][j].action
  BY DEF IInv, QueuesMatchLog, QueueMatchesLog
<1>4. ASSUME NEW i \in DOMAIN lockTable[k], NEW j \in DOMAIN lockTable[k],
             lockTable[k][i].action = lockTable[k][j].action
      PROVE  i = j
  <2>1. lockTable[k][i].action \in Nat
    BY <1>2, LockingSchedulerAssumption DEF Version
  <2>2. i \in Nat /\ j \in Nat
    BY <1>2
  <2>3. ~ (i < j) /\ ~ (j < i)
    BY <1>3, <1>4, <2>1
  <2>4. QED BY <2>2, <2>3
<1>5. QED BY <1>1, <1>4 DEF Distinct

LEMMA PendingIsFinite ==
  ASSUME NEW v
  PROVE  IsFiniteSet(PendingKeys(v)) /\ Cardinality(PendingKeys(v)) \in Nat
<1>1. PendingKeys(v) \subseteq Key
  BY DEF PendingKeys
<1>2. QED BY <1>1, LockingSchedulerAssumption, FS_Subset, FS_CardinalityType

\* An action that waits for nothing owns every lock it has requested.
LEMMA WaitsForNothing ==
  ASSUME IInv, NEW v \in Version, waiting[v] = 0
  PROVE  PendingKeys(v) = {}
<1>1. Cardinality(PendingKeys(v)) = 0
  BY DEF IInv, WaitingCountsPending
<1>2. QED BY <1>1, PendingIsFinite, FS_EmptySet

\* The heart of the matter: a running action has no live predecessor that it
\* conflicts with on any key.
LEMMA RunningExcludesPredecessors ==
  ASSUME IInv, NEW v \in Version, NEW w \in Version, NEW k \in Key,
         Live(v), stage[v] # "blocked", Live(w), w < v,
         k \in Touched(log[v]), k \in Touched(log[w])
  PROVE  k \notin log[v].writeset /\ k \notin log[w].writeset
<1> DEFINE q == lockTable[k]
<1>1. q \in Seq(LockRequest(Version)) /\ QueueMatchesLog(k)
  BY QueuesAreDistinct DEF IInv, QueuesMatchLog
<1>2. waiting[v] = 0
  BY DEF IInv, WaitingCountsPending, TypeOK
<1>3. v \in Owners(q)
  <2>1. Requested(q, v)
    BY <1>1 DEF QueueMatchesLog
  <2>2. QED BY <1>2, <2>1, WaitsForNothing DEF PendingKeys
<1>4. PICK i \in DOMAIN q : q[i].action = v /\ Holds(q, i)
  BY <1>3 DEF Owners
<1>5. PICK j \in DOMAIN q : q[j].action = w
  BY <1>1 DEF QueueMatchesLog, Requested
<1>6. /\ i \in Nat /\ j \in Nat /\ j >= 1
      /\ v \in Nat /\ w \in Nat
  BY <1>1, LockingSchedulerAssumption DEF Version
<1>7. j < i
  <2>1. ~ (i < j) /\ i # j
    BY <1>1, <1>4, <1>5, <1>6 DEF QueueMatchesLog
  <2>2. QED BY <1>6, <2>1
<1>8. q[i].mode = SHARED /\ q[j].mode = SHARED
  BY <1>4, <1>6, <1>7 DEF Holds
<1>9. QED
  BY <1>1, <1>4, <1>5, <1>8 DEF QueueMatchesLog, SHARED, EXCLUSIVE

----------------------------------------------------------------------------
LEMMA InitInv == Init => IInv
<1> SUFFICES ASSUME Init PROVE IInv
  OBVIOUS
<1> USE LockingSchedulerAssumption DEF Init, Live
<1>1. TypeOK
  BY DEF TypeOK, Stage, Version
<1>2. LogMatchesStage /\ ActiveIsLive /\ ReadyWaitsForNothing
  BY DEF LogMatchesStage, ActiveIsLive, ReadyWaitsForNothing
<1>3. QueuesMatchLog
  BY DEF QueuesMatchLog, QueueMatchesLog, Requested
<1>4. WaitingCountsPending
  <2>1. \A v \in Version : PendingKeys(v) = {}
    BY DEF PendingKeys, Requested
  <2>2. Cardinality({}) = 0
    BY FS_EmptySet
  <2>3. \A v \in Version : waiting[v] = 0 /\ stage[v] = "none" /\ v \notin ready
    OBVIOUS
  <2>4. ASSUME NEW v \in Version
        PROVE  /\ waiting[v] = Cardinality(PendingKeys(v))
               /\ stage[v] = "blocked" <=> (waiting[v] > 0 \/ v \in ready)
    <3>1. waiting[v] = 0 /\ stage[v] = "none" /\ v \notin ready
      BY <2>3
    <3> HIDE DEF Init
    <3>2. waiting[v] = Cardinality(PendingKeys(v))
      BY <3>1, <2>1, <2>2
    <3>3. ~ (waiting[v] > 0) /\ stage[v] # "blocked"
      BY <3>1
    <3>4. QED BY <3>1, <3>2, <3>3
  <2>5. QED BY <2>4 DEF WaitingCountsPending
<1>5. StoreMatchesStage /\ SafeBelowLive
  BY DEF StoreMatchesStage, SafeBelowLive, Began, Version
<1>6. ReadsAreSerial
  BY DEF ReadsAreSerial
<1>7. QED BY <1>1, <1>2, <1>3, <1>4, <1>5, <1>6 DEF IInv
----------------------------------------------------------------------------
(***************************************************************************)
(* Accept.                                                                 *)
(***************************************************************************)
\* A newly accepted version is above everything the state knows.
LEMMA AcceptIsFresh ==
  ASSUME IInv, NEW v \in Version, v > highWaterMark
  PROVE  /\ stage[v] = "none" /\ ~ Live(v) /\ v \notin ready
         /\ \A k \in Key : ~ Requested(lockTable[k], v) /\ v \notin stored[k]
         /\ \A w \in Version : stage[w] # "none" => w < v
<1>1. v \in Nat /\ highWaterMark \in Nat /\ \A w \in Version : w \in Nat
  BY LockingSchedulerAssumption DEF IInv, TypeOK, Version
<1>2. \A w \in Version : stage[w] # "none" => w <= highWaterMark
  BY DEF IInv, LogMatchesStage
<1>3. \A w \in Version : stage[w] # "none" => w < v
  BY <1>1, <1>2
<1>4. stage[v] = "none" /\ ~ Live(v)
  BY <1>1, <1>3 DEF Live
<1>5. v \notin ready
  BY <1>4 DEF IInv, WaitingCountsPending
<1>6. \A k \in Key : ~ Requested(lockTable[k], v)
  BY <1>4 DEF IInv, QueuesMatchLog, QueueMatchesLog
<1>7. \A k \in Key : v \notin stored[k]
  BY <1>4 DEF IInv, StoreMatchesStage, Began
<1>8. QED BY <1>3, <1>4, <1>5, <1>6, <1>7

\* What happens to one queue: a request of v at its end, or nothing.
LEMMA AcceptQueue ==
  ASSUME NoRepeats, IInv, NEW v \in Version, NEW f \in Footprint, Accept(v, f),
         NEW k \in Key
  PROVE  /\ lockTable'[k] \in Seq(LockRequest(Version))
         /\ k \notin Touched(f) => lockTable'[k] = lockTable[k]
         /\ k \in Touched(f) =>
              LET m == IF k \in f.writeset THEN EXCLUSIVE ELSE SHARED
              IN  /\ lockTable'[k] = Append(lockTable[k], [action |-> v, mode |-> m])
                  /\ \A w : Requested(lockTable'[k], w) <=> Requested(lockTable[k], w) \/ w = v
                  /\ v \notin Owners(lockTable[k])
                  /\ Owners(lockTable'[k]) =
                       IF GrantedOnPush(lockTable[k], m) THEN Owners(lockTable[k]) \cup {v}
                                                         ELSE Owners(lockTable[k])
<1> DEFINE q == lockTable[k]
           m == IF k \in f.writeset THEN EXCLUSIVE ELSE SHARED
<1>1. q \in Seq(LockRequest(Version)) /\ Distinct(q) /\ ~ Requested(q, v)
  BY QueuesAreDistinct, AcceptIsFresh DEF Accept
<1>2. lockTable'[k] = q \o Requests(v, f, k) /\ f.repeated = {}
  BY DEF Accept, NoRepeats
<1>3. CASE k \notin Touched(f)
  <2>1. Requests(v, f, k) = << >>
    BY <1>2, <1>3 DEF Requests, Touched
  <2>2. lockTable'[k] = q
    BY <1>1, <1>2, <2>1
  <2>3. QED BY <1>1, <1>3, <2>2
<1>4. CASE k \in Touched(f)
  <2>1. Requests(v, f, k) = << [action |-> v, mode |-> m] >>
    BY <1>2, <1>4 DEF Requests, Touched, Write, Read
  <2>2. m \in LockMode
    BY DEF LockMode
  <2>3. [action |-> v, mode |-> m] \in LockRequest(Version)
    BY <2>2 DEF LockRequest
  <2> HIDE DEF q, m
  <2>4. lockTable'[k] = Append(q, [action |-> v, mode |-> m])
    BY <1>1, <1>2, <2>1, <2>3
  <2>5. /\ lockTable'[k] \in Seq(LockRequest(Version))
        /\ \A w : Requested(lockTable'[k], w) <=> Requested(q, w) \/ w = v
        /\ v \notin Owners(q)
        /\ Owners(lockTable'[k]) = IF GrantedOnPush(q, m) THEN Owners(q) \cup {v}
                                                         ELSE Owners(q)
    <3> DEFINE q2 == Append(q, [action |-> v, mode |-> m])
    <3>1. /\ q2 \in Seq(LockRequest(Version))
          /\ \A w : Requested(q2, w) <=> Requested(q, w) \/ w = v
          /\ v \notin Owners(q)
          /\ Owners(q2) = IF GrantedOnPush(q, m) THEN Owners(q) \cup {v} ELSE Owners(q)
      <4>1. /\ q \in Seq(LM!LockRequest(Version)) /\ m \in LM!LockMode
            /\ LM!Distinct(q) /\ ~ LM!Requested(q, v)
        BY <1>1, <2>2, TableOperators
      <4>2. /\ q2 \in Seq(LM!LockRequest(Version))
            /\ \A w : LM!Requested(q2, w) <=> LM!Requested(q, w) \/ w = v
            /\ v \notin LM!Owners(q)
            /\ LM!Owners(q2) = IF LM!GrantedOnPush(q, m) THEN LM!Owners(q) \cup {v}
                                                       ELSE LM!Owners(q)
        BY <4>1, LM!PushOwners, TableAssumption
      <4>3. QED BY <4>2, TableOperators
    <3> HIDE DEF q2
    <3>2. lockTable'[k] = q2
      BY <2>4 DEF q2
    <3>3. QED BY <3>1, <3>2
  <2>6. QED BY <1>4, <2>4, <2>5 DEF q, m
<1>5. QED BY <1>3, <1>4

LEMMA AcceptInv ==
  ASSUME NoRepeats, IInv, NEW v \in Version, NEW f \in Footprint, Accept(v, f)
  PROVE  IInv'
<1> USE DEF Live
<1>1. /\ stage[v] = "none" /\ ~ Live(v) /\ v \notin ready
      /\ \A k \in Key : ~ Requested(lockTable[k], v) /\ v \notin stored[k]
      /\ \A w \in Version : stage[w] # "none" => w < v
  BY AcceptIsFresh DEF Accept
<1>2. /\ v \in Nat /\ v >= 1 /\ v <= MaxVersion /\ MaxVersion \in Nat
      /\ highWaterMark \in Nat /\ highWaterMark < v /\ safeVersion \in Nat
      /\ \A w \in Version : w \in Nat
  BY LockingSchedulerAssumption DEF IInv, TypeOK, Version, Accept
<1>3. /\ log' \in [Version -> Footprint \cup {NoFootprint}]
      /\ log'[v] = f /\ \A w \in Version \ {v} : log'[w] = log[w]
  BY DEF Accept, IInv, TypeOK
<1>4. /\ stage' \in [Version -> Stage]
      /\ stage'[v] \in {"dispatched", "blocked"}
      /\ \A w \in Version \ {v} : stage'[w] = stage[w]
      /\ stage'[v] = "blocked" <=> UngrantedRequests(f) # 0
  BY DEF Accept, IInv, TypeOK, Stage
<1>5. IsFiniteSet(UngrantedWrites(f) \cup UngrantedReads(f))
  <2>1. UngrantedWrites(f) \cup UngrantedReads(f) \subseteq Key
    BY FootprintFields DEF UngrantedWrites, UngrantedReads
  <2>2. QED BY <2>1, FS_Subset, LockingSchedulerAssumption
<1>6. /\ UngrantedRequests(f) = Cardinality(UngrantedWrites(f) \cup UngrantedReads(f))
      /\ UngrantedRequests(f) \in Nat
  <2>1. Cardinality(UngrantedWrites(f) \cup UngrantedReads(f)) \in Nat
    BY <1>5, FS_CardinalityType
  <2>2. Cardinality(f.repeated) = 0
    BY FS_EmptySet DEF NoRepeats
  <2>3. QED BY <2>1, <2>2 DEF UngrantedRequests
<1>7. /\ waiting' \in [Version -> Nat]
      /\ waiting'[v] = UngrantedRequests(f)
      /\ \A w \in Version \ {v} : waiting'[w] = waiting[w]
  BY <1>6 DEF Accept, IInv, TypeOK
<1>8. TypeOK'
  <2>1. lockTable' \in [Key -> Seq(LockRequest(Version))]
    <3>1. \A k \in Key : lockTable'[k] \in Seq(LockRequest(Version))
      BY AcceptQueue
    <3>2. QED BY <3>1 DEF Accept
  <2>2. highWaterMark' \in 0 .. MaxVersion /\ runningActionCount' \in Int
    BY <1>2 DEF Accept, IInv, TypeOK
  <2>3. /\ phase' \in {"request", "release", "start"}
        /\ active' \in SUBSET Version
        /\ ready' \in SUBSET Version
        /\ safeVersion' \in 1 .. (MaxVersion + 1)
        /\ stored' \in [Key -> SUBSET Version]
        /\ seen' \in [Version -> [Key -> 0 .. MaxVersion]]
        /\ woken' \in SUBSET Version
    BY DEF Accept, IInv, TypeOK, storeVars
  <2>4. QED BY <1>3, <1>4, <1>7, <2>1, <2>2, <2>3 DEF TypeOK
<1>9. LogMatchesStage'
  <2>1. f # NoFootprint
    BY FootprintFields
  <2>2. highWaterMark' = v
    BY DEF Accept
  <2>3. QED BY <1>1, <1>2, <1>3, <1>4, <2>1, <2>2 DEF LogMatchesStage, IInv
<1>10. ActiveIsLive'
  BY <1>1, <1>4 DEF ActiveIsLive, IInv, Accept
<1>11. QueuesMatchLog'
  <2> SUFFICES ASSUME NEW k \in Key PROVE QueueMatchesLog(k)'
    BY DEF QueuesMatchLog
  <2>1. /\ QueueMatchesLog(k)
        /\ lockTable[k] \in Seq(LockRequest(Version))
    BY QueuesAreDistinct DEF IInv, QueuesMatchLog
  <2>2. \A i \in DOMAIN lockTable[k] :
          /\ lockTable[k][i].action \in Version
          /\ lockTable[k][i].action < v
          /\ lockTable[k][i].action # v
    <3>1. TAKE i \in DOMAIN lockTable[k]
    <3>2. lockTable[k][i] \in LockRequest(Version)
      BY <2>1
    <3>3. lockTable[k][i].action \in Version
      BY <3>2 DEF LockRequest
    <3>4. Requested(lockTable[k], lockTable[k][i].action)
      BY DEF Requested
    <3>5. stage[lockTable[k][i].action] # "none"
      BY <2>1, <3>3, <3>4 DEF QueueMatchesLog
    <3>6. QED BY <1>1, <3>3, <3>5
  <2>3. CASE k \notin Touched(f)
    <3>1. lockTable'[k] = lockTable[k]
      BY <2>3, AcceptQueue
    <3>2. \A w \in Version : Requested(lockTable'[k], w) <=> Live(w)' /\ k \in Touched(log'[w])
      BY <1>1, <1>3, <1>4, <2>1, <2>3, <3>1 DEF QueueMatchesLog
    <3>3. \A i \in DOMAIN lockTable[k] :
            lockTable[k][i].mode = EXCLUSIVE <=> k \in log'[lockTable[k][i].action].writeset
      BY <1>3, <2>1, <2>2 DEF QueueMatchesLog
    <3>4. QED BY <2>1, <3>1, <3>2, <3>3 DEF QueueMatchesLog
  <2>4. CASE k \in Touched(f)
    <3> DEFINE q == lockTable[k]
               m == IF k \in f.writeset THEN EXCLUSIVE ELSE SHARED
               n == Len(q) + 1
    <3>1. /\ lockTable'[k] = Append(q, [action |-> v, mode |-> m])
          /\ \A w : Requested(lockTable'[k], w) <=> Requested(q, w) \/ w = v
      BY <2>4, AcceptQueue
    <3>2. m = EXCLUSIVE <=> k \in f.writeset
      BY DEF EXCLUSIVE, SHARED
    <3> HIDE DEF m
    <3>3. /\ Len(q) \in Nat /\ DOMAIN q = 1 .. Len(q)
          /\ DOMAIN lockTable'[k] = 1 .. n
          /\ \A i \in 1 .. Len(q) : lockTable'[k][i] = q[i]
          /\ lockTable'[k][n] = [action |-> v, mode |-> m]
      BY <2>1, <3>1
    <3>4. \A w \in Version : Requested(lockTable'[k], w) <=> Live(w)' /\ k \in Touched(log'[w])
      BY <1>1, <1>3, <1>4, <2>1, <2>4, <3>1 DEF QueueMatchesLog
    <3>5. \A i \in 1 .. n :
            lockTable'[k][i].mode = EXCLUSIVE <=> k \in log'[lockTable'[k][i].action].writeset
      <4>1. TAKE i \in 1 .. n
      <4>2. CASE i = n
        BY <1>3, <3>2, <3>3, <4>2
      <4>3. CASE i # n
        <5>1. i \in 1 .. Len(q)
          BY <3>3, <4>3
        <5>2. QED BY <1>3, <2>1, <2>2, <3>3, <5>1 DEF QueueMatchesLog
      <4>4. QED BY <4>2, <4>3
    <3>6. \A i, j \in 1 .. n : i < j => lockTable'[k][i].action < lockTable'[k][j].action
      <4>1. TAKE i, j \in 1 .. n
      <4>2. HAVE i < j
      <4>3. i \in 1 .. Len(q) /\ (j \in 1 .. Len(q) \/ j = n)
        BY <3>3, <4>2
      <4>4. CASE j = n
        BY <2>2, <3>3, <4>3, <4>4
      <4>5. CASE j \in 1 .. Len(q)
        BY <2>1, <3>3, <4>2, <4>3, <4>5 DEF QueueMatchesLog
      <4>6. QED BY <4>3, <4>4, <4>5
    <3>7. QED BY <3>3, <3>4, <3>5, <3>6 DEF QueueMatchesLog
  <2>5. QED BY <2>3, <2>4
<1>12. \A w \in Version : waiting'[w] = Cardinality(PendingKeys(w)')
  <2>1. ASSUME NEW w \in Version, w # v
        PROVE  PendingKeys(w)' = PendingKeys(w)
    <3>1. \A k \in Key : /\ Requested(lockTable'[k], w) <=> Requested(lockTable[k], w)
                         /\ w \in Owners(lockTable'[k]) <=> w \in Owners(lockTable[k])
      <4>1. TAKE k \in Key
      <4>2. CASE k \in Touched(f)
        <5> DEFINE m == IF k \in f.writeset THEN EXCLUSIVE ELSE SHARED
        <5>1. /\ Requested(lockTable'[k], w) <=> Requested(lockTable[k], w) \/ w = v
              /\ Owners(lockTable'[k]) =
                   IF GrantedOnPush(lockTable[k], m) THEN Owners(lockTable[k]) \cup {v}
                                                     ELSE Owners(lockTable[k])
          BY <4>2, AcceptQueue
        <5> HIDE DEF m
        <5>2. QED BY <2>1, <5>1
      <4>3. CASE k \notin Touched(f)
        BY <4>3, AcceptQueue
      <4>4. QED BY <4>2, <4>3
    <3>2. QED BY <3>1 DEF PendingKeys
  <2>2. PendingKeys(v)' = UngrantedWrites(f) \cup UngrantedReads(f)
    <3>1. ASSUME NEW k \in Key
          PROVE  Requested(lockTable'[k], v) /\ v \notin Owners(lockTable'[k])
                   <=> k \in UngrantedWrites(f) \cup UngrantedReads(f)
      <4> DEFINE m == IF k \in f.writeset THEN EXCLUSIVE ELSE SHARED
      <4>1. CASE k \in Touched(f)
        <5>1. /\ Requested(lockTable'[k], v)
              /\ v \notin Owners(lockTable[k])
              /\ Owners(lockTable'[k]) =
                   IF GrantedOnPush(lockTable[k], m) THEN Owners(lockTable[k]) \cup {v}
                                                     ELSE Owners(lockTable[k])
          BY <4>1, AcceptQueue
        <5>2. k \in UngrantedWrites(f) \cup UngrantedReads(f)
                <=> ~ GrantedOnPush(lockTable[k], m)
          BY <4>1 DEF UngrantedWrites, UngrantedReads, Touched
        <5> HIDE DEF m
        <5>3. QED BY <5>1, <5>2
      <4>3. CASE k \notin Touched(f)
        BY <1>1, <4>3, AcceptQueue DEF UngrantedWrites, UngrantedReads, Touched
      <4>4. QED BY <4>1, <4>3
    <3>2. UngrantedWrites(f) \cup UngrantedReads(f) \subseteq Key
      BY FootprintFields DEF UngrantedWrites, UngrantedReads
    <3>3. QED BY <3>1, <3>2 DEF PendingKeys
  <2>3. \A w \in Version : waiting[w] = Cardinality(PendingKeys(w))
    BY DEF IInv, WaitingCountsPending
  <2>4. ASSUME NEW w \in Version
        PROVE  waiting'[w] = Cardinality(PendingKeys(w)')
    <3>1. CASE w = v
      BY <1>6, <1>7, <2>2, <3>1
    <3>2. CASE w # v
      BY <1>7, <2>1, <2>3, <3>2
    <3>3. QED BY <3>1, <3>2
  <2>5. QED BY <2>4
<1>13. WaitingCountsPending'
  <2>1. ready' = ready
    BY DEF Accept
  <2>2. ASSUME NEW w \in Version
        PROVE  stage'[w] = "blocked" <=> (waiting'[w] > 0 \/ w \in ready')
    <3>1. CASE w = v
      BY <1>1, <1>4, <1>6, <1>7, <2>1, <3>1
    <3>2. CASE w # v
      BY <1>4, <1>7, <2>1, <3>2 DEF IInv, WaitingCountsPending
    <3>3. QED BY <3>1, <3>2
  <2>3. QED BY <1>12, <2>2 DEF WaitingCountsPending
<1>14. ReadyWaitsForNothing'
  BY <1>1, <1>7 DEF ReadyWaitsForNothing, IInv, TypeOK, Accept
<1>15. StoreMatchesStage'
  <2>1. stored' = stored
    BY DEF Accept, storeVars
  <2>2. QED BY <1>1, <1>3, <1>4, <2>1 DEF StoreMatchesStage, Began, IInv
<1>16. SafeBelowLive'
  <2>1. safeVersion' = safeVersion /\ highWaterMark' = v
    BY DEF Accept
  <2>2. safeVersion <= v
    BY <1>2 DEF IInv, SafeBelowLive
  <2>3. QED BY <1>2, <1>4, <2>1, <2>2 DEF SafeBelowLive, IInv
<1>17. ReadsAreSerial'
  <2>1. seen' = seen
    BY DEF Accept, storeVars
  <2>2. ASSUME NEW w \in Version, stage'[w] \in Began, NEW k \in log'[w].readset
        PROVE  seen'[w][k] = LastWriterBefore(k, w)'
    <3>1. w # v /\ stage[w] \in Began /\ k \in log[w].readset /\ w < v
      BY <1>1, <1>3, <1>4, <2>2 DEF Began
    <3>2. {u \in Accepted : u < w /\ k \in log[u].writeset}
            = {u \in Accepted' : u < w /\ k \in log'[u].writeset}
      <4>1. \A u \in Version : u < w => u # v
        BY <1>2, <3>1
      <4>2. QED BY <1>1, <1>3, <1>4, <4>1 DEF Accepted
    <3>3. seen[w][k] = LastWriterBefore(k, w)
      BY <3>1 DEF IInv, ReadsAreSerial, Began
    <3>4. LastWriterBefore(k, w)' = LastWriterBefore(k, w)
      BY <3>2 DEF LastWriterBefore
    <3>5. QED BY <2>1, <3>3, <3>4
  <2>3. QED BY <2>2 DEF ReadsAreSerial, Began
<1>18. QED
  BY <1>8, <1>9, <1>10, <1>11, <1>13, <1>14, <1>15, <1>16, <1>17 DEF IInv
----------------------------------------------------------------------------
(***************************************************************************)
(* The workers, and the scheduler's steps that only move phase.            *)
(***************************************************************************)
\* A step that touches no lock and changes nobody's liveness.
LEMMA LocksUndisturbed ==
  ASSUME IInv, UNCHANGED <<log, lockVars, countVars>>,
         \A w \in Version : /\ stage'[w] = "none" <=> stage[w] = "none"
                            /\ stage'[w] = "blocked" <=> stage[w] = "blocked"
                            /\ stage'[w] = "done" <=> stage[w] = "done"
  PROVE  /\ LogMatchesStage' /\ ActiveIsLive' /\ QueuesMatchLog'
         /\ WaitingCountsPending' /\ ReadyWaitsForNothing' /\ SafeBelowLive'
         /\ Accepted' = Accepted
<1> USE DEF lockVars, countVars
<1>1. \A w \in Version : Live(w)' <=> Live(w)
  BY DEF Live
<1>2. LogMatchesStage' /\ SafeBelowLive' /\ ActiveIsLive' /\ ReadyWaitsForNothing'
  BY <1>1 DEF IInv, LogMatchesStage, SafeBelowLive, ActiveIsLive, ReadyWaitsForNothing
<1>3. QueuesMatchLog'
  BY <1>1 DEF IInv, QueuesMatchLog, QueueMatchesLog
<1>4. WaitingCountsPending'
  <2>1. \A w \in Version : PendingKeys(w)' = PendingKeys(w)
    BY DEF PendingKeys
  <2>2. QED BY <2>1 DEF IInv, WaitingCountsPending
<1>5. Accepted' = Accepted
  BY DEF Accepted
<1>6. QED BY <1>2, <1>3, <1>4, <1>5

\* The reads of an action that has begun stay right as long as the log does.
LEMMA ReadsUndisturbed ==
  ASSUME IInv, UNCHANGED log, Accepted' = Accepted, NEW w \in Version,
         stage[w] \in Began, seen'[w] = seen[w], NEW k \in log[w].readset
  PROVE  seen'[w][k] = LastWriterBefore(k, w)'
<1>1. seen[w][k] = LastWriterBefore(k, w)
  BY DEF IInv, ReadsAreSerial, Began
<1>2. LastWriterBefore(k, w)' = LastWriterBefore(k, w)
  BY DEF LastWriterBefore
<1>3. QED BY <1>1, <1>2

\* The store as a reader of version v sees it, while v runs: the writes of all
\* earlier writers, none of which is still running.
LEMMA NewestIsLastWriter ==
  ASSUME IInv, NEW v \in Version, stage[v] = "dispatched", NEW k \in log[v].readset
  PROVE  NewestBefore(k, v) = LastWriterBefore(k, v)
<1>1. k \in Key /\ k \in Touched(log[v])
  BY LoggedFootprint, FootprintFields DEF Touched
<1>2. ASSUME NEW w \in stored[k], w < v
      PROVE  w \in Accepted /\ k \in log[w].writeset
  <2>1. w \in Version
    BY <1>1 DEF IInv, TypeOK
  <2>2. QED BY <1>1, <2>1 DEF IInv, StoreMatchesStage, Began, Accepted
<1>3. ASSUME NEW w \in Accepted, w < v, k \in log[w].writeset
      PROVE  w \in stored[k]
  <2>1. w \in Version /\ stage[w] # "none" /\ k \in Touched(log[w])
    BY <1>3 DEF Accepted, Touched
  <2>2. ~ Live(w)
    BY <1>1, <1>3, <2>1, RunningExcludesPredecessors DEF Live
  <2>3. stage[w] = "done"
    BY <2>1, <2>2 DEF Live
  <2>4. QED BY <1>1, <1>3, <2>1, <2>3 DEF IInv, StoreMatchesStage
<1>4. {w \in stored[k] : w < v} = {w \in Accepted : w < v /\ k \in log[w].writeset}
  BY <1>2, <1>3
<1>5. QED BY <1>4 DEF NewestBefore, LastWriterBefore

LEMMA ExecuteInv ==
  ASSUME IInv, NEW v \in Version, Execute(v)
  PROVE  IInv'
<1>1. /\ stage[v] = "dispatched" /\ stage'[v] = "executing"
      /\ \A w \in Version \ {v} : stage'[w] = stage[w] /\ seen'[w] = seen[w]
      /\ stage' \in [Version -> Stage]
      /\ UNCHANGED <<phase, log, lockVars, countVars, stored, woken>>
  BY DEF Execute, IInv, TypeOK, Stage
<1>2. /\ LogMatchesStage' /\ ActiveIsLive' /\ QueuesMatchLog'
      /\ WaitingCountsPending' /\ ReadyWaitsForNothing' /\ SafeBelowLive'
      /\ Accepted' = Accepted
  BY <1>1, LocksUndisturbed
<1>3. seen'[v] = [k \in Key |-> IF k \in log[v].readset THEN NewestBefore(k, v) ELSE 0]
  BY DEF Execute, IInv, TypeOK
<1>4. TypeOK'
  <2>1. \A k \in Key : NewestBefore(k, v) \in 0 .. MaxVersion
    <3>1. \A k \in Key : {w \in stored[k] : w < v} \in SUBSET Version
      BY DEF IInv, TypeOK
    <3>2. QED BY <3>1, NewestType DEF NewestBefore
  <2>2. 0 \in 0 .. MaxVersion
    BY LockingSchedulerAssumption
  <2>3. seen'[v] \in [Key -> 0 .. MaxVersion]
    BY <1>3, <2>1, <2>2
  <2>4. seen' \in [Version -> [Key -> 0 .. MaxVersion]]
    BY <2>3 DEF Execute, IInv, TypeOK
  <2>5. QED BY <1>1, <2>4 DEF IInv, TypeOK, lockVars, countVars
<1>5. StoreMatchesStage'
  BY <1>1 DEF IInv, StoreMatchesStage, Began
<1>6. ReadsAreSerial'
  <2>1. ASSUME NEW w \in Version, stage'[w] \in Began, NEW k \in log'[w].readset
        PROVE  seen'[w][k] = LastWriterBefore(k, w)'
    <3>1. CASE w = v
      <4>1. k \in Key /\ k \in log[v].readset
        BY <1>1, <2>1, <3>1, LoggedFootprint, FootprintFields
      <4>2. seen'[v][k] = LastWriterBefore(k, v)
        BY <1>1, <1>3, <4>1, NewestIsLastWriter
      <4>3. LastWriterBefore(k, v)' = LastWriterBefore(k, v)
        BY <1>1, <1>2 DEF LastWriterBefore
      <4>4. QED BY <3>1, <4>2, <4>3
    <3>2. CASE w # v
      BY <1>1, <1>2, <2>1, <3>2, ReadsUndisturbed
    <3>3. QED BY <3>1, <3>2
  <2>2. QED BY <2>1 DEF ReadsAreSerial, Began
<1>7. QED BY <1>2, <1>4, <1>5, <1>6 DEF IInv

LEMMA InstallInv ==
  ASSUME IInv, NEW v \in Version, NEW k \in Key, Install(v, k)
  PROVE  IInv'
<1>1. /\ stage[v] = "executing" /\ k \in log[v].writeset
      /\ stored' = [stored EXCEPT ![k] = @ \cup {v}]
      /\ UNCHANGED <<phase, log, lockVars, countVars, stage, seen, woken>>
  BY DEF Install
<1>2. /\ LogMatchesStage' /\ ActiveIsLive' /\ QueuesMatchLog'
      /\ WaitingCountsPending' /\ ReadyWaitsForNothing' /\ SafeBelowLive'
      /\ Accepted' = Accepted
  BY <1>1, LocksUndisturbed
<1>3. TypeOK'
  BY <1>1 DEF IInv, TypeOK, lockVars, countVars
<1>4. StoreMatchesStage'
  <2>1. \A l \in Key : stored'[l] = IF l = k THEN stored[k] \cup {v} ELSE stored[l]
    BY <1>1 DEF IInv, TypeOK
  <2>2. QED BY <1>1, <2>1 DEF IInv, StoreMatchesStage, Began
<1>5. ReadsAreSerial'
  BY <1>1, <1>2, ReadsUndisturbed DEF ReadsAreSerial, Began
<1>6. QED BY <1>2, <1>3, <1>4, <1>5 DEF IInv

LEMMA PushCompletedInv ==
  ASSUME IInv, NEW v \in Version, PushCompleted(v)
  PROVE  IInv'
<1>1. /\ stage[v] = "executing" /\ stage'[v] = "completed" /\ Installed(v)
      /\ \A w \in Version \ {v} : stage'[w] = stage[w]
      /\ stage' \in [Version -> Stage]
      /\ UNCHANGED <<phase, log, lockVars, countVars, stored, seen, woken>>
  BY DEF PushCompleted, IInv, TypeOK, Stage, storeVars
<1>2. /\ LogMatchesStage' /\ ActiveIsLive' /\ QueuesMatchLog'
      /\ WaitingCountsPending' /\ ReadyWaitsForNothing' /\ SafeBelowLive'
      /\ Accepted' = Accepted
  BY <1>1, LocksUndisturbed
<1>3. TypeOK'
  BY <1>1 DEF IInv, TypeOK, lockVars, countVars
<1>4. StoreMatchesStage'
  BY <1>1 DEF IInv, StoreMatchesStage, Began, Installed
<1>5. ReadsAreSerial'
  <2>1. \A w \in Version : stage'[w] \in Began => stage[w] \in Began
    BY <1>1 DEF Began
  <2>2. QED BY <1>1, <1>2, <2>1, ReadsUndisturbed DEF ReadsAreSerial, Began
<1>6. QED BY <1>2, <1>3, <1>4, <1>5 DEF IInv

LEMMA PhaseInv ==
  ASSUME IInv, UNCHANGED <<log, lockVars, countVars, stage, storeVars, woken>>,
         phase' \in {"request", "release", "start"}
  PROVE  IInv'
<1>1. /\ LogMatchesStage' /\ ActiveIsLive' /\ QueuesMatchLog'
      /\ WaitingCountsPending' /\ ReadyWaitsForNothing' /\ SafeBelowLive'
      /\ Accepted' = Accepted
  BY LocksUndisturbed
<1>2. TypeOK' /\ StoreMatchesStage'
  BY DEF IInv, TypeOK, StoreMatchesStage, lockVars, countVars, storeVars
<1>3. ReadsAreSerial'
  BY <1>1, ReadsUndisturbed DEF ReadsAreSerial, Began, storeVars
<1>4. QED BY <1>1, <1>2, <1>3 DEF IInv

LEMMA StartReadyInv ==
  ASSUME IInv, NEW v \in Version, StartReady(v)
  PROVE  IInv'
<1>1. /\ v \in ready /\ ready' = ready \ {v}
      /\ stage'[v] = "dispatched"
      /\ \A w \in Version \ {v} : stage'[w] = stage[w]
      /\ stage' \in [Version -> Stage]
      /\ woken' = woken \cup {v}
      /\ UNCHANGED <<phase, log, lockTable, waiting, countVars, storeVars>>
  BY DEF StartReady, IInv, TypeOK, Stage
<1>2. waiting[v] = 0 /\ stage[v] = "blocked"
  BY <1>1 DEF IInv, ReadyWaitsForNothing, WaitingCountsPending
<1>3. \A w \in Version : Live(w)' <=> Live(w)
  BY <1>1, <1>2 DEF Live
<1>4. TypeOK'
  BY <1>1 DEF IInv, TypeOK, countVars, storeVars
<1>5. LogMatchesStage' /\ SafeBelowLive' /\ ActiveIsLive' /\ ReadyWaitsForNothing'
  BY <1>1, <1>2, <1>3
     DEF IInv, LogMatchesStage, SafeBelowLive, ActiveIsLive, ReadyWaitsForNothing, countVars
<1>6. QueuesMatchLog'
  BY <1>1, <1>3 DEF IInv, QueuesMatchLog, QueueMatchesLog
<1>7. WaitingCountsPending'
  <2>1. \A w \in Version : PendingKeys(w)' = PendingKeys(w)
    BY <1>1 DEF PendingKeys
  <2>2. \A w \in Version : waiting'[w] = Cardinality(PendingKeys(w)')
    BY <1>1, <2>1 DEF IInv, WaitingCountsPending
  <2>3. \A w \in Version : stage'[w] = "blocked" <=> (waiting'[w] > 0 \/ w \in ready')
    BY <1>1, <1>2 DEF IInv, WaitingCountsPending
  <2>4. QED BY <2>2, <2>3 DEF WaitingCountsPending
<1>8. StoreMatchesStage'
  BY <1>1, <1>2 DEF IInv, StoreMatchesStage, Began, storeVars
<1>9. ReadsAreSerial'
  <2>1. Accepted' = Accepted /\ \A w \in Version : stage'[w] \in Began => stage[w] \in Began
    BY <1>1, <1>2 DEF Began, Accepted
  <2>2. QED BY <1>1, <2>1, ReadsUndisturbed DEF ReadsAreSerial, Began, storeVars
<1>10. QED BY <1>4, <1>5, <1>6, <1>7, <1>8, <1>9 DEF IInv
----------------------------------------------------------------------------
(***************************************************************************)
(* ReleaseCompleted.                                                       *)
(***************************************************************************)
\* What happens to one queue: v leaves it, and its heirs become owners.
LEMMA ReleaseQueue ==
  ASSUME IInv, NEW v \in Version, ReleaseCompleted(v), NEW k \in Key
  PROVE  /\ lockTable'[k] \in Seq(LockRequest(Version))
         /\ \A w : Requested(lockTable'[k], w) <=> Requested(lockTable[k], w) /\ w # v
         /\ \A w \in Heirs(v, k) : /\ Requested(lockTable[k], w) /\ w # v
                                   /\ w \notin Owners(lockTable[k])
         /\ Owners(lockTable'[k]) = (Owners(lockTable[k]) \ {v}) \cup Heirs(v, k)
         /\ \A i \in DOMAIN lockTable'[k] :
              \E m \in DOMAIN lockTable[k] : lockTable'[k][i] = lockTable[k][m]
         /\ \A i, j \in DOMAIN lockTable'[k] : i < j =>
              \E m, n \in DOMAIN lockTable[k] :
                m < n /\ lockTable'[k][i] = lockTable[k][m] /\ lockTable'[k][j] = lockTable[k][n]
<1> DEFINE q == lockTable[k]
<1>1. q \in Seq(LockRequest(Version)) /\ Distinct(q)
  BY QueuesAreDistinct
<1>2. Requested(q, v) <=> k \in Touched(log[v])
  <2>1. Live(v)
    BY DEF ReleaseCompleted, Live
  <2>2. QED BY <2>1 DEF IInv, QueuesMatchLog, QueueMatchesLog
<1>3. lockTable'[k] = IF Requested(q, v) THEN Erase(q, Target(q, v)) ELSE q
  BY <1>2 DEF ReleaseCompleted
<1>4. CASE ~ Requested(q, v)
  <2>1. lockTable'[k] = q /\ Heirs(v, k) = {}
    BY <1>3, <1>4 DEF Heirs
  <2>2. v \notin Owners(q)
    BY <1>1, <1>4, LM!OwnersAreRequested, TableAssumption, TableOperators
  <2> HIDE DEF q
  <2>3. \A i \in DOMAIN q : \E m \in DOMAIN q : q[i] = q[m]
    OBVIOUS
  <2>4. \A i, j \in DOMAIN q : i < j => \E m, n \in DOMAIN q : m < n /\ q[i] = q[m] /\ q[j] = q[n]
    OBVIOUS
  <2>5. \A w : Requested(q, w) <=> Requested(q, w) /\ w # v
    BY <1>4
  <2>6. Owners(q) = (Owners(q) \ {v}) \cup Heirs(v, k)
    BY <2>1, <2>2
  <2>7. QED BY <1>1, <2>1, <2>3, <2>4, <2>5, <2>6 DEF q
<1>5. CASE Requested(q, v)
  <2> DEFINE t == Target(q, v)
  <2>1. t \in DOMAIN q /\ q[t].action = v
    BY <1>1, <1>5, LM!TargetOfRequest, TableAssumption, TableOperators
  <2>2. lockTable'[k] = Erase(q, t) /\ Heirs(v, k) = NewOwners(q, t)
    BY <1>3, <1>5 DEF Heirs
  <2> HIDE DEF q, t
  <2>3. /\ Erase(q, t) \in Seq(LockRequest(Version))
        /\ \A b : Requested(Erase(q, t), b) <=> Requested(q, b) /\ b # v
        /\ \A b \in NewOwners(q, t) : Requested(q, b) /\ b # v /\ b \notin Owners(q)
        /\ Owners(Erase(q, t)) = (Owners(q) \ {v}) \cup NewOwners(q, t)
    BY <1>1, <2>1, LM!EraseOwners, TableAssumption, TableOperators
  <2>4. /\ \A i \in DOMAIN Erase(q, t) : \E m \in DOMAIN q : Erase(q, t)[i] = q[m]
        /\ \A i, j \in DOMAIN Erase(q, t) : i < j =>
             \E m, n \in DOMAIN q : m < n /\ Erase(q, t)[i] = q[m] /\ Erase(q, t)[j] = q[n]
    BY <1>1, <2>1, EraseOrder
  <2>5. QED BY <2>2, <2>3, <2>4 DEF q
<1>6. QED BY <1>4, <1>5

\* The wait counters after the release, and what they count.
LEMMA ReleaseCounts ==
  ASSUME IInv, NEW v \in Version, ReleaseCompleted(v), NEW w \in Version
  PROVE  /\ waiting'[w] = Cardinality(PendingKeys(w)')
         /\ waiting'[w] \in Nat /\ waiting[w] \in Nat /\ waiting'[w] <= waiting[w]
<1> DEFINE J == {k \in Touched(log[v]) : w \in Heirs(v, k)}
           P == PendingKeys(w)
<1>1. Touched(log[v]) \subseteq Key
  <2>1. stage[v] # "none"
    BY DEF ReleaseCompleted
  <2>2. QED BY <2>1, LoggedFootprint, FootprintFields DEF Touched
<1>2. J \subseteq P
  BY <1>1, ReleaseQueue DEF PendingKeys
<1>3. PendingKeys(w)' = P \ J
  <2>1. ASSUME NEW k \in Key
        PROVE  Requested(lockTable'[k], w) /\ w \notin Owners(lockTable'[k])
                 <=> k \in P \ J
    <3>1. /\ Requested(lockTable'[k], w) <=> Requested(lockTable[k], w) /\ w # v
          /\ Owners(lockTable'[k]) = (Owners(lockTable[k]) \ {v}) \cup Heirs(v, k)
      BY ReleaseQueue
    <3>2. w = v => k \notin P
      <4>1. waiting[v] = 0
        BY DEF ReleaseCompleted, IInv, TypeOK, WaitingCountsPending
      <4>2. QED BY <4>1, WaitsForNothing
    <3>3. k \in P <=> Requested(lockTable[k], w) /\ w \notin Owners(lockTable[k])
      BY DEF PendingKeys
    <3>4. w \in Heirs(v, k) => k \in Touched(log[v])
      <4>1. k \notin Touched(log[v]) => ~ Requested(lockTable[k], v)
        BY DEF IInv, QueuesMatchLog, QueueMatchesLog
      <4>2. QED BY <4>1 DEF Heirs
    <3>5. k \in J <=> w \in Heirs(v, k)
      BY <3>4
    <3> HIDE DEF P, J
    <3>6. QED BY <3>1, <3>2, <3>3, <3>5
  <2>2. P \ J \subseteq Key
    BY DEF PendingKeys
  <2> HIDE DEF P, J
  <2>3. QED BY <2>1, <2>2 DEF PendingKeys
<1>4. IsFiniteSet(P) /\ Cardinality(P) \in Nat /\ waiting[w] = Cardinality(P)
  BY PendingIsFinite DEF IInv, WaitingCountsPending
<1>5. waiting'[w] = waiting[w] - Cardinality(J)
  BY DEF ReleaseCompleted, WaitingAfter
<1> HIDE DEF P, J
<1>6. IsFiniteSet(J) /\ Cardinality(J) \in Nat /\ Cardinality(J) <= Cardinality(P)
  BY <1>2, <1>4, FS_Subset, FS_CardinalityType
<1>7. P \cap J = J
  BY <1>2
<1>8. Cardinality(P \ J) = Cardinality(P) - Cardinality(J)
  <2>1. Cardinality(P \ J) = Cardinality(P) - Cardinality(P \cap J)
    BY <1>4, FS_Difference
  <2>2. QED BY <1>7, <2>1
<1>9. Cardinality(PendingKeys(w)') = Cardinality(P) - Cardinality(J)
  BY <1>3, <1>8
<1>10. waiting'[w] = Cardinality(PendingKeys(w)')
  BY <1>4, <1>5, <1>9
<1>11. waiting'[w] \in Nat /\ waiting[w] \in Nat /\ waiting'[w] <= waiting[w]
  BY <1>4, <1>5, <1>6
<1>12. QED BY <1>10, <1>11

LEMMA ReleaseInv ==
  ASSUME IInv, NEW v \in Version, ReleaseCompleted(v)
  PROVE  IInv'
<1>1. /\ stage[v] = "completed" /\ stage'[v] = "done"
      /\ \A w \in Version \ {v} : stage'[w] = stage[w]
      /\ stage' \in [Version -> Stage]
      /\ active' = active \ {v}
      /\ runningActionCount' = runningActionCount - 1
      /\ safeVersion' = IF active' = {} THEN highWaterMark + 1 ELSE LeastOf(active')
      /\ ready' = ready \cup {w \in Version : waiting[w] > 0 /\ waiting'[w] = 0}
      /\ UNCHANGED <<phase, log, highWaterMark, storeVars, woken>>
  BY DEF ReleaseCompleted, Retire, IInv, TypeOK, Stage
<1>2. \A w \in Version : Live(w)' <=> Live(w) /\ w # v
  BY <1>1 DEF Live
<1>3. \A w \in Version : /\ waiting'[w] = Cardinality(PendingKeys(w)')
                         /\ waiting'[w] \in Nat /\ waiting[w] \in Nat
                         /\ waiting'[w] <= waiting[w]
  BY ReleaseCounts
<1>4. ActiveIsLive'
  BY <1>1, <1>2 DEF ActiveIsLive, IInv
<1>5. LogMatchesStage'
  BY <1>1 DEF LogMatchesStage, IInv
<1>6. /\ safeVersion' <= highWaterMark + 1
      /\ safeVersion' \in 1 .. (MaxVersion + 1)
      /\ \A w \in active' : safeVersion' <= w
  <2>1. /\ highWaterMark \in 0 .. MaxVersion /\ MaxVersion \in Nat
        /\ active' \subseteq 1 .. MaxVersion
        /\ \A w \in active' : w <= highWaterMark
    BY <1>1, <1>2, <1>4, LockingSchedulerAssumption
       DEF IInv, TypeOK, LogMatchesStage, ActiveIsLive, Live, Version
  <2>2. CASE active' = {}
    BY <1>1, <2>1, <2>2
  <2>3. CASE active' # {}
    <3> DEFINE least == LeastOf(active')
    <3>1. active' \in SUBSET Nat
      BY <2>1
    <3>2. least \in active' /\ \A w \in active' : least <= w
      BY <2>3, <3>1, NatSetHasLeast DEF LeastOf
    <3> HIDE DEF least
    <3>3. safeVersion' = least
      BY <1>1, <2>3 DEF least
    <3>4. least \in 1 .. MaxVersion /\ least <= highWaterMark
      BY <2>1, <3>2
    <3>5. QED BY <2>1, <3>2, <3>3, <3>4
  <2>4. QED BY <2>2, <2>3
<1>7. TypeOK'
  <2>1. lockTable' \in [Key -> Seq(LockRequest(Version))]
    <3>1. \A k \in Key : lockTable'[k] \in Seq(LockRequest(Version))
      BY ReleaseQueue
    <3>2. QED BY <3>1 DEF ReleaseCompleted
  <2>2. waiting' \in [Version -> Nat]
    BY <1>3 DEF ReleaseCompleted, WaitingAfter
  <2>3. runningActionCount' \in Int /\ active' \in SUBSET Version /\ ready' \in SUBSET Version
    BY <1>1 DEF IInv, TypeOK
  <2>4. QED BY <1>1, <1>6, <2>1, <2>2, <2>3 DEF IInv, TypeOK, storeVars
<1>8. QueuesMatchLog'
  <2> SUFFICES ASSUME NEW k \in Key PROVE QueueMatchesLog(k)'
    BY DEF QueuesMatchLog
  <2>1. QueueMatchesLog(k)
    BY DEF IInv, QueuesMatchLog
  <2>2. \A w \in Version : Requested(lockTable'[k], w) <=> Live(w)' /\ k \in Touched(log'[w])
    BY <1>1, <1>2, <2>1, ReleaseQueue DEF QueueMatchesLog
  <2>3. \A i \in DOMAIN lockTable'[k] :
          lockTable'[k][i].mode = EXCLUSIVE <=> k \in log'[lockTable'[k][i].action].writeset
    <3>1. TAKE i \in DOMAIN lockTable'[k]
    <3>2. PICK m \in DOMAIN lockTable[k] : lockTable'[k][i] = lockTable[k][m]
      BY ReleaseQueue
    <3>3. QED BY <1>1, <2>1, <3>2 DEF QueueMatchesLog
  <2>4. \A i, j \in DOMAIN lockTable'[k] :
          i < j => lockTable'[k][i].action < lockTable'[k][j].action
    <3>1. TAKE i, j \in DOMAIN lockTable'[k]
    <3>2. HAVE i < j
    <3>3. PICK m, n \in DOMAIN lockTable[k] :
            m < n /\ lockTable'[k][i] = lockTable[k][m] /\ lockTable'[k][j] = lockTable[k][n]
      BY <3>2, ReleaseQueue
    <3>4. QED BY <2>1, <3>3 DEF QueueMatchesLog
  <2>5. QED BY <2>2, <2>3, <2>4 DEF QueueMatchesLog
<1>9. WaitingCountsPending'
  <2>1. ASSUME NEW w \in Version
        PROVE  stage'[w] = "blocked" <=> (waiting'[w] > 0 \/ w \in ready')
    <3>1. stage[w] = "blocked" <=> (waiting[w] > 0 \/ w \in ready)
      BY DEF IInv, WaitingCountsPending
    <3>2. stage'[w] = "blocked" <=> stage[w] = "blocked"
      BY <1>1
    <3>3. w \in ready => waiting[w] = 0
      BY DEF IInv, ReadyWaitsForNothing
    <3>4. QED BY <1>1, <1>3, <3>1, <3>2, <3>3
  <2>2. QED BY <1>3, <2>1 DEF WaitingCountsPending
<1>10. ReadyWaitsForNothing'
  <2>1. ASSUME NEW w \in ready' PROVE waiting'[w] = 0
    <3>1. CASE w \in ready
      <4>1. w \in Version /\ waiting[w] = 0
        BY <3>1 DEF IInv, ReadyWaitsForNothing, TypeOK
      <4>2. QED BY <1>3, <4>1
    <3>2. CASE w \notin ready
      BY <1>1, <2>1, <3>2
    <3>3. QED BY <3>1, <3>2
  <2>2. QED BY <2>1 DEF ReadyWaitsForNothing
<1>11. StoreMatchesStage'
  BY <1>1 DEF StoreMatchesStage, Began, IInv, storeVars
<1>12. SafeBelowLive'
  BY <1>1, <1>4, <1>6 DEF SafeBelowLive, ActiveIsLive
<1>13. ReadsAreSerial'
  <2>1. Accepted' = Accepted /\ \A w \in Version : stage'[w] \in Began => stage[w] \in Began
    BY <1>1 DEF Began, Accepted
  <2>2. QED BY <1>1, <2>1, ReadsUndisturbed DEF ReadsAreSerial, Began, storeVars
<1>14. QED
  BY <1>4, <1>5, <1>7, <1>8, <1>9, <1>10, <1>11, <1>12, <1>13 DEF IInv
----------------------------------------------------------------------------
LEMMA NextInv ==
  ASSUME NoRepeats, IInv, [Next]_vars
  PROVE  IInv'
<1>1. ASSUME NEW v \in Version, NEW f \in Footprint, Accept(v, f) PROVE IInv'
  BY <1>1, AcceptInv
<1>2. CASE AcceptNothing \/ NothingCompleted \/ NothingReady
  BY <1>2, PhaseInv DEF AcceptNothing, NothingCompleted, NothingReady
<1>3. ASSUME NEW v \in Version, ReleaseCompleted(v) \/ StartReady(v) PROVE IInv'
  BY <1>3, ReleaseInv, StartReadyInv
<1>4. ASSUME NEW v \in Version, Worker(v) PROVE IInv'
  BY <1>4, ExecuteInv, InstallInv, PushCompletedInv DEF Worker
<1>5. CASE UNCHANGED vars
  <2>1. phase' \in {"request", "release", "start"}
    BY <1>5 DEF vars, IInv, TypeOK
  <2>2. QED BY <1>5, <2>1, PhaseInv DEF vars
<1>6. QED BY <1>1, <1>2, <1>3, <1>4, <1>5 DEF Next, SchedulerStep

THEOREM Invariance == ASSUME NoRepeats PROVE Spec => []IInv
<1>1. Init => IInv
  BY InitInv
<1>2. IInv /\ [Next]_vars => IInv'
  BY NextInv
<1>3. QED BY <1>1, <1>2, PTL DEF Spec

\* The types, of all variables, for any bounds.
THEOREM TypeCorrect == ASSUME NoRepeats PROVE Spec => []TypeOK
<1>1. IInv => TypeOK
  BY DEF IInv
<1>2. QED BY <1>1, Invariance, PTL

\* The wait counters of LockManager stay exact under the scheduler's calls, so
\* no blocked action is forgotten.
THEOREM WakeupsExact == ASSUME NoRepeats PROVE Spec => []WaitingCountsPending
<1>1. IInv => WaitingCountsPending
  BY DEF IInv
<1>2. QED BY <1>1, Invariance, PTL

\* Concurrent workers read what a serial execution of the log would read.
THEOREM Serializable == ASSUME NoRepeats PROVE Spec => []ReadsAreSerial
<1>1. IInv => ReadsAreSerial
  BY DEF IInv
<1>2. QED BY <1>1, Invariance, PTL

\* SafeVersion() only ever passes versions whose writes are in the store.
THEOREM SafeVersionCorrect == ASSUME NoRepeats PROVE Spec => []SafeVersionIsSafe
<1>1. IInv => SafeVersionIsSafe
  <2> SUFFICES ASSUME IInv PROVE SafeVersionIsSafe
    OBVIOUS
  <2>1. ASSUME NEW v \in Accepted, v < safeVersion PROVE Committed(v)
    <3>1. v \in Version /\ stage[v] # "none"
      BY DEF Accepted
    <3>2. ~ Live(v)
      <4>1. v \in Nat /\ safeVersion \in Nat
        BY <3>1, LockingSchedulerAssumption DEF IInv, TypeOK, Version
      <4>2. QED BY <2>1, <3>1, <4>1 DEF IInv, SafeBelowLive
    <3>3. stage[v] = "done"
      BY <3>1, <3>2 DEF Live
    <3>4. log[v].writeset \subseteq Key
      BY <3>1, LoggedFootprint, FootprintFields
    <3>5. QED BY <3>1, <3>3, <3>4 DEF Committed, Installed, IInv, StoreMatchesStage
  <2>2. QED BY <2>1 DEF SafeVersionIsSafe, IInv, SafeBelowLive
<1>2. QED BY <1>1, Invariance, PTL

\* What a reader sees at a version that was ever safe never changes.
THEOREM SnapshotsCorrect == ASSUME NoRepeats PROVE Spec => SnapshotsAreStable
<1> DEFINE Stable == /\ safeVersion' >= safeVersion
                     /\ \A k \in Key, s \in 1 .. safeVersion :
                          NewestBefore(k, s)' = NewestBefore(k, s)
<1>1. ASSUME IInv, [Next]_vars PROVE Stable \/ UNCHANGED vars
  <2> USE <1>1
  <2>1. /\ safeVersion \in 1 .. (MaxVersion + 1) /\ safeVersion \in Nat
        /\ highWaterMark \in Nat /\ safeVersion <= highWaterMark + 1
        /\ \A w \in Version : Live(w) => safeVersion <= w
        /\ \A w \in Version : w \in Nat
        /\ active = {w \in Version : Live(w)}
    BY LockingSchedulerAssumption
       DEF IInv, TypeOK, SafeBelowLive, ActiveIsLive, Version
  <2>2. ASSUME safeVersion' = safeVersion, stored' = stored PROVE Stable
    BY <2>1, <2>2 DEF NewestBefore
  <2>3. ASSUME NEW v \in Version, NEW k \in Key, Install(v, k) PROVE Stable
    <3>1. safeVersion <= v
      BY <2>1, <2>3 DEF Install, Live
    <3>2. safeVersion' = safeVersion
      BY <2>3 DEF Install, countVars
    <3>3. ASSUME NEW l \in Key, NEW s \in 1 .. safeVersion
          PROVE  {w \in stored'[l] : w < s} = {w \in stored[l] : w < s}
      <4>1. ~ (v < s)
        BY <2>1, <3>1
      <4>2. stored'[l] = stored[l] \/ stored'[l] = stored[l] \cup {v}
        BY <2>3 DEF Install, IInv, TypeOK
      <4>3. QED BY <4>1, <4>2
    <3>4. ASSUME NEW l \in Key, NEW s \in 1 .. safeVersion
          PROVE  NewestBefore(l, s)' = NewestBefore(l, s)
      <4>1. {w \in stored'[l] : w < s} = {w \in stored[l] : w < s}
        BY <3>3
      <4>2. QED BY <4>1 DEF NewestBefore
    <3>5. QED BY <2>1, <3>2, <3>4
  <2>4. ASSUME NEW v \in Version, ReleaseCompleted(v) PROVE Stable
    <3>1. /\ active' = active \ {v} /\ stored' = stored
          /\ safeVersion' = IF active' = {} THEN highWaterMark + 1 ELSE LeastOf(active')
      BY <2>4 DEF ReleaseCompleted, Retire, storeVars
    <3>2. safeVersion' >= safeVersion
      <4>1. CASE active' = {}
        BY <2>1, <3>1, <4>1
      <4>2. CASE active' # {}
        <5>1. active' \in SUBSET Nat
          BY <2>1, <3>1
        <5>2. LeastOf(active') \in active'
          BY <4>2, <5>1, NatSetHasLeast DEF LeastOf
        <5>3. safeVersion' \in active'
          BY <3>1, <4>2, <5>2
        <5>4. QED BY <2>1, <3>1, <5>3
      <4>3. QED BY <4>1, <4>2
    <3>3. QED BY <3>1, <3>2 DEF NewestBefore
  <2>5. ASSUME NEW v \in Version, NEW f \in Footprint, Accept(v, f) PROVE Stable
    BY <2>2, <2>5 DEF Accept, storeVars
  <2>6. CASE AcceptNothing \/ NothingCompleted \/ NothingReady
    BY <2>2, <2>6 DEF AcceptNothing, NothingCompleted, NothingReady, countVars, storeVars
  <2>7. ASSUME NEW v \in Version, StartReady(v) \/ Execute(v) \/ PushCompleted(v) PROVE Stable
    BY <2>2, <2>7 DEF StartReady, Execute, PushCompleted, countVars, storeVars
  <2>8. QED
    BY <2>3, <2>4, <2>5, <2>6, <2>7 DEF Next, SchedulerStep, Worker
<1>2. IInv /\ [Next]_vars => [Stable]_vars
  BY <1>1
<1>3. QED BY <1>2, Invariance, PTL DEF Spec, SnapshotsAreStable

\* running_action_count_ is short of the actions that run by exactly the number
\* of actions that were ever started from ready_, for any log and any limits.
THEOREM RunningCountExact == ASSUME NoRepeats PROVE Spec => []RunningCountDrifts
<1>1. Init => RunningCountDrifts
  <2> SUFFICES ASSUME Init PROVE RunningCountDrifts
    OBVIOUS
  <2>1. Running = {} /\ woken = {} /\ runningActionCount = 0
    BY DEF Init, Running
  <2>2. QED BY <2>1, FS_EmptySet DEF RunningCountDrifts
<1>2. ASSUME IInv, RunningCountDrifts, [Next]_vars PROVE RunningCountDrifts'
  <2> USE <1>2
  <2>1. /\ IsFiniteSet(Running) /\ Cardinality(Running) \in Nat
        /\ IsFiniteSet(woken) /\ Cardinality(woken) \in Nat
        /\ runningActionCount = Cardinality(Running) - Cardinality(woken)
        /\ \A w \in woken : w \in Version /\ (w \in Running \/ stage[w] = "done")
    <3>1. IsFiniteSet(Version)
      BY FS_Interval, LockingSchedulerAssumption DEF Version
    <3>2. Running \subseteq Version /\ woken \subseteq Version
      BY DEF Running, IInv, TypeOK
    <3>3. QED BY <3>1, <3>2, FS_Subset, FS_CardinalityType DEF RunningCountDrifts
  <2>2. ASSUME runningActionCount' = runningActionCount, woken' = woken, Running' = Running,
               \A w \in Version : stage[w] = "done" => stage'[w] = "done"
        PROVE  RunningCountDrifts'
    BY <2>1, <2>2 DEF RunningCountDrifts
  <2>3. ASSUME NEW v \in Version, NEW f \in Footprint, Accept(v, f)
        PROVE  RunningCountDrifts'
    <3>1. stage[v] = "none"
      BY <2>3, AcceptIsFresh DEF Accept
    <3>2. woken' = woken /\ \A w \in Version \ {v} : stage'[w] = stage[w]
      BY <2>3 DEF Accept, IInv, TypeOK
    <3>3. CASE stage'[v] = "blocked" /\ runningActionCount' = runningActionCount
      <4>1. Running' = Running
        BY <3>1, <3>2, <3>3 DEF Running
      <4>2. QED BY <2>2, <3>1, <3>2, <3>3, <4>1
    <3>4. CASE stage'[v] = "dispatched" /\ runningActionCount' = runningActionCount + 1
      <4>1. Running' = Running \cup {v} /\ v \notin Running
        BY <3>1, <3>2, <3>4 DEF Running
      <4>2. Cardinality(Running') = Cardinality(Running) + 1
        BY <2>1, <4>1, FS_AddElement
      <4>3. runningActionCount' = Cardinality(Running') - Cardinality(woken')
        BY <2>1, <3>2, <3>4, <4>2
      <4>4. \A w \in woken' : w \in Running' \/ stage'[w] = "done"
        BY <2>1, <3>1, <3>2, <4>1
      <4>5. QED BY <4>3, <4>4 DEF RunningCountDrifts
    <3>5. QED BY <2>3, <3>3, <3>4 DEF Accept, IInv, TypeOK
  <2>4. ASSUME NEW v \in Version, ReleaseCompleted(v)
        PROVE  RunningCountDrifts'
    <3>1. /\ stage[v] = "completed" /\ stage'[v] = "done" /\ woken' = woken
          /\ runningActionCount' = runningActionCount - 1
          /\ \A w \in Version \ {v} : stage'[w] = stage[w]
      BY <2>4 DEF ReleaseCompleted, Retire, IInv, TypeOK
    <3>2. Running' = Running \ {v} /\ v \in Running
      BY <3>1 DEF Running
    <3>3. Cardinality(Running') = Cardinality(Running) - 1
      BY <2>1, <3>2, FS_RemoveElement
    <3>4. runningActionCount' = Cardinality(Running') - Cardinality(woken')
      BY <2>1, <3>1, <3>3
    <3>5. \A w \in woken' : w \in Running' \/ stage'[w] = "done"
      BY <2>1, <3>1, <3>2
    <3>6. QED BY <3>4, <3>5 DEF RunningCountDrifts
  <2>5. ASSUME NEW v \in Version, StartReady(v)
        PROVE  RunningCountDrifts'
    <3>1. /\ stage[v] = "blocked" /\ stage'[v] = "dispatched" /\ woken' = woken \cup {v}
          /\ runningActionCount' = runningActionCount
          /\ \A w \in Version \ {v} : stage'[w] = stage[w]
      BY <2>5 DEF StartReady, IInv, TypeOK, ReadyWaitsForNothing, WaitingCountsPending, countVars
    <3>2. Running' = Running \cup {v} /\ v \notin Running /\ v \notin woken
      BY <2>1, <3>1 DEF Running
    <3>3. /\ Cardinality(Running') = Cardinality(Running) + 1
          /\ Cardinality(woken') = Cardinality(woken) + 1
      BY <2>1, <3>1, <3>2, FS_AddElement
    <3>4. runningActionCount' = Cardinality(Running') - Cardinality(woken')
      BY <2>1, <3>1, <3>3
    <3>5. \A w \in woken' : w \in Running' \/ stage'[w] = "done"
      BY <2>1, <3>1, <3>2
    <3>6. QED BY <3>4, <3>5 DEF RunningCountDrifts
  <2>6. CASE AcceptNothing \/ NothingCompleted \/ NothingReady \/ UNCHANGED vars
    BY <2>2, <2>6 DEF AcceptNothing, NothingCompleted, NothingReady, vars, countVars, Running
  <2>7. ASSUME NEW v \in Version, Execute(v) \/ PushCompleted(v)
        PROVE  RunningCountDrifts'
    <3>1. /\ stage[v] \in {"dispatched", "executing"} /\ stage'[v] \in {"executing", "completed"}
          /\ runningActionCount' = runningActionCount /\ woken' = woken
          /\ \A w \in Version \ {v} : stage'[w] = stage[w]
      BY <2>7 DEF Execute, PushCompleted, countVars, IInv, TypeOK
    <3>2. Running' = Running
      BY <3>1 DEF Running
    <3>3. QED BY <2>2, <3>1, <3>2
  <2>8. ASSUME NEW v \in Version, NEW k \in Key, Install(v, k)
        PROVE  RunningCountDrifts'
    BY <2>2, <2>8 DEF Install, countVars, Running
  <2>9. QED
    BY <2>3, <2>4, <2>5, <2>6, <2>7, <2>8 DEF Next, SchedulerStep, Worker
<1>3. IInv /\ RunningCountDrifts /\ [Next]_vars => RunningCountDrifts'
  BY <1>2
<1>4. QED BY <1>1, <1>3, Invariance, PTL DEF Spec

\* Types and counters together, as the runs check them.
THEOREM ConsistentAlways == ASSUME NoRepeats PROVE Spec => []Consistent
<1>1. TypeOK /\ WaitingCountsPending /\ RunningCountDrifts => Consistent
  BY DEF Consistent
<1>2. QED BY <1>1, TypeCorrect, WakeupsExact, RunningCountExact, PTL

----------------------------------------------------------------------------
\* The locking scheduler implements deterministic execution of the log: it
\* begins no action before all earlier actions it conflicts with are done.
THEOREM Implements == ASSUME NoRepeats PROVE Spec => ExecutesDeterministically
<1> DEFINE begun == {v \in Version : stage[v] \in {"executing", "completed", "done"}}
           committed == {v \in Version : stage[v] \in {"completed", "done"}}
<1> USE DEF Promise!absVars
<1>1. Init => Promise!AbsInit
  BY DEF Init, Promise!AbsInit
<1>2. ASSUME NoRepeats, IInv, [Next]_vars
      PROVE  Promise!AbsNext \/ UNCHANGED Promise!absVars
  <2> USE <1>2
  <2>1. ASSUME NEW v \in Version, NEW f \in Footprint, Accept(v, f)
        PROVE  Promise!AbsAccept(v, f)
    <3>1. stage[v] = "none" /\ \A w \in Version : stage[w] # "none" => w < v
      BY <2>1, AcceptIsFresh DEF Accept
    <3>2. \A w \in Promise!Accepted : w < v
      BY <3>1 DEF Promise!Accepted, IInv, LogMatchesStage
    <3>3. begun' = begun /\ committed' = committed
      BY <2>1, <3>1 DEF Accept, IInv, TypeOK
    <3>4. QED BY <2>1, <3>2, <3>3 DEF Accept, Promise!AbsAccept
  <2>2. ASSUME NEW v \in Version, Execute(v)
        PROVE  Promise!AbsBegin(v)
    <3>1. /\ stage[v] = "dispatched" /\ stage'[v] = "executing" /\ log' = log
          /\ \A w \in Version \ {v} : stage'[w] = stage[w]
      BY <2>2 DEF Execute, IInv, TypeOK
    <3>2. v \in Promise!Accepted \ begun
      BY <3>1 DEF Promise!Accepted, IInv, LogMatchesStage
    <3>3. begun' = begun \cup {v} /\ committed' = committed
      BY <3>1
    <3>4. ASSUME NEW w \in Promise!Predecessors(v) PROVE w \in committed
      <4>1. /\ w \in Version /\ stage[w] # "none" /\ w < v
            /\ Promise!Conflict(log[w], log[v])
        BY DEF Promise!Predecessors, Promise!Accepted, IInv, LogMatchesStage
      <4>2. PICK k : /\ k \in Touched(log[w]) /\ k \in Touched(log[v])
                     /\ k \in log[w].writeset \/ k \in log[v].writeset
        BY <4>1 DEF Promise!Conflict, Promise!Touched, Touched
      <4>3. k \in Key
        BY <4>1, <4>2, LoggedFootprint, FootprintFields DEF Touched
      <4>4. ~ Live(w)
        BY <3>1, <4>1, <4>2, <4>3, RunningExcludesPredecessors DEF Live
      <4>5. QED BY <4>1, <4>4 DEF Live
    <3>5. QED BY <3>1, <3>2, <3>3, <3>4 DEF Promise!AbsBegin
  <2>3. ASSUME NEW v \in Version, PushCompleted(v)
        PROVE  Promise!AbsCommit(v)
    <3>1. /\ stage[v] = "executing" /\ stage'[v] = "completed" /\ log' = log
          /\ \A w \in Version \ {v} : stage'[w] = stage[w]
      BY <2>3 DEF PushCompleted, IInv, TypeOK
    <3>2. v \in begun \ committed /\ committed' = committed \cup {v} /\ begun' = begun
      BY <3>1
    <3>3. QED BY <3>1, <3>2 DEF Promise!AbsCommit
  <2>4. ASSUME NEW v \in Version, ReleaseCompleted(v) \/ StartReady(v)
        PROVE  UNCHANGED Promise!absVars
    <3>1. stage[v] = "completed" \/ stage[v] = "blocked"
      BY <2>4 DEF ReleaseCompleted, StartReady, IInv, TypeOK, WaitingCountsPending
    <3>2. CASE ReleaseCompleted(v)
      BY <3>2 DEF ReleaseCompleted, Retire, IInv, TypeOK
    <3>3. CASE StartReady(v)
      <4>1. stage[v] = "blocked"
        BY <3>3 DEF StartReady, IInv, WaitingCountsPending
      <4>2. QED BY <3>3, <4>1 DEF StartReady, IInv, TypeOK
    <3>4. QED BY <2>4, <3>2, <3>3
  <2>5. ASSUME NEW v \in Version, NEW k \in Key, Install(v, k)
        PROVE  UNCHANGED Promise!absVars
    BY <2>5 DEF Install
  <2>6. CASE AcceptNothing \/ NothingCompleted \/ NothingReady \/ UNCHANGED vars
    BY <2>6 DEF AcceptNothing, NothingCompleted, NothingReady, vars
  <2>7. QED
    BY <2>1, <2>2, <2>3, <2>4, <2>5, <2>6
       DEF Next, SchedulerStep, Worker, Promise!AbsNext
<1>3. IInv /\ [Next]_vars => [Promise!AbsNext]_(Promise!absVars)
  BY <1>2
<1>4. QED
  BY <1>1, <1>3, Invariance, PTL DEF Spec, ExecutesDeterministically, Promise!AbsSpec
=============================================================================
