-------------------------- MODULE LockingScheduler --------------------------
(***************************************************************************)
(* LockingScheduler::MainLoopBody, the LockManager it drives, the thread   *)
(* pool workers that run StoreApp::RunAsync's request, and the versioned   *)
(* store they read and write, on one machine.                              *)
(*                                                                         *)
(* The scheduler is one thread: phase says which of the three parts of     *)
(* MainLoopBody it is in.  Workers run concurrently with it and with each  *)
(* other; stage[v] is where the action with version v is.  Actions are     *)
(* named by their versions, and keys are the keys that IsLocal keeps.      *)
(***************************************************************************)
EXTENDS LockTable, Integers, FiniteSets

CONSTANTS
  Key,               \* keys stored on this machine
  Footprint,         \* what GetRWSets may return
  NoFootprint,
  MaxVersion,        \* bound on the versions of the log
  MaxActiveActions,  \* kMaxActiveActions
  MaxRunningActions  \* kMaxRunningActions

Version == 1 .. MaxVersion

\* repeated: the keys that occur twice in the writeset (GetRWSets of a RENAME
\* inside one directory adds the directory twice).
FootprintRecord ==
  {f \in [readset : SUBSET Key, writeset : SUBSET Key, repeated : SUBSET Key] :
     f.repeated \subseteq f.writeset}

ASSUME LockingSchedulerAssumption ==
  /\ IsFiniteSet(Key)
  /\ Footprint \subseteq FootprintRecord
  /\ NoFootprint \notin FootprintRecord
  /\ MaxVersion \in Nat
  /\ MaxActiveActions \in Nat \ {0}
  /\ MaxRunningActions \in Nat \ {0}

VARIABLES
  phase,               \* the part of MainLoopBody the scheduler thread is in
  log,                 \* version -> footprint of the accepted action
  lockTable, waiting, ready,  \* the LockManager; ready is a set, see StartReady
  active,              \* active_actions_
  runningActionCount,  \* running_action_count_
  highWaterMark,       \* high_water_mark_
  safeVersion,         \* safe_version_
  stage,               \* version -> how far its execution is
  stored,              \* key -> versions with a record in the versioned store
  seen,                \* version -> key -> version of the record it read
  woken                \* history: the versions that were started from ready_

lockVars  == <<lockTable, waiting, ready>>
countVars == <<active, runningActionCount, highWaterMark, safeVersion>>
storeVars == <<stored, seen>>
vars == <<phase, log, lockVars, countVars, stage, storeVars, woken>>

Stage == {"none", "blocked", "dispatched", "executing", "completed", "done"}

TypeOK ==
  /\ phase \in {"request", "release", "start"}
  /\ log \in [Version -> Footprint \cup {NoFootprint}]
  /\ lockTable \in [Key -> Seq(LockRequest(Version))]
  /\ waiting \in [Version -> Nat]
  /\ ready \in SUBSET Version
  /\ active \in SUBSET Version
  /\ runningActionCount \in Int
  /\ highWaterMark \in 0 .. MaxVersion
  /\ safeVersion \in 1 .. (MaxVersion + 1)
  /\ stage \in [Version -> Stage]
  /\ stored \in [Key -> SUBSET Version]
  /\ seen \in [Version -> [Key -> 0 .. MaxVersion]]
  /\ woken \in SUBSET Version

Init ==
  /\ phase = "request"
  /\ log = [v \in Version |-> NoFootprint]
  /\ lockTable = [k \in Key |-> << >>]
  /\ waiting = [v \in Version |-> 0]
  /\ ready = {}
  /\ active = {}
  /\ runningActionCount = 0
  /\ highWaterMark = 0
  /\ safeVersion = 1
  /\ stage = [v \in Version |-> "none"]
  /\ stored = [k \in Key |-> {}]
  /\ seen = [v \in Version |-> [k \in Key |-> 0]]
  /\ woken = {}

----------------------------------------------------------------------------
(***************************************************************************)
(* First part of MainLoopBody: accept an action and request its locks.     *)
(***************************************************************************)
Touched(f) == f.readset \cup f.writeset

Write(v) == [action |-> v, mode |-> EXCLUSIVE]
Read(v)  == [action |-> v, mode |-> SHARED]

\* The requests made on k: one WriteLock for each time k is in the writeset,
\* a ReadLock if it is in the readset only.
Requests(v, f, k) ==
  CASE k \in f.repeated             -> << Write(v), Write(v) >>
    [] k \in f.writeset \ f.repeated -> << Write(v) >>
    [] k \in f.readset \ f.writeset  -> << Read(v) >>
    [] OTHER                         -> << >>

\* Keys on which a request is not granted at once.
UngrantedWrites(f) == {k \in f.writeset : ~ GrantedOnPush(lockTable[k], EXCLUSIVE)}
UngrantedReads(f) ==
  {k \in f.readset \ f.writeset : ~ GrantedOnPush(lockTable[k], SHARED)}

\* ungranted_requests: a second WriteLock on a key is never granted at once.
UngrantedRequests(f) ==
  Cardinality(UngrantedWrites(f) \cup UngrantedReads(f)) + Cardinality(f.repeated)

BelowLimits == /\ Cardinality(active) < MaxActiveActions
               /\ runningActionCount < MaxRunningActions

\* The source hands over actions in version order; versions of actions that
\* touch no local key never reach this scheduler.
Accept(v, f) ==
  /\ phase = "request"
  /\ BelowLimits
  /\ v > highWaterMark
  /\ highWaterMark' = v
  /\ active' = active \cup {v}
  /\ log' = [log EXCEPT ![v] = f]
  /\ lockTable' = [k \in Key |-> lockTable[k] \o Requests(v, f, k)]
  /\ waiting' = [waiting EXCEPT ![v] = UngrantedRequests(f)]
  /\ IF UngrantedRequests(f) = 0
     THEN /\ runningActionCount' = runningActionCount + 1
          /\ stage' = [stage EXCEPT ![v] = "dispatched"]
     ELSE /\ UNCHANGED runningActionCount
          /\ stage' = [stage EXCEPT ![v] = "blocked"]
  /\ phase' = "release"
  /\ UNCHANGED <<ready, safeVersion, storeVars, woken>>

\* A limit is reached, or the source has nothing to hand over.
AcceptNothing ==
  /\ phase = "request"
  /\ phase' = "release"
  /\ UNCHANGED <<log, lockVars, countVars, stage, storeVars, woken>>

----------------------------------------------------------------------------
(***************************************************************************)
(* Second part: for every completed action, release its locks and move the *)
(* safe version.                                                           *)
(***************************************************************************)
Heirs(v, k) ==
  IF Requested(lockTable[k], v)
  THEN NewOwners(lockTable[k], Target(lockTable[k], v)) ELSE {}

\* waiting_ after the releases: one less for each key whose lock is inherited.
WaitingAfter(v) ==
  [w \in Version |-> waiting[w] - Cardinality({k \in Touched(log[v]) : w \in Heirs(v, k)})]

\* (Mutant of LeastOf: the other end of active_actions_.)
GreatestOf(S) == CHOOSE v \in S : \A w \in S : w <= v

LeastOf(S) == CHOOSE v \in S : \A w \in S : v <= w

\* (Mutant of Retire: running_action_count_ stays.)
RetireUncounted(v) ==
  /\ active' = active \ {v}
  /\ UNCHANGED runningActionCount
  /\ safeVersion' = IF active' = {} THEN highWaterMark + 1 ELSE LeastOf(active')
  /\ stage' = [stage EXCEPT ![v] = "done"]

Retire(v) ==
  /\ active' = active \ {v}
  /\ runningActionCount' = runningActionCount - 1
  /\ safeVersion' = IF active' = {} THEN highWaterMark + 1 ELSE LeastOf(active')
  /\ stage' = [stage EXCEPT ![v] = "done"]

\* completed_.Pop returned the action with version v.
ReleaseCompleted(v) ==
  /\ phase = "release"
  /\ stage[v] = "completed"
  /\ lockTable' = [k \in Key |->
       IF k \in Touched(log[v]) /\ Requested(lockTable[k], v)
       THEN Erase(lockTable[k], Target(lockTable[k], v)) ELSE lockTable[k]]
  /\ waiting' = WaitingAfter(v)
  /\ ready' = ready \cup {w \in Version : waiting[w] > 0 /\ WaitingAfter(v)[w] = 0}
  /\ Retire(v)
  /\ UNCHANGED <<phase, log, highWaterMark, storeVars, woken>>

NothingCompleted ==
  /\ phase = "release"
  /\ \A v \in Version : stage[v] # "completed"
  /\ phase' = "start"
  /\ UNCHANGED <<log, lockVars, countVars, stage, storeVars, woken>>

----------------------------------------------------------------------------
(***************************************************************************)
(* Third part: run every action in ready_.  The loop empties ready_ before *)
(* it is added to again, and its order only orders requests to the thread  *)
(* pool, which starts them in any order: a set is enough.  The actions     *)
(* started here are not counted in running_action_count_.                  *)
(***************************************************************************)
StartReady(v) ==
  /\ phase = "start"
  /\ v \in ready
  /\ ready' = ready \ {v}
  /\ stage' = [stage EXCEPT ![v] = "dispatched"]
  /\ woken' = woken \cup {v}
  /\ UNCHANGED <<phase, log, lockTable, waiting, countVars, storeVars>>

NothingReady ==
  /\ phase = "start"
  /\ ready = {}
  /\ phase' = "request"
  /\ UNCHANGED <<log, lockVars, countVars, stage, storeVars, woken>>

----------------------------------------------------------------------------
(***************************************************************************)
(* A worker: StoreApp::Run on the store (all reads first, then the writes, *)
(* as ExecutionContext does), then the push on completed_.  completed_ is  *)
(* the set of actions in stage "completed": workers push in any order.     *)
(***************************************************************************)
Newest(S) == IF S = {} THEN 0 ELSE CHOOSE w \in S : \A u \in S : u <= w

\* (Mutant of NewestBefore: the bound is inclusive.)
NewestUpTo(k, v) == Newest({w \in stored[k] : w <= v})

\* VersionedKVStore::Get: the newest record older than the action; 0 if none.
NewestBefore(k, v) == Newest({w \in stored[k] : w < v})

\* ExecutionContext's constructor: read every key of the readset.
Execute(v) ==
  /\ stage[v] = "dispatched"
  /\ seen' = [seen EXCEPT ![v] = [k \in Key |->
       IF k \in log[v].readset THEN NewestBefore(k, v) ELSE 0]]
  /\ stage' = [stage EXCEPT ![v] = "executing"]
  /\ UNCHANGED <<phase, log, lockVars, countVars, stored, woken>>

\* Its destructor: install the writes, one record after the other.
Install(v, k) ==
  /\ stage[v] = "executing"
  /\ k \in log[v].writeset
  /\ v \notin stored[k]
  /\ stored' = [stored EXCEPT ![k] = @ \cup {v}]
  /\ UNCHANGED <<phase, log, lockVars, countVars, stage, seen, woken>>

Installed(v) == \A k \in log[v].writeset : v \in stored[k]

\* (Mutant of PushCompleted: pushed before the destructor has run.)
PushUninstalled(v) ==
  /\ stage[v] = "executing"
  /\ stage' = [stage EXCEPT ![v] = "completed"]
  /\ UNCHANGED <<phase, log, lockVars, countVars, storeVars, woken>>

\* Run has returned: push the action on completed_.
PushCompleted(v) ==
  /\ stage[v] = "executing"
  /\ Installed(v)
  /\ stage' = [stage EXCEPT ![v] = "completed"]
  /\ UNCHANGED <<phase, log, lockVars, countVars, storeVars, woken>>

Worker(v) == Execute(v) \/ (\E k \in Key : Install(v, k)) \/ PushCompleted(v)

SchedulerStep ==
  \/ \E v \in Version, f \in Footprint : Accept(v, f)
  \/ AcceptNothing
  \/ \E v \in Version : ReleaseCompleted(v) \/ StartReady(v)
  \/ NothingCompleted
  \/ NothingReady

Next == SchedulerStep \/ \E v \in Version : Worker(v)

Spec == Init /\ [][Next]_vars

\* Start() calls MainLoopBody for ever, and the thread pool eventually runs
\* every worker.  Nothing makes the source hand over another action.
FairSpec == Spec /\ WF_vars(SchedulerStep) /\ \A v \in Version : WF_vars(Worker(v))

----------------------------------------------------------------------------
(***************************************************************************)
(* Properties.                                                             *)
(***************************************************************************)
Accepted == {v \in Version : stage[v] # "none"}

Committed(v) == stage[v] \in {"executing", "completed", "done"} /\ Installed(v)

\* waiting_ counts, for every accepted action, exactly the keys it has queued
\* for and does not own; so a blocked action is woken by its last lock, and
\* one that waits for nothing is in ready_ or was never blocked.  (Also the
\* CHECK in Release: who inherits a lock has an entry in waiting_.)
PendingKeys(v) ==
  {k \in Key : Requested(lockTable[k], v) /\ v \notin Owners(lockTable[k])}

WaitingCountsPending ==
  \A v \in Version :
    /\ waiting[v] = Cardinality(PendingKeys(v))
    /\ stage[v] = "blocked" <=> waiting[v] > 0 \/ v \in ready

\* Every read returns the record of the latest earlier writer in the log,
\* although actions run concurrently: the execution is equivalent to running
\* the log serially.
LastWriterBefore(k, v) == Newest({w \in Accepted : w < v /\ k \in log[w].writeset})

ReadsAreSerial ==
  \A v \in Version : stage[v] \in {"executing", "completed", "done"} =>
    \A k \in log[v].readset : seen[v][k] = LastWriterBefore(k, v)

\* SafeVersion(): every action that precedes it is in the store, accepted or
\* still to come (scheduler.h: "all actions preceding V have already been
\* committed to the store").
SafeVersionIsSafe ==
  /\ \A v \in Accepted : v < safeVersion => Committed(v)
  /\ safeVersion <= highWaterMark + 1

\* A read at a version that SafeVersion() has returned gives the same records
\* for ever: the lock-free lookups of the client application read snapshots.
\* And SafeVersion() never goes back.
SnapshotsAreStable ==
  [][/\ safeVersion' >= safeVersion
     /\ \A k \in Key, s \in 1 .. safeVersion :
          NewestBefore(k, s)' = NewestBefore(k, s)]_vars

\* What running_action_count_ counts.  It is incremented for an action that
\* starts at once and decremented for every action that completes, so it falls
\* short of the actions that run by one for each action that ever had to wait
\* for a lock: no slot is ever lost, but the count drifts below zero, and
\* max_running bounds the actions that run only until the first one is woken.
Running == {v \in Version : stage[v] \in {"dispatched", "executing", "completed"}}

RunningCountDrifts ==
  /\ \A v \in woken : v \in Running \/ stage[v] = "done"
  /\ runningActionCount = Cardinality(Running) - Cardinality(woken)

\* The variables have their types, the wait counters count what is pending, and
\* the count of running actions is off by exactly the drift.
Consistent == TypeOK /\ WaitingCountsPending /\ RunningCountDrifts

\* The promise of every Calvin scheduler: an action begins after all earlier
\* actions it conflicts with have committed.
Promise == INSTANCE DeterministicExecution WITH
  begun     <- {v \in Version : stage[v] \in {"executing", "completed", "done"}},
  committed <- {v \in Version : stage[v] \in {"completed", "done"}}

ExecutesDeterministically == Promise!AbsSpec

\* Every accepted action completes, and the safe version passes it: no
\* deadlock among actions that wait for each other's locks, no lost wakeup.
SafeVersionCatchesUp ==
  \A v \in Version : stage[v] # "none" ~> stage[v] = "done" /\ safeVersion > v

\* What lock_manager.h requires of its callers: neither lock call "has
\* previously been called with this txn and key".
NoRepeatedRequest == \A k \in Key : Distinct(lockTable[k])
=============================================================================
