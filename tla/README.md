# CalvinFS in TLA+

This directory models CalvinFS, a replicated file system whose metadata is
managed by the Calvin transaction protocol: every metadata operation is an
*action* whose read and write sets are known before it runs; actions are put
into one global log; every replica executes the log deterministically, with
locks requested in log order, so that replicas agree without a commit protocol.

The code is in `src/src`. `src/src_lowlatency` and `src/src_remaster` are
variants of the same tree; line numbers below are those of `src/src` unless
another tree is named.

## 1. The system

| component | code | state | operations |
|---|---|---|---|
| LockManager | `components/scheduler/lock_manager.cc` | `lock_table_` (key -> deque of requests), `waiting_` (action -> count), `ready_` | WriteLock, ReadLock, Release, Ready |
| LockingScheduler | `components/scheduler/locking_scheduler.cc` | `active_actions_`, `running_action_count_`, `high_water_mark_`, `safe_version_`, `completed_` | MainLoopBody, SafeVersion |
| SerialScheduler, VLLScheduler | same directory | as above; VLL counts lock requests instead of queueing them | MainLoopBody |
| StoreApp | `components/store/store_app.cc` | none | GetRWSets, Run, RunAsync |
| MetadataStore | `fs/metadata_store.cc` | a versioned store; per running action an ExecutionContext with its reads and buffered writes | the nine metadata operations |
| VersionedKVStore, HybridVersionedKVStore | `components/store` | records (key, version, flags) -> value | Get, Put, Delete, GetVersion |
| Paxos2App (the metalog) | `components/log/paxos2.cc` | leader: `sequence_`, `count_`, next version, ack counters; follower: queue of uncommitted proposals; both: a log | Append/APPEND, the two main loops |
| LocalMemLog, LogApp | `components/log` | array of entries; remote readers | Append, Next, Seek; NEW_READER, GET |
| BlockLogApp | `fs/block_log.h` | pending actions, votes per block, sub-batches | BATCH, VOTE, SUBBATCH, ActionSource::Get |
| Block stores | `fs/block_store.cc` | block id -> data | Put to a majority of replicas, Get |
| Client app | `fs/calvinfs_client_app.*` | none | file system calls; snapshot lookups at the scheduler's safe version |
| Machine, ThreadPool, Connection | `machine/` | inboxes, callbacks, pool threads, sockets | SendMessage, reply and ack, RPC dispatch |
| Containers | `common/atomic.h` | ring buffers and maps behind locks | Push, Pop, resize |
| Remastering | `src_remaster/fs/block_log.h`, `calvinfs.cc`, `metadata_store.cc` | on every machine a map of the paths that changed their master; queues of requests | REMASTER, REMASTER_SYNC, REMASTER_FOLLOW, REMASTER_ASYNC; routing an action to the master of its paths |

How they interact. A client call builds an action, has the store compute its
read and write sets, and appends it to the local BlockLogApp. Every 5 ms that
app batches its pending actions into a block and sends the block to one machine
of each replica (BATCH). Each of them stores the block, sends the part of it that
each local metadata shard needs (SUBBATCH) and votes for the block at the metalog
leader (VOTE); a majority of votes submits it to Paxos2. Each replica's metadata
machines read the metalog, take the sub-batches in its order, number the actions
and hand them to their LockingScheduler, which runs them on pool threads. An
action that spans shards makes the machines exchange their reads, over data
channels named after the action's version. Every machine that ran it sends it back
to the client, who takes the first answer.

In `src_remaster` every path has a master replica, and a replica puts an action
into its own log only if it masters all of the action's paths. A client sends an
action to the master; if several replicas are involved it chooses one and asks the
others to give their paths away. The old master tells all its machines, waits for
their answers, and only then tells the other replicas.

What is hard about it: locks handed over on release; workers that complete in
any order; a safe version that lock-free readers trust; counters with increments
and decrements in different places; acks that are counted and not attributed;
messages that are matched by arrival order; handlers that block pool threads
while they wait for other handlers. PROJECT.json lists the hazards line by line.

What makes each part correct:

* lock manager: who holds a lock is a function of the queue; wait counts are
  exact; an action becomes ready with its last lock and only then;
* schedulers: execution is equivalent to running the log in order; everything
  before the safe version is in the store; no accepted action is stuck;
* store: a read at a version sees the newest older record, for ever the same once
  the version is safe;
* metalog: one sequence of entries without gap or overlap in their versions; an
  entry in any log is on a majority; appended requests reach every running log;
* block log: each block is submitted once; actions come out in metalog order;
* remote reads: all writers of an action read the same serial state; no message is
  lost in a channel that is closed too early or created anew; nobody waits for ever;
* thread pool: no request is lost; a shrinking pool keeps a thread; it ends;
* metadata store: a tree of files, with the entries and the lists of the directories
  in agreement; an action changes what its locks cover; a client is told the truth;
* remastering: the replica that gives a path away knows before the others do; maps
  agree in the end, and an action is not sent to and fro for ever.

## 2. Modules

| module | models | actions and the code behind them |
|---|---|---|
| LockTable | one deque of the lock table, as operators | what a push grants, what an erase hands over, cases (a), (b), (c) of Release |
| LockManager | the lock manager with any correct caller | WriteLock, ReadLock, Release (also of a pending request), Ready |
| DeterministicExecution | what a Calvin scheduler promises (abstract) | accept in version order; begin after all conflicting predecessors have committed; commit |
| LockingScheduler | MainLoopBody, its lock manager, the workers and the store of one machine | Accept / AcceptNothing, ReleaseCompleted / NothingCompleted, StartReady / NothingReady (the three parts of the loop); Execute, Install, PushCompleted (a worker: constructor, destructor, push on `completed_`) |
| RemoteReads | DistributedExecutionContext and Run on the machines of one replica, over their schedulers' promise | Begin (local reads, messages sent), Connection (a message arrives, then is pushed), Receive, Execute, CloseChannel, Return |
| MetadataStore | GetRWSets and every implemented operation, one action at a time on the machines of its read and write sets | Run (with CreateFile, Erase, Copy, Rename, Resize, AppendData and the execution context) |
| FileTree | what the metadata store promises (abstract): directories, files and bytes | Do |
| SequencedLog | what the metalog promises (abstract) | choose the next entry; a participant learns the next one |
| Paxos2 | leader, followers, network, stops | HandleAppend, Propose, SendProposal, ProposalSent, QuorumReached, SendCommit, LeaderCommits; AcceptProposal, FollowerCommits; DeliverAck; Stop |
| ActionLog | what the block log promises its schedulers (abstract): one global log, a set of actions ordered by their versions, of which each is handed its part | Extend; HandNext |
| BlockLog | BlockLogApp, SequenceSource and ActionSource on every machine, over an abstract metalog | Start, Stop, AppendAction, CutBlock (the 5 ms loop); HandleBatch, HandleVote, HandleSubbatch, Drop (pool threads); ChooseEntry, LearnEntry (the metalog); Get (ActionSource, with the SequenceSource inside it) |
| LocalMemLog | the array of entries, its appender and readers, at the grain of the accesses to shared members | BeginAppend, Resize, AssignEntries, WriteEntry, CountEntry, EndAppend; BeginNext, LockArray, ReadNext; BeginSeek, SnapshotSize, BeginSearch, Halve, EndSearch; Reset |
| ThreadPool | both SubPools, their threads, the monitor and the destructor | HandleMessage; RunThread (BecomeIdle, PopRequest, CountOut, Handle, PopNull, Announce, Die, Drain, HandleDrained); MonitorThread (MonitorLoop, CreateThreads, LeaveThreads, DeleteThreads, Kill, AwaitDeath, JoinVictim); BeginDestructor, JoinMonitor, StopThread, JoinThread, EndSubPool |
| Remaster | remastering in `src_remaster`: clients, the handlers of the block log and its epochs | RouteAction, Append; Remaster, SendRemasterFollows, RemasterSync, RemasterFollow; BeginEpoch, EndEpoch |

The modules meet at their abstract specifications. LockManager and
LockingScheduler share the operators of LockTable. LockingScheduler implements
DeterministicExecution, which RemoteReads takes as given on every machine of a
replica; MetadataStore takes from both that actions are serial. BlockLog assumes of
the metalog what Paxos2 is shown to do (SequencedLog, and that appended requests are
learned), and implements ActionLog, which is where a scheduler's actions come from.
ThreadPool is what RemoteReads' fairness rests on.

LockingScheduler uses the queue operators of LockTable in bulk: one Accept makes
all requests of an action and one ReleaseCompleted releases all its locks,
because the scheduler is one thread and nothing else touches the lock manager.
What other threads can see in between, the store and `completed_`, is changed by
steps of their own. Keys are the local ones; a footprint is what GetRWSets
returns restricted to them, `repeated` being the keys that occur twice in the
writeset. The order inside `ready_` is not kept: the loop empties it before it is
added to again and the thread pool starts requests in any order. The store keeps
all versions of a key together, as VersionedKVStore does. The server registers
HybridVersionedKVStore, which moves old versions to LevelDB after ten seconds; the
newest version of a key is never moved, so reads under locks are as modelled, but a
snapshot read can miss a version while two threads move successive versions of a
key (`hybrid_versioned_kvstore.cc:183`; not modelled).

In RemoteReads the log is any sequence of the given footprints, chosen at the start;
each machine accepts its part in order, a few at a time, and begins an action when
no local predecessor conflicts. What was read is a set of pairs of a key and the
version found. The connection thread looks the channel up and pushes in two steps,
since a worker may close it in between. The store holds of each key the records that the
machine of the key installs. The destructor that runs is the one of ExecutionContext,
which puts the records of all written keys into the local store (see below, met while
modelling); no read under locks looks a key up anywhere but on its machine, so the others
are left out.

In MetadataStore a path is the sequence of its names, a part of a file its length and
block; a copy of an entry in the execution context is a value of a function, so that
a forgotten PutEntry leaves the store as it was, as in the code. `Careful` lists what
no operation checks although the store relies on it: parents are directories, what
is copied or renamed lists nothing, no rename within one directory or into itself,
no RESIZE to 0, no LOOKUP. Half of the initial states have clients that keep these
rules, and only for them EntriesAreListed and ImplementsFileTree are claimed. WRITE and
CHANGE_PERMISSIONS are not implemented in the code. ClientsAreToldTheTruth is about all
clients: it compares the reply of the machine that answers first with the store before and
after the action. A failure means that the store has not changed; a success, that the entry
was added, removed, copied or moved, in the list of its directory too, or has the bytes
asked for. SaysNothing lists the successes that do not mean it: a LOOKUP, a COPY answered by
a machine that only reads, a RESIZE to 0, and a RENAME within one directory, into itself or
to its own parent.

In ThreadPool `idle` is the threads' own counter, which lags behind what they do, and
`deleted` the list of threads that have announced their death. A handler may wait for
other requests to be handled; the scenario says which. The monitor's decision reads
the counter of each pool at the moment it looks. CPU affinity, sleeping times and
ShowStatus are left out.

In Paxos2 an entry is a record of its version and its (block id, count) pairs.
The n-th ack counter belongs to the n-th proposal; the commit message carries the
same counter, so the connection thread of a follower acknowledges commits on it
too (`machine.cc:58-61`), and the model delivers those acks as well. An
uncommitted proposal is popped first in, first out, as the code does. RPCs are
delivered in any order, DATA messages in FIFO order per pair of machines (one
ZeroMQ socket per pair, one inbox).

In BlockLog the metalog is an abstraction of Paxos2: a request has its place and its
version from the moment it is appended (`requested`, `versions`), whole batches of
requests are chosen and learned later. The local call `paxos_leader_->Append` and the
APPEND message are one step, because the order in which requests reach the leader is
arbitrary anyway. An action is its set of shards; a block is split by shard, with empty
parts, as the code does. `Late` are the machines whose Start() has not come to its loop,
so that handlers wait; `Client` gives the machines at which an action may be appended;
`Mortal` are the machines that may stop, and one that does takes with it any of the
messages it had still to send (`SentBy`): the sends of CutBlock and HandleBatch are one
step, though the code makes them one after another, and a death between two of them is a
stop that loses the later ones; `Scheduled` are the metadata machines whose scheduler asks
for actions, and a sub-batch for another machine stays on its way (`Deliverable`), since
nobody would look at it. When the memory of a sent block is freed is not modelled.

In LocalMemLog an entry is its version, and what a reader finds in an array that
has been moved under it is 0. realloc is taken to move the array every time. A
failed CHECK leaves its reader in the state "failed" instead of ending the
process, so the other threads can go on and be looked at. Seek works only for
targets from the first version of the log on: below it the binary search ends in a
failed CHECK (`local_mem_log.cc:166`) although `log.h:55-56` promises the first
entry. With `FirstVersions` = {1, 2} the invariant Consistent fails so; the
run takes {1}, the first version of the metalog.

In Remaster a machine's map of masters holds only the paths that were remastered;
`Default` is the rule for the others. The queues are sets: of several requests for a
path queued in one epoch any may be applied first, which covers the order of the
code (last first) and others. At most one handler of a request runs on a machine at
a time. REMASTER_SYNC and the answer to it are one step, as are the FOLLOWs and the
push that ends REMASTER: nothing else reads what is between. An action comes back
to the client of the machine that had it queued. A RENAME is answered without a
reply address and goes nowhere (`src_remaster/fs/block_log.h:329-332`). `Workload` is
what clients may want and, a bound, how often an action asks for remasterings. Nothing
keeps several actions from asking for different masters of one path, and nothing relates
the epochs of different machines: neither is assumed. A path is `Contested` once two
actions have chosen different masters for it; what is claimed of such a path is less.
No order of the actions on a path across its remastering is claimed (see below). After the
batch the block log is that of BlockLog and is not modelled again.

The MC modules give the constants their values and declare symmetry. Operators
marked "Mutant of" are plausible bugs of the definition that follows them, used to
see that each property can fail; no specification uses them.

## 3. Runs

| run | bounds | shows |
|---|---|---|
| LockManager | 4 actions, 2 keys, each action asks once per key | grants announced are the documented owners, counts exact, `ready_` sound, no grant withdrawn |
| LockingScheduler | 2 keys, 3 versions, at most 3 active and 2 running | reads are those of the serial log; safe version safe, snapshots stable; refines DeterministicExecution; the running count leaks no slot and drifts by exactly the actions a release woke; accepted actions complete and the safe version passes them |
| LockingSchedulerRename | adds the rename inside one directory | the lock manager's precondition is broken (finding) |
| RemoteReads | 3 machines with a key each, all logs of 3 actions out of a create, a copy and an erase, 2 active at a time | writers read serially, the store is serial, channels are used once, every action completes on all its machines |
| MetadataStore | a root, 2 directories, a file in each, files of up to 3 bytes, 2 machines; all sequences of operations | refines FileTree for careful clients; entries and lists agree; only the write set changes; a reply says whether the store changed as asked, but for SaysNothing |
| MetadataLookup | the same | a lookup that succeeds has no output (finding) |
| Paxos2 | 3 participants, 2 requests of different size, 1 stop at any time, leader included | one gap-free sequence; committed means on a majority; a commit finds its proposal; appended requests reach every running log while the leader and a majority run |
| BlockLog | 3 replicas, the first with 2 machines and 2 shards; any 2 actions of three: one of both shards and one of the second from the machine of the second replica, which starts late, one of the first shard from that of the third, which may die at any time with any messages it has not sent | a block is submitted once, by a majority, and votes and sub-batches are forgotten; what is sequenced is stored; refines ActionLog; an appended action reaches the scheduler, unless the metalog has a block that its dead origin had not sent to the replica |
| LocalMemLog | 2 readers, 5 versions, an array of one entry at first | readers expose what was appended; Seek finds the first entry; no CHECK fails |
| ThreadPool | two pools of up to 1 and 3 threads, 3 requests, 2 threads created or deleted at a time; handlers that return in a pool that shrinks, handlers that wait in one that grows | no request is lost or handled twice, no NULL is handled, a thread is left, every request is handled, the destructor ends |
| ThreadPoolShrink | two handlers that wait for the same request, in a pool that shrinks | the monitor and the threads wait for each other (finding) |
| Remaster | 2 replicas of 2 machines and 1; an action on a path of each and one on the first of them that asks for nothing, or that wants it back with another path; once or twice per action | the replica that gives a path away is told first, contested or not; where it is not, in the end maps agree and both actions are in a log |

Why the bounds are enough. Four requests on a key are the fewest that show every
case of Release (a reader before, the released request, and a run of two readers
or a writer behind it), and two keys the fewest with which an action waits for one
lock while it holds another. Three versions allow a pipeline of a completed action
and two live ones that finish in either order, and an action that waits for both of
its predecessors; the theorems cover any number. Three participants are the
fewest with a real majority, and two requests give batches of one and of two
requests and rounds whose acks arrive late. An action touches at least one key:
the others are not sent to the machine. In RemoteReads three machines are the fewest
with two that wait for each other and a third that has finished, and three actions of
which two are active let a message arrive before its reader has begun, and a
channel's name outlive its action. In MetadataStore two directories are the fewest
for a rename between them, and files of three bytes can be cut inside and at the edge
of a part. In BlockLog two actions make one block of
two or two blocks that race, in every combination of shards (a part of one, of two, an
empty part), and with three replicas a third vote arrives after the
majority; two shards and blocks of two machines are the fewest with sub-batches that
arrive out of metalog order and that are empty. Five versions make LocalMemLog move
its array three times (1, 2, 4, 8), with gaps between versions for Seek to fall into,
and a search of more than one step. Three threads let ThreadPool grow for a burst and
shrink by a batch of two. In Remaster two machines of the old master are the fewest
with an answer to wait for, and an action that asks twice has met a map that changed
in between; a third request would repeat the second, because Put does not overwrite. The
workload in which both actions want the path elsewhere lets two REMASTERs of it run at two
replicas at once.

Fairness. `Start()` calls MainLoopBody for ever, so the scheduler's steps are weakly fair;
pool threads run until their handler returns, so each worker is weakly fair. Nothing
forces the source to hand over an action. In Paxos2 the loops of running participants and
the delivery of acks are fair, a request need never be appended and a participant need
never stop. In RemoteReads the replica goes on as long as any of its threads can, so
EveryActionCompletes says that it never stops half-way; that there is a thread for every
worker is ThreadPool's part. In BlockLog every machine comes to its loop, the loop and the
scheduler's calls of Get go on, pool threads handle what arrives, and the metalog keeps
the promise of Paxos2; nobody need append or stop. The machine that may stop in the run
has a replica to itself, whose vote a majority can do without, and appends an action: so
all that AppendedIsHanded excuses in the run is actions behind a block of that machine
that the metalog has and the first replica never gets (NeverGets). The theorems are about
any stops. In ThreadPool the threads, the monitor and a destructor that was called run; no
request need arrive, and a handler that waits is not fair to itself: it goes on when the
requests it waits for are handled. In Remaster messages are delivered and handled, epochs
pass, and clients send on what comes back.

Deadlock checking is off where the system may come to rest: in Paxos2 after the
leader has stopped (there is no election and no recovery), in BlockLog, LocalMemLog,
RemoteReads and Remaster when the finite actions or versions are used up, in ThreadPool when
it is destroyed or has nothing to do, in MetadataStore when no input is left that a
careful client may send.

### Findings

* `RENAME` inside one directory: GetRWSets (`metadata_store.cc:484-493`) adds the
  parent directory to the writeset twice, and MainLoopBody requests its write lock
  twice. `lock_manager.h:39-40` forbids it. The second request waits behind the
  action's own first one: the action never runs, and nothing that needs the
  directory ever does.
* ThreadPool's monitor, having pushed a NULL, spins until a thread dies of it
  (`thread_pool.cc:362-366`) and creates no thread meanwhile. If all threads are in
  handlers that wait for a request queued before the NULL, nothing goes on, although
  `thread_pool.h:5-6` sees no risk of deadlock.
* `LOOKUP` has an empty write set, so Run returns before it looks at the type
  (`metadata_store.cc:539`) and the action has no output; the client parses nothing and
  reads a success without an entry. `metadata.proto:155` and
  `metadata_store_test.cc:54` expect one.

Met while modelling, outside what the runs check:

* `running_action_count_` is not incremented for actions started from `ready_`
  (`locking_scheduler.cc:94-96`) but decremented when they complete: from the first one on
  more actions run than `--max_running`, "max running actions for locking scheduler"
  (`scripts/calvinfs_server.cc:33`), and the counter drifts below zero, by one for each.
  RunningCountDrifts, a part of Consistent and the theorem RunningCountExact, state
  just that. `src_remaster` has the increment (`locking_scheduler.cc:107`).
* The sends of a batch are one after another (`block_log.h:140-151`). An origin that dies
  between two of them may leave a block that a majority has voted into the metalog and that
  one replica is never sent: its ActionSource waits for a sub-batch for ever, on this block
  and all later ones, whoever appended them. Without the excuse of NeverGets,
  AppendedIsHanded is violated so in the run.
* `~ExecutionContext` (`metadata_store.cc:65`) is not virtual and Run deletes a
  DistributedExecutionContext through `ExecutionContext*` (`:540`, `:615`): the destructor
  that would install local writes only (`:225-242`) does not run, and every machine that
  writes puts the records of all keys of the write set into its own store, where nothing
  that holds locks reads them.
* `SequenceSource::offset_` (`block_log.h:70`) is an int between two uint64: after
  2^31 actions the version handed to the schedulers is not the one the metalog
  assigned. The limits of the run are not reached.
* RESIZE to 0 clears a copy of the entry and does not write it back
  (`metadata_store.cc:875`); COPY and RENAME of a directory leave its files behind
  (`:721`); RENAME within a directory would write its parent twice (`:824`).
* In `src_remaster`, AtomicMap::Put does not overwrite, so a path can change its master
  once only, and two conflicting remasterings leave the maps different for ever; a
  remastering between the batch and the execution of an action makes its machines
  disagree on who reads and who installs (`metadata_store.cc:282`). A machine of the new
  master applies the change an epoch of its own later and waits for nothing of the old
  master's: one of these may put an action on the path into its log after the new master
  has, when its epoch takes long (`block_log.h:121-153`).

## 4. Proofs

TLAPS proves, for every value of the constants that satisfies the assumption of
the module:

* LockManagerProofs: for any actions and keys, and callers that may cancel:
  GrantsCorrect, CountersExact, TypesCorrect, ReadyCorrect and GrantsStay: all four
  properties of the run. They rest on lemmas on one queue of LockTable, PushOwners and
  EraseOwners, which LockingSchedulerProofs takes from here; the second is the
  correctness of the case analysis in Release.
* LockingSchedulerProofs: for any number of keys and versions and any limits, and
  any footprints in which no writeset repeats a key (`NoRepeats`; the finding on
  RENAME shows why it is needed): TypeCorrect, WakeupsExact, RunningCountExact and
  ConsistentAlways, Serializable, SafeVersionCorrect, SnapshotsCorrect, and Implements
  (every step is a step of DeterministicExecution or a stutter).
* Paxos2Proofs: for any number of participants, requests and stops: TypeCorrect,
  CommitsFindProposals, CommittedCorrect, ConsistentHolds (types, and versions that
  number the actions without a gap), and Implements (refinement of SequencedLog): all
  safety properties of the run.
* BlockLogProofs: for any replicas, machines, shards, actions, stops and late starts:
  ConsistentHolds, SequencedIsStoredHolds, UsesMetalogOnceHolds (refinement of
  SequencedLog) and HandsOutOneLogHolds (refinement of ActionLog), the last as long as
  the versions fit in the int that carries them (`NoOverflow`, see the findings).
  FewActionsHandOneLog needs no such hypothesis: fewer appended actions than an int
  holds, as in the run, cannot overflow. All safety properties of the run.
* RemoteReadsProofs: for any machines, keys, placement of the keys, log and limit on
  active actions: ConsistentHolds, WritersReadSeriallyHolds and StoreIsSerialHolds: all
  safety properties of the run.
* ThreadProofs, of the thread pool: for any pools, requests and handlers that wait:
  ConsistentHolds; and when max_idle_ is not below the number of threads deleted at a
  time (48 and 4 in the code), PoolKeepsAThreadHolds: all safety properties of the run.
* ThreadProofs, of the array log: for any readers, versions and first size of the array:
  ReadersExposeTheLogHolds and SeekFindsFirstHolds; and with a first version of 1
  (`FirstIsOne`, which holds for both logs the code keeps), LogIsConsistentHolds: all
  properties of the run.
* MetadataStoreProofs: for any paths, actions, shards, parts and names: StoreIsConsistent,
  TruthIsTold and ActionsStayInWriteSets for all clients, ListsAreTheTree and Implements
  (refinement of FileTree) for careful ones: all properties of the run.
* RemasterProofs: for any replicas, machines, paths and actions, and any masters these ask
  for: ConsistentAlways, OneReplicaFirst and OldMasterFirst: all safety properties of the
  run.

The lock manager. The inductive invariant of the grants adds the types, that
no queue holds two requests of an action, and that queued requests were called. For
`ready_` the invariant ReadyInv says that it holds no action twice, none that is
making its requests, and none with a pending request; an action whose last pending
request is cancelled is woken by the same loop, which is why Release has to look at
the count after it has erased the request.

The scheduler. The lock queue of a key holds exactly the live
actions that touch it, once each, in version order, EXCLUSIVE for the writers
(QueuesMatchLog): the main loop is one thread and accepts versions in order. The
wait counts are exact (WaitingCountsPending), so an action that has left the
queue of `ready_` waits for nothing and owns every key (ReadyWaitsForNothing,
RunningExcludesPredecessors): no live predecessor conflicts with it. The
store holds what completed actions wrote and only what begun ones write
(StoreMatchesStage). So a context built now reads what the last writers before it
in the log wrote (ReadsAreSerial), and nothing that is installed later changes
it (ReadsUndisturbed). The safe version is never above a live action
(SafeBelowLive); with StoreMatchesStage this makes snapshots final. These parts
and the types make the inductive invariant `IInv`; none of the last three is
inductive alone.

The metalog. Everything the leader sends to a follower is one stream: proposal and
commit of each round in turn. How far sending and receiving have come (Sent,
Received) determines what the channel, `uncommitted` and the log of the follower hold
(Streams); so a commit finds its proposal, although it does not name it. A counter is
one, plus the acks delivered for its proposal, plus those for its commit
(AcksCounted); while the leader still waits no commit was sent, so what it counts are
different followers that have the proposal (DecidedOnQuorum). The batches are cut from
`sequence_` without gap, repetition or a wrong version (Batches). Together they are
IInv, and they map a step of LeaderCommits or FollowerCommits to the choice or the
learning of the next entry. That the versions have no gap is Numbered: the leader's next
version is the last one plus what the proposal in work counts, and every batch starts
where the one before it ends.

The block log. NewId hands out every id once, since a machine counts its own, and an
action is in one queue or one block (ActionsOnce); so the id of a block stands for its
actions. The vote of a replica for a block is a BATCH not handled yet, a VOTE on its way,
or counted (VotesInv); the counter therefore passes the majority once, and what is
submitted is stored by those it counted. A request in the metalog has the version at which
the one before it ends (Numbered), and the entries chosen are the requests in order
(EntriesInv). A reader's sub-batch of a block is in one place: not made yet, on its way,
received, or used up (OnePlace); what an ActionSource holds is the rest of the block at
its place in the metalog (Reading). Then what was handed over is what concerns the reader
of the blocks before that place and of that block before what is left (HandedInv),
whatever the order of arrival. VersionsInv says that the version it is handed with is the
metalog's while it fits in `offset_`; CountInv, that versions count actions, which bounds
them by MaxActions. The step from there to ActionLog finds that the next item is the least
of those left, because blocks follow each other in version and places within a block do.

The remote reads. Serially is defined by recursion over the log; its equation is proved
first (SerialExists, SerialSteps), and facts on every version by the least one that would
break them. The store holds the records of exactly the successful actions
that are done on the machine of the key (StoreInv), so a Get for an action whose
predecessors on its local keys are done there finds what the serial execution left
(GetIsSerial, ReadsAreSerial): the order in which other machines work does not matter. A
message is on the network or in the hands of one connection thread, its channel being open
then, and carries the serial reads of its sender (MessagesInv). What a writer has read or
finds in its channel is what it read itself and what was pushed by the readers that have
begun and whose message no longer travels (HeldInv); messages received and messages in the
channel add up to these readers (Used), so when all are counted, all reads are there and
the channel is empty and can be closed. That no key comes twice (NewInv) is because keys have
one machine. Only with all of these is ChannelsAreUsedOnce inductive: a message that came
after the close would create the channel again.

The thread pool. A request is in one place: not sent, queued, in the hands of one thread,
or handled (PlaceInv). The death that the monitor waits for is in one place too: a NULL in
the queue, a thread that has popped it, or that thread's announcement in `deleted`
(DeathInv). `idle` is exact up to the threads between their two counter steps (IdleInv).
So when the monitor has seen more than max_idle_ idle threads and deletes its batch, the
threads that no death will take outnumber the deaths to come (UsefulInv), although
requests arrive and threads go to work meanwhile; only all four together are inductive.

The array log. The appender writes an entry and then counts it; while it moves the array,
`entries_` dangles, and it holds the lock, then and only then (ArrayHoldsLog). So
what a reader finds under its share of the lock is the log, up to any size it has read
before. The log is sorted, also between the counting of an entry and the update of
`max_version_` (LogIsSorted). A search keeps the size it read at its beginning, whose
last entry is not below the target; the entries at its two bounds are on either side of
the target (SearchInv, the comment in the code), and what is appended meanwhile is above.

Remastering. What a machine was told it keeps, in its queue, its epoch or its map
(ToldStays). Peers that have answered have been told (AnsweredAreTold, from the exact
book-keeping of the answers in Consistent), so when all have, REMASTER ends and all
machines of its replica know; until then only peers that it asked (AskedArePeers) can have
been told, because a FOLLOW of the path is on its way only after some replica
knows. With OneReplicaIsToldFirst these are KnowInv, whoever wants the path where. Which
replica it is takes more. Every request on a path, and every entry in a map, is for a
master that some action on the path has chosen (RequestsAreWanted); while nobody contests
it there is one such master, so a machine that asks for it knows only the first master or
the new one, and a REMASTER goes to a machine of the first (OldMasterRemasters).
Hence whatever is on its way to another replica, or postponed there, is known to the whole
old master (OthersComeLater). These make OrderInv; once a path is contested it stays so
(DestStays: a choice is made once), and its parts say nothing of the path any more.

The metadata store. Each operation is first shown to be one change of the store, or none
(CreateFileDoes to LookupDoes): an entry linked, unlinked, both, or given other parts.
Whatever clients do the store stays Good: entries at paths, a root directory, and no name
twice, which is what makes the swap with the last name in RemoveName remove one name and
all of it. While clients are careful it has a Shape as well: every entry is listed, every
name listed is an entry, and files list nothing. The last two are needed although
EntriesAreListed states the first two only: a file that listed a name, or a name without
an entry, would make a later CREATE_FILE fail or an ERASE orphan an entry. In a store of
that shape "the name is listed" and "the entry exists" mean the same (ListedIsThere), and
a directory lists nothing just when no entry is below it (TreeChildren); so an operation
succeeds just when FileTree lets it (TreeSuccess). What it does to bytes rests on the
totals of the parts: a byte is in exactly one part (ReachesIs, ReachesOnly), so appended
parts append their bytes (ConcatBytes), and a truncation keeps the first ones
(TruncatedBytes). That an operation changes only what is in its write set needs of the
invariant no more than that the store is a function. That the reply is true (StepTells)
compares the store on both sides: an operation that fails leaves every entry as it was,
because its checks come before its first PutEntry; one that succeeds has its effect
(SuccessIsEffect), for which names must be listed once (Good); and the output that comes
first is that of the execution, because every machine that reads for a changing operation
other than COPY writes too.

Recursive definitions (the totals of parts, the serial execution in RemoteReads) are
recursive functions; that they are what their equations say, and every induction over
numbers, is proved from the least counterexample with well-foundedness of `<` on the
naturals (NatSetHasLeast). OrderExists in BlockLogProofs (a finite set of numbers has an
increasing enumeration) goes the same way.

What is left to TLC: liveness (fairness and ENABLED are beyond the prover), so that
requests are learned, appended actions handed over, accepted actions completed and the pool
destroyed, and that remastering settles, is model-checked only. Every invariant, action
property and refinement that a passing run checks is a theorem.

## 5. Not modelled

* The server's hybrid store: the move of old versions behind snapshot reads. LogApp's
  remote readers: the map they are kept in is read without a lock, so its outcomes
  cannot be enumerated. When a sent block is freed.
* SerialScheduler, VLLScheduler and LazyScheduler: other schedulers, which the server
  does not start. `paxos.cc`: superseded by Paxos2.
* Block stores: whole blocks in files; a majority Put and a Get from one replica
  (`block_store.cc:226`). In BlockLog a stored block is a member of a set.
* The containers of `common/atomic.h`: their operations are critical sections, and one
  step wherever a module uses them.
* The client app beyond routing and the reply it reads; barriers, RPC registration,
  sockets, configuration and start-up over ssh.
* In `src_remaster`: SUBMIT, the sub-batches of a block and the distributed execution,
  both of which look masters up again; so neither is the order of a path's actions across
  its remastering, which depends on them and on the epochs. `src_lowlatency`: one paxos
  group per replica and the exchange of their logs.
* The B-tree and LevelDB (third party), HDFS and local file adapters, benchmarks (TPC-C,
  microbenchmarks, the experiments of the client app), formatting and parsing, the
  experimental directory.

The repository holds three nearly equal copies of one tree, each with the vendored
B-tree and with the benchmarks; what is modelled is the logic of `src/src` once and
what `src_remaster` adds to it. A small share of all lines is therefore mapped.

What would come next, in this order: the move of old versions against snapshot reads;
the execution of `src_remaster` with masters that change between batch and execution;
`src_lowlatency`.
