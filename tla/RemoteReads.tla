----------------------------- MODULE RemoteReads -----------------------------
(***************************************************************************)
(* DistributedExecutionContext and MetadataStore::Run on the machines of   *)
(* one replica.  Every machine that holds a key of an action runs it: it   *)
(* reads its own keys, sends what it read to the other machines that hold  *)
(* a key the action writes and, if it is one of those itself, waits for    *)
(* one message of every other machine that holds a key the action reads.   *)
(* The messages of an action travel on a data channel named for its        *)
(* version, which the connection thread or the worker creates, whichever   *)
(* comes first, and which the worker closes.                               *)
(*                                                                         *)
(* The scheduler of each machine is taken to keep the promise of           *)
(* DeterministicExecution for the keys of its machine (LockingScheduler    *)
(* does), and to accept its part of the log in order, a few actions at a   *)
(* time.  The schedulers of two machines know nothing of each other.       *)
(***************************************************************************)
EXTENDS Naturals, FiniteSets, Sequences

CONSTANTS
  Machine,          \* the machines of the replica
  Key,              \* paths
  MachineOf,        \* LookupMetadataShard of a path's hash, in this replica
  Existing,         \* keys with a record at version 0
  Footprint,        \* what the actions do, see FootprintRecord
  MaxVersion,       \* length of the log
  MaxActiveActions  \* kMaxActiveActions of every machine's scheduler

Version == 1 .. MaxVersion

\* required: keys without which the action fails; deleted: keys it erases.
FootprintRecord ==
  {f \in [readset : SUBSET Key, writeset : SUBSET Key,
          required : SUBSET Key, deleted : SUBSET Key] :
     f.required \subseteq f.readset /\ f.deleted \subseteq f.writeset}

ASSUME RemoteReadsAssumption ==
  /\ IsFiniteSet(Machine) /\ IsFiniteSet(Key)
  /\ MachineOf \in [Key -> Machine]
  /\ Existing \subseteq Key
  /\ Footprint \subseteq FootprintRecord
  /\ MaxVersion \in Nat
  /\ MaxActiveActions \in Nat \ {0}

VARIABLES
  log,       \* version -> footprint of the action: the global log
  stage,     \* machine -> version -> how far the worker is
  reads,     \* machine -> version -> reads_, as pairs of a key and a version
  received,  \* machine -> version -> messages popped so far
  network,   \* DATA messages on their way
  arriving,  \* machine -> the message its connection thread is pushing, if any
  open,      \* machine -> versions that have a data channel
  channel,   \* machine -> version -> the messages in the channel
  created,   \* machine -> version -> how often the channel was created
  store,     \* key -> versions that wrote it, and whether they erased it
  reply      \* machine -> version -> the output sent back to the client

workVars == <<stage, reads, received>>
dataVars == <<network, arriving, open, channel, created>>
vars == <<log, workVars, dataVars, store, reply>>

Absent  == MaxVersion + 1   \* the version of a record that is not there

----------------------------------------------------------------------------
(***************************************************************************)
(* Who runs an action, who reads and who writes.                           *)
(***************************************************************************)
LocalKeys(m)   == {k \in Key : MachineOf[k] = m}
Touched(f)     == f.readset \cup f.writeset
Readers(v)     == {MachineOf[k] : k \in log[v].readset}
Writers(v)     == {MachineOf[k] : k \in log[v].writeset}
Runners(v)     == Readers(v) \cup Writers(v)

RemoteReaders(m, v) == Readers(v) \ {m}

RemoteWriters(m, v) == Writers(v) \ {m}

\* (Mutant of LocalPredecessors: keys that are only read are not locked.)
LocalWriters(m, v) ==
  {w \in 1 .. (v - 1) : LocalKeys(m) \cap log[w].writeset \cap log[v].writeset # {}}

\* Actions that conflict with v on a key of m and precede it in the log.
LocalPredecessors(m, v) ==
  {w \in 1 .. (v - 1) :
     LocalKeys(m) \cap ((log[w].writeset \cap Touched(log[v])) \cup
                        (log[v].writeset \cap Touched(log[w]))) # {}}

Active(m, v) ==
  {w \in 1 .. (v - 1) : m \in Runners(w) /\ stage[m][w] # "done"}

----------------------------------------------------------------------------
(***************************************************************************)
(* The store, and what an action does to it given all that it has read.    *)
(***************************************************************************)
\* store_->Get: the newest record older than v, unless it is a deletion.
Get(k, v) ==
  LET older == {w \in store[k] : w.version < v} IN
  IF older = {} THEN Absent
  ELSE LET newest == CHOOSE w \in older : \A u \in older : u.version <= w.version
       IN  IF newest.erased THEN Absent ELSE newest.version

LocalReads(m, v) ==
  {r \in {<<k, Get(k, v)>> : k \in log[v].readset \cap LocalKeys(m)} : r[2] # Absent}

Fails(f, rs) == \E k \in f.required : \A r \in rs : r[1] # k

\* (Mutant of Install: failed actions are not aborted.)
InstallAlways(m, v) ==
  [k \in Key |->
     IF k \in log[v].writeset \cap LocalKeys(m)
     THEN store[k] \cup {[version |-> v, erased |-> k \in log[v].deleted]}
     ELSE store[k]]

\* ~ExecutionContext installs the writes of an action that did not fail.  It is
\* not virtual and Run deletes through the base class, so the destructor that
\* would keep to the keys of this machine does not run: records of keys of other
\* machines are put here too.  LocalReads gets no such key, so nobody who holds
\* locks reads them, and store leaves them out.
Install(m, v) ==
  [k \in Key |->
     IF k \in log[v].writeset \cap LocalKeys(m) /\ ~ Fails(log[v], reads[m][v])
     THEN store[k] \cup {[version |-> v, erased |-> k \in log[v].deleted]}
     ELSE store[k]]

----------------------------------------------------------------------------
Init ==
  /\ log \in [Version -> Footprint]
  /\ stage = [m \in Machine |-> [v \in Version |-> "none"]]
  /\ reads = [m \in Machine |-> [v \in Version |-> {}]]
  /\ received = [m \in Machine |-> [v \in Version |-> 0]]
  /\ network = {}
  /\ arriving = [m \in Machine |-> {}]
  /\ open = [m \in Machine |-> {}]
  /\ channel = [m \in Machine |-> [v \in Version |-> << >>]]
  /\ created = [m \in Machine |-> [v \in Version |-> 0]]
  /\ store = [k \in Key |->
       IF k \in Existing THEN {[version |-> 0, erased |-> FALSE]} ELSE {}]
  /\ reply = [m \in Machine |-> [v \in Version |-> "none"]]

\* DataChannel: create the channel unless it is there.
OpenChannel(m, v) ==
  /\ open' = [open EXCEPT ![m] = @ \cup {v}]
  /\ created' = [created EXCEPT ![m][v] = IF v \in open[m] THEN @ ELSE @ + 1]

MessagesTo(m, v, ws) ==
  {[to |-> w, from |-> m, version |-> v, reads |-> LocalReads(m, v)] : w \in ws}

\* (Mutant of Send: a machine that found nothing sends nothing.)
SendIfAny(m, v) ==
  network' = network \cup
    (IF LocalReads(m, v) # {} THEN MessagesTo(m, v, RemoteWriters(m, v)) ELSE {})

\* A reader sends to every remote writer, also if it found nothing.
Send(m, v) ==
  network' = network \cup
    (IF m \in Readers(v) THEN MessagesTo(m, v, RemoteWriters(m, v)) ELSE {})

\* The constructor up to the wait for messages.
Begin(m, v) ==
  /\ stage[m][v] = "none"
  /\ m \in Runners(v)
  /\ Cardinality(Active(m, v)) < MaxActiveActions
  /\ \A w \in LocalPredecessors(m, v) : stage[m][w] = "done"
  /\ reads' = [reads EXCEPT ![m][v] = LocalReads(m, v)]
  /\ Send(m, v)
  /\ IF m \in Writers(v)
     THEN /\ OpenChannel(m, v)
          /\ stage' = [stage EXCEPT ![m][v] = "waiting"]
     ELSE /\ UNCHANGED <<open, created>>
          /\ stage' = [stage EXCEPT ![m][v] = "returning"]
  /\ UNCHANGED <<log, received, arriving, channel, store, reply>>

\* The connection thread looks the channel up ...
Arrive(m, msg) ==
  /\ arriving[m] = {}
  /\ msg.to = m
  /\ network' = network \ {msg}
  /\ arriving' = [arriving EXCEPT ![m] = {msg}]
  /\ OpenChannel(m, msg.version)
  /\ UNCHANGED <<log, workVars, channel, store, reply>>

\* ... and pushes the message, no lock held.
Push(m) ==
  /\ arriving' = [arriving EXCEPT ![m] = {}]
  /\ \E msg \in arriving[m] :
       channel' = [channel EXCEPT ![m][msg.version] =
         IF msg.version \in open[m] THEN Append(@, msg.reads) ELSE @]
  /\ UNCHANGED <<log, workVars, network, open, created, store, reply>>

\* One message: its reads are added to reads_.
Receive(m, v) ==
  /\ stage[m][v] = "waiting"
  /\ received[m][v] < Cardinality(RemoteReaders(m, v))
  /\ channel[m][v] # << >>
  /\ reads' = [reads EXCEPT ![m][v] = @ \cup Head(channel[m][v])]
  /\ received' = [received EXCEPT ![m][v] = @ + 1]
  /\ channel' = [channel EXCEPT ![m][v] = Tail(@)]
  /\ UNCHANGED <<log, stage, network, arriving, open, created, store, reply>>

\* (Mutant of AllReceived: one message is enough.)
OneReceived(m, v) == received[m][v] = 1 \/ RemoteReaders(m, v) = {}

AllReceived(m, v) == received[m][v] = Cardinality(RemoteReaders(m, v))

CloseChannel(m, v) ==
  /\ stage[m][v] = "waiting"
  /\ AllReceived(m, v)
  /\ open' = [open EXCEPT ![m] = @ \ {v}]
  /\ channel' = [channel EXCEPT ![m][v] = << >>]
  /\ stage' = [stage EXCEPT ![m][v] = "executing"]
  /\ UNCHANGED <<log, reads, received, network, arriving, created, store, reply>>

\* A writer executes the action on what it has read, installs its part of the
\* writes, and sends the action back to the client.
Execute(m, v) ==
  /\ stage[m][v] = "executing"
  /\ store' = Install(m, v)
  /\ reply' = [reply EXCEPT ![m][v] =
       IF Fails(log[v], reads[m][v]) THEN "failure" ELSE "success"]
  /\ stage' = [stage EXCEPT ![m][v] = "done"]
  /\ UNCHANGED <<log, reads, received, dataVars>>

\* A machine that only reads returns before it executes anything; StoreApp::Run
\* sends the action back all the same, without an output.
Return(m, v) ==
  /\ stage[m][v] = "returning"
  /\ reply' = [reply EXCEPT ![m][v] = "empty"]
  /\ stage' = [stage EXCEPT ![m][v] = "done"]
  /\ UNCHANGED <<log, reads, received, dataVars, store>>

Worker(m, v) ==
  Begin(m, v) \/ Receive(m, v) \/ CloseChannel(m, v) \/ Execute(m, v) \/ Return(m, v)

Connection(m) == (\E msg \in network : Arrive(m, msg)) \/ Push(m)

Next == \E m \in Machine : Connection(m) \/ \E v \in Version : Worker(m, v)

Spec == Init /\ [][Next]_vars

\* The replica goes on as long as one of its threads can: the pool has a thread
\* for every worker that waits.  (The log is finite and every step is progress.)
FairSpec == Spec /\ WF_vars(Next)

----------------------------------------------------------------------------
(***************************************************************************)
(* Properties.                                                             *)
(***************************************************************************)
Stage == {"none", "waiting", "executing", "returning", "done"}

Record == [version : 0 .. MaxVersion, erased : BOOLEAN]

ReadPair == Key \X (0 .. MaxVersion)

Message == [to : Machine, from : Machine, version : Version, reads : SUBSET ReadPair]

TypeOK ==
  /\ log \in [Version -> Footprint]
  /\ stage \in [Machine -> [Version -> Stage]]
  /\ reads \in [Machine -> [Version -> SUBSET ReadPair]]
  /\ received \in [Machine -> [Version -> Nat]]
  /\ network \in SUBSET Message
  /\ arriving \in [Machine -> SUBSET Message]
  /\ open \in [Machine -> SUBSET Version]
  /\ channel \in [Machine -> [Version -> Seq(SUBSET ReadPair)]]
  /\ created \in [Machine -> [Version -> Nat]]
  /\ store \in [Key -> SUBSET Record]
  /\ reply \in [Machine -> [Version -> {"none", "empty", "failure", "success"}]]

\* The store after the first v actions of the log, executed one by one by a
\* single machine that holds every key.
Serially[v \in 0 .. MaxVersion] ==
  IF v = 0 THEN [k \in Key |-> IF k \in Existing THEN 0 ELSE Absent]
  ELSE LET before == Serially[v - 1] IN
       IF \E q \in log[v].required : before[q] = Absent THEN before
       ELSE [k \in Key |-> IF k \in log[v].deleted THEN Absent
                           ELSE IF k \in log[v].writeset THEN v ELSE before[k]]

\* Every writer of an action has read exactly what the serial execution reads,
\* although each key was read by its own machine at its own time: so all its
\* writers compute the same writes and the same outcome.
SerialReads(v) ==
  {r \in {<<k, Serially[v - 1][k]>> : k \in log[v].readset} : r[2] # Absent}

Executed(m, v) == stage[m][v] \in {"executing", "done"} /\ m \in Writers(v)

WritersReadSerially ==
  \A v \in Version : (\E m \in Machine : Executed(m, v)) =>
    LET expected == SerialReads(v) IN
      \A m \in Machine : Executed(m, v) => reads[m][v] = expected

\* Once a prefix of the log is executed on all machines, the store holds for
\* that prefix what the serial execution leaves: no action is half installed.
Finished(v) == \A m \in Runners(v) : stage[m][v] = "done"

StoreIsSerial ==
  \A v \in Version : (\A w \in 1 .. v : Finished(w)) =>
    Serially[v] = [k \in Key |-> Get(k, v + 1)]

\* CHECK(reads_.count(key) == 0): no message brings a key that is there.
RemoteReadsAreNew ==
  \A m \in Machine, v \in Version : channel[m][v] # << >> =>
    \A r \in Head(channel[m][v]), s \in reads[m][v] :
      stage[m][v] = "waiting" => r[1] # s[1]

\* The channel is created once, is still there when the message that was
\* looked up for is pushed, and is gone with all its messages when the action
\* is done on all machines: no message is lost in a closed channel, and none
\* creates the channel anew when the action is over.
ChannelsAreUsedOnce ==
  /\ \A m \in Machine, v \in Version : created[m][v] <= 1
  /\ \A m \in Machine : \A msg \in arriving[m] : msg.version \in open[m]
  /\ \A v \in Version : Finished(v) =>
       /\ \A m \in Machine : v \notin open[m] /\ channel[m][v] = << >>
       /\ \A msg \in network : msg.version # v

\* The variables have their types, channels are used once, and what arrives on
\* them is new.
Consistent == TypeOK /\ ChannelsAreUsedOnce /\ RemoteReadsAreNew

\* No action waits for ever for a read: machines that wait for each other's
\* actions cannot wait in a circle.
EveryActionCompletes == <>(\A v \in Version : Finished(v))
=============================================================================
