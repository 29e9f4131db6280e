------------------------------ MODULE BlockLog ------------------------------
(***************************************************************************)
(* The action log of CalvinFS: BlockLogApp, its ActionSource and its       *)
(* SequenceSource (fs/block_log.h) on every machine, over the metalog.     *)
(*                                                                         *)
(* A machine cuts the actions clients append to it into blocks and sends   *)
(* each block to one machine of every replica (BATCH).  Those store it,    *)
(* vote for it at the leader (VOTE) and send every metadata machine of     *)
(* their own replica the actions that touch its shards (SUBBATCH).  The    *)
(* leader appends the block to the metalog with the vote that makes a      *)
(* majority.  A metadata machine follows the metalog of its replica, takes *)
(* the sub-batches in its order and numbers the actions.                   *)
(*                                                                         *)
(* RPCs are handled by pool threads, in any order.  The metalog is an      *)
(* abstraction of Paxos2: requests get their place and version when they   *)
(* are appended, batches of them are chosen and learned later.             *)
(***************************************************************************)
EXTENDS Integers, Sequences, FiniteSets, SequencesExt

CONSTANTS
  Machine, Replica,
  Leader,          \* machine 0
  ReplicaOf,       \* machine -> its replica
  Blucket,         \* block ids are hashed to bluckets
  BlucketMachine,  \* blucket -> replica -> machine
  Shard,           \* file names are hashed to metadata shards
  ShardMachine,    \* shard -> replica -> machine
  Action,
  ShardsOf,        \* action -> the shards of its readset and writeset
  Client,          \* the machines to which clients may append an action
  Scheduled,       \* metadata machines whose scheduler runs
  Late,            \* machines whose Start() is not in its loop at first
  IntLimit,        \* an int is in -IntLimit .. IntLimit - 1
  UintLimit,       \* a uint64 is in 0 .. UintLimit - 1
  Mortal,          \* bound: the machines that may stop
  MaxActions       \* bound on the actions appended

ASSUME BlockLogAssumption ==
  /\ IsFiniteSet(Machine) /\ IsFiniteSet(Replica)
  /\ Leader \in Machine /\ Client \in [Action -> SUBSET Machine] /\ Late \subseteq Machine
  /\ ReplicaOf \in [Machine -> Replica]
  /\ BlucketMachine \in [Blucket -> [Replica -> Machine]]
  /\ ShardMachine \in [Shard -> [Replica -> Machine]]
  /\ \A r \in Replica :
       /\ \A b \in Blucket : ReplicaOf[BlucketMachine[b][r]] = r
       /\ \A s \in Shard : ReplicaOf[ShardMachine[s][r]] = r
  /\ Scheduled \subseteq Machine
  /\ \A m \in Scheduled : \E s \in Shard : m = ShardMachine[s][ReplicaOf[m]]
  /\ ShardsOf \in [Action -> SUBSET Shard]
  /\ IntLimit \in Nat \ {0} /\ UintLimit \in Nat /\ 2 * IntLimit <= UintLimit
  /\ Mortal \subseteq Machine /\ MaxActions \in Nat

VARIABLES
  status,     \* machine -> has Start() come to its loop, or Stop() ended it
  queue,      \* machine -> queue_, the actions not in a block yet
  block,      \* block id -> its actions, for every block cut so far
  net,        \* RPCs on their way
  stored,     \* machine -> blocks in its block store
  votes,      \* leader: batch_votes_
  requested,  \* metalog: the (block id, count) pairs appended to it, in order
  versions,   \* metalog: the version of the first action of each of them
  chosen,     \* metalog: its entries
  learned,    \* metalog: replica -> number of entries in its log
  source,     \* SequenceSource: entries got, next pair of the last, offset_
  subbatches, \* subbatches_, the sub-batches received
  current,    \* ActionSource: subbatch_id_ and subbatch_version_
  subbatch,   \* ActionSource: what is left of *subbatch_
  handed      \* what the ActionSource has returned to the scheduler

clientVars  == <<queue, block>>
metalogVars == <<requested, versions, chosen, learned>>
readerVars  == <<source, current, subbatch, handed>>
vars == <<status, clientVars, net, stored, votes, metalogVars, subbatches, readerVars>>

BlockId == Machine \X (Nat \ {0})
Pair    == [id : BlockId, count : Nat]
Item    == [action : Action, offset : Nat]   \* offset is version_offset

\* mds_ of the machines of replica r.
MetadataMachines(r) == {ShardMachine[s][r] : s \in Shard}
Reader == UNION {MetadataMachines(r) : r \in Replica}

NoBlock == << >>
Idle    == [id |-> NoBlock, version |-> 0]

Batch(m, id)       == [type |-> "BATCH", to |-> m, id |-> id]
Vote(m, id, n)     == [type |-> "VOTE", to |-> Leader, from |-> m, id |-> id, count |-> n]
Subbatch(m, id, s) == [type |-> "SUBBATCH", to |-> m, id |-> id, items |-> s]

Appended == (UNION {ToSet(queue[m]) : m \in Machine})
              \cup (UNION {ToSet(block[id]) : id \in DOMAIN block})

\* f with another value, or the first, for x.
Put(f, x, value) == [y \in DOMAIN f \cup {x} |-> IF y = x THEN value ELSE f[y]]

\* Conversion to int, and from int to uint64.
AsInt(n)  == LET r == n % (2 * IntLimit) IN IF r < IntLimit THEN r ELSE r - 2 * IntLimit
AsUint(i) == i % UintLimit

TypeOK ==
  /\ status \in [Machine -> {"starting", "running", "stopped"}]
  /\ queue \in [Machine -> Seq(Action)]
  /\ DOMAIN block \subseteq BlockId
  /\ \A id \in DOMAIN block : block[id] \in Seq(Action) /\ block[id] # << >>
  /\ \A m \in net :
       /\ m.to \in Machine /\ m.id \in DOMAIN block
       /\ \/ m.type = "BATCH" /\ m = Batch(m.to, m.id)
          \/ m.type = "VOTE" /\ m = Vote(m.from, m.id, Len(block[m.id])) /\ m.from \in Machine
          \/ m.type = "SUBBATCH" /\ m = Subbatch(m.to, m.id, m.items) /\ m.to \in Reader
             /\ m.items \in Seq(Item)
  /\ stored \in [Machine -> SUBSET DOMAIN block]
  /\ DOMAIN votes \subseteq DOMAIN block
  /\ \A id \in DOMAIN votes : votes[id] \in 1 .. Cardinality(Replica) - 1
  /\ requested \in Seq(Pair) /\ versions \in Seq(Nat)
  /\ chosen \in Seq([version : Nat, pairs : Seq(Pair)])
  /\ learned \in [Replica -> 0 .. Len(chosen)]
  /\ source \in [Reader -> [entries : Nat, next : Nat, offset : Int]]
  /\ subbatches \in [Reader -> SUBSET [id : DOMAIN block, items : Seq(Item)]]
  /\ current \in [Reader -> [id : BlockId \cup {NoBlock}, version : Nat]]
  /\ subbatch \in [Reader -> Seq(Item)]
  /\ handed \in [Reader -> Seq([action : Action, version : Nat])]

Init ==
  /\ status = [m \in Machine |-> IF m \in Late THEN "starting" ELSE "running"]
  /\ queue = [m \in Machine |-> << >>]
  /\ block = << >>
  /\ net = {}
  /\ stored = [m \in Machine |-> {}]
  /\ votes = << >>
  /\ requested = << >> /\ versions = << >>
  /\ chosen = << >> /\ learned = [r \in Replica |-> 0]
  /\ source = [m \in Reader |-> [entries |-> 0, next |-> 0, offset |-> 0]]
  /\ subbatches = [m \in Reader |-> {}]
  /\ current = [m \in Reader |-> Idle]
  /\ subbatch = [m \in Reader |-> << >>]
  /\ handed = [m \in Reader |-> << >>]

----------------------------------------------------------------------------
(***************************************************************************)
(* Clients, and the main loop that cuts blocks.                            *)
(***************************************************************************)
Start(m) ==
  /\ status[m] = "starting"
  /\ status' = [status EXCEPT ![m] = "running"]
  /\ UNCHANGED <<clientVars, net, stored, votes, metalogVars, subbatches, readerVars>>

\* What m has sent to others and nobody has handled.  SendMessage puts an RPC
\* into a socket's queue and returns.
SentBy(m) ==
  {msg \in net : msg.to # m /\
     \/ msg.type = "BATCH" /\ msg.id[1] = m
     \/ msg.type = "VOTE" /\ msg.from = m
     \/ msg.type = "SUBBATCH" /\ msg.id \in stored[m] /\ ReplicaOf[msg.to] = ReplicaOf[m]}

\* Stop(), or the process dies, and with it what it had not sent yet: RPCs in
\* its sockets, or those of the sends, one after another, that it dies
\* between.  CutBlock and HandleBatch make all their sends in one step, which
\* only this can tell from one by one.  Nothing is restarted.
Stop(m) ==
  /\ m \in Mortal /\ status[m] # "stopped"
  /\ status' = [status EXCEPT ![m] = "stopped"]
  /\ \E lost \in SUBSET SentBy(m) : net' = net \ lost
  /\ UNCHANGED <<clientVars, stored, votes, metalogVars, subbatches, readerVars>>

AppendAction(m, a) ==
  /\ status[m] # "stopped"
  /\ a \notin Appended /\ Cardinality(Appended) < MaxActions
  /\ queue' = [queue EXCEPT ![m] = Append(@, a)]
  /\ UNCHANGED <<status, block, net, stored, votes, metalogVars, subbatches, readerVars>>

\* GetGUID, doubled by the caller, never returns an id twice.
NewId(m) == <<m, Cardinality({id \in DOMAIN block : id[1] = m}) + 1>>

\* One BATCH for every replica, sent one after another (see Stop).
CutBlock(m, b) ==
  /\ status[m] = "running"
  /\ queue[m] # << >>
  /\ block' = Put(block, NewId(m), queue[m])
  /\ queue' = [queue EXCEPT ![m] = << >>]
  /\ net' = net \cup {Batch(BlucketMachine[b][r], NewId(m)) : r \in Replica}
  /\ UNCHANGED <<status, stored, votes, metalogVars, subbatches, readerVars>>

----------------------------------------------------------------------------
(***************************************************************************)
(* HandleMessage.  A thread that handles an RPC waits for Start() and      *)
(* drops the RPC when the app is stopped instead.                          *)
(***************************************************************************)
Handling(msg, type) ==
  /\ msg \in net /\ msg.type = type
  /\ status[msg.to] = "running"

Drop(msg) ==
  /\ msg \in net
  /\ status[msg.to] = "stopped"
  /\ net' = net \ {msg}
  /\ UNCHANGED <<status, clientVars, stored, votes, metalogVars, subbatches, readerVars>>

ItemAt(id, i) == [action |-> block[id][i], offset |-> i - 1]

Recipients(a, r) == {ShardMachine[s][r] : s \in ShardsOf[a]}

\* The numbers of a finite set, in increasing order: where SelectSeq finds its items.
InOrder(S) ==
  CHOOSE f \in [1 .. Cardinality(S) -> S] : \A i, j \in DOMAIN f : i < j => f[i] < f[j]

\* The part of a block that machine m of replica r gets, in the block's order.
Part(id, m, r) ==
  LET places == InOrder({i \in DOMAIN block[id] : m \in Recipients(block[id][i], r)})
  IN [k \in DOMAIN places |-> ItemAt(id, places[k])]

HandleBatch(msg) ==
  LET r == ReplicaOf[msg.to] IN
  /\ Handling(msg, "BATCH")
  /\ stored' = [stored EXCEPT ![msg.to] = @ \cup {msg.id}]
  /\ net' = (net \ {msg})
              \cup {Vote(msg.to, msg.id, Len(block[msg.id]))}
              \cup {Subbatch(m, msg.id, Part(msg.id, m, r)) : m \in MetadataMachines(r)}
  /\ UNCHANGED <<status, clientVars, votes, metalogVars, subbatches, readerVars>>

Votes(id) == IF id \in DOMAIN votes THEN votes[id] + 1 ELSE 1

\* (Mutant of CountVote: the counter is forgotten at the majority.)
CountVoteToMajority(id) ==
  votes' = IF Votes(id) = Cardinality(Replica) \div 2 + 1
           THEN [i \in DOMAIN votes \ {id} |-> votes[i]]
           ELSE Put(votes, id, Votes(id))

\* The counter is forgotten with the vote of the last replica.
CountVote(id) ==
  votes' = IF Votes(id) = Cardinality(Replica)
           THEN [i \in DOMAIN votes \ {id} |-> votes[i]]
           ELSE Put(votes, id, Votes(id))

NextVersion ==
  IF requested = << >> THEN 1 ELSE Last(versions) + Last(requested).count

\* paxos_leader_->Append.
AppendPair(pair) ==
  /\ requested' = Append(requested, pair)
  /\ versions' = Append(versions, NextVersion)

\* (Mutants of MajorityVote: the first vote, and the last.)
FirstVote == 1
LastVote  == Cardinality(Replica)

MajorityVote == Cardinality(Replica) \div 2 + 1

\* (Mutant of HandleVote: every vote from the majority on submits the block.)
HandleVoteAgain(msg) ==
  /\ Handling(msg, "VOTE")
  /\ net' = net \ {msg}
  /\ CountVote(msg.id)
  /\ IF Votes(msg.id) >= MajorityVote
     THEN AppendPair([id |-> msg.id, count |-> msg.count])
     ELSE UNCHANGED <<requested, versions>>
  /\ UNCHANGED <<status, clientVars, stored, chosen, learned, subbatches, readerVars>>

HandleVote(msg) ==
  /\ Handling(msg, "VOTE")
  /\ net' = net \ {msg}
  /\ CountVote(msg.id)
  /\ IF Votes(msg.id) = MajorityVote
     THEN AppendPair([id |-> msg.id, count |-> msg.count])
     ELSE UNCHANGED <<requested, versions>>
  /\ UNCHANGED <<status, clientVars, stored, chosen, learned, subbatches, readerVars>>

HandleSubbatch(msg) ==
  /\ Handling(msg, "SUBBATCH")
  /\ net' = net \ {msg}
  /\ subbatches' = [subbatches EXCEPT ![msg.to] = @ \cup {[id |-> msg.id, items |-> msg.items]}]
  /\ UNCHANGED <<status, clientVars, stored, votes, metalogVars, readerVars>>

----------------------------------------------------------------------------
(***************************************************************************)
(* The metalog.                                                            *)
(***************************************************************************)
\* Pairs in the entries: the last entry begins at the pair of its version.
Sequenced ==
  IF chosen = << >> THEN 0
  ELSE (CHOOSE n \in DOMAIN versions : versions[n] = Last(chosen).version)
         + Len(Last(chosen).pairs) - 1

\* The pairs requested so far, up to the n-th, become an entry.
ChooseEntry(n) ==
  /\ n > Sequenced
  /\ chosen' = Append(chosen, [version |-> versions[Sequenced + 1],
                               pairs |-> SubSeq(requested, Sequenced + 1, n)])
  /\ UNCHANGED <<status, clientVars, net, stored, votes, requested, versions, learned,
                 subbatches, readerVars>>

LearnEntry(r) ==
  /\ learned[r] < Len(chosen)
  /\ learned' = [learned EXCEPT ![r] = @ + 1]
  /\ UNCHANGED <<status, clientVars, net, stored, votes, requested, versions, chosen,
                 subbatches, readerVars>>

----------------------------------------------------------------------------
(***************************************************************************)
(* ActionSource::Get, called by the scheduler of metadata machine m: one   *)
(* action per stage of its loop, for a sub-batch may arrive in between.    *)
(***************************************************************************)
\* Which block is next: SequenceSource::Get.  It fetches an entry if it has
\* none, and gives it back with its last pair.
NextBlock(m) ==
  LET fresh  == source[m].next = 0
      number == source[m].entries + (IF fresh THEN 1 ELSE 0)
      index  == IF fresh THEN 1 ELSE source[m].next
      entry  == chosen[number]
      pair   == entry.pairs[index]
      offset == IF fresh THEN AsInt(entry.version) ELSE source[m].offset
  IN
  /\ status[m] = "running"
  /\ current[m] = Idle
  /\ number <= learned[ReplicaOf[m]]
  /\ current' = [current EXCEPT ![m] = [id |-> pair.id, version |-> AsUint(offset)]]
  /\ source' = [source EXCEPT ![m] =
       [entries |-> number,
        next |-> IF index = Len(entry.pairs) THEN 0 ELSE index + 1,
        offset |-> AsInt(offset + pair.count)]]
  /\ UNCHANGED <<status, clientVars, net, stored, votes, metalogVars, subbatches,
                 subbatch, handed>>

\* The sub-batch is empty or used up: erase it.
Finish(m) ==
  /\ current' = [current EXCEPT ![m] = Idle]
  /\ subbatches' = [subbatches EXCEPT ![m] = {s \in @ : s.id # current[m].id}]

\* The first of these items is returned, the others are left for later.
Return(m, items) ==
  /\ handed' = [handed EXCEPT ![m] =
       Append(@, [action |-> Head(items).action,
                  version |-> AsUint(current[m].version + Head(items).offset)])]
  /\ subbatch' = [subbatch EXCEPT ![m] = Tail(items)]
  /\ IF Tail(items) = << >> THEN Finish(m) ELSE UNCHANGED <<current, subbatches>>

\* (Mutant of FindSubbatch: any sub-batch that is there will do.)
FindAnySubbatch(m) ==
  /\ status[m] = "running"
  /\ subbatch[m] = << >>
  /\ current[m] # Idle
  /\ \E s \in subbatches[m] :
       IF s.items = << >>
       THEN Finish(m) /\ UNCHANGED <<subbatch, handed>>
       ELSE Return(m, s.items)
  /\ UNCHANGED <<status, clientVars, net, stored, votes, metalogVars, source>>

\* The sub-batch of the current block is there.
FindSubbatch(m) ==
  /\ status[m] = "running"
  /\ subbatch[m] = << >>
  /\ \E s \in subbatches[m] :
       /\ s.id = current[m].id
       /\ IF s.items = << >>
          THEN Finish(m) /\ UNCHANGED <<subbatch, handed>>
          ELSE Return(m, s.items)
  /\ UNCHANGED <<status, clientVars, net, stored, votes, metalogVars, source>>

NextItem(m) ==
  /\ status[m] = "running"
  /\ subbatch[m] # << >>
  /\ Return(m, subbatch[m])
  /\ UNCHANGED <<status, clientVars, net, stored, votes, metalogVars, source>>

----------------------------------------------------------------------------
MainLoop(m) == \E b \in Blucket : CutBlock(m, b)

Handler(msg) == HandleBatch(msg) \/ HandleVote(msg) \/ HandleSubbatch(msg) \/ Drop(msg)

\* (A bound: a sub-batch for a machine that is not Scheduled stays on its way,
\* for nobody would look at it.)
Deliverable == {msg \in net : msg.type = "SUBBATCH" => msg.to \in Scheduled}

Get(m) == NextBlock(m) \/ FindSubbatch(m) \/ NextItem(m)

Next ==
  \/ \E m \in Machine : Start(m) \/ Stop(m) \/ MainLoop(m)
  \/ \E a \in Action : \E m \in Client[a] : AppendAction(m, a)
  \/ \E msg \in Deliverable : Handler(msg)
  \/ \E n \in DOMAIN requested : ChooseEntry(n)
  \/ \E m \in Scheduled : LearnEntry(ReplicaOf[m]) \/ Get(m)

Spec == Init /\ [][Next]_vars

\* Every machine comes to its loop, its loop and its scheduler's go on, pool
\* threads handle what arrives, and the metalog keeps its promise.
FairSpec ==
  /\ Spec
  /\ \A m \in Machine : WF_vars(Start(m)) /\ WF_vars(MainLoop(m))
  /\ WF_vars(\E msg \in Deliverable : Handler(msg))
  /\ WF_vars(\E n \in DOMAIN requested : ChooseEntry(n))
  /\ \A m \in Scheduled : WF_vars(LearnEntry(ReplicaOf[m])) /\ WF_vars(Get(m))

----------------------------------------------------------------------------
(***************************************************************************)
(* Properties.                                                             *)
(***************************************************************************)
\* The global log: the actions of the blocks in the metalog, each with the
\* version at which the metalog has it.
LoggedBlock(i) ==
  LET id == requested[i].id IN
  {[action |-> block[id][j], version |-> versions[i] + j - 1] : j \in DOMAIN block[id]}

GlobalLog == UNION {LoggedBlock(i) : i \in 1 .. Sequenced}

\* All replicas' schedulers are handed one log: in its order, with increasing
\* versions, every action exactly on the machines whose shards it touches,
\* however votes, sub-batches and metalog entries race.
ReplicatedLog == INSTANCE ActionLog WITH
  log <- GlobalLog,
  Concerns <- [m \in Reader |-> {a \in Action : m \in Recipients(a, ReplicaOf[m])}]

HandsOutOneLog == ReplicatedLog!AbsSpec

\* The votes put every block into the metalog at most once and never out of
\* turn: what Paxos2 assumes of its callers, and what SequencedLog promises.
Metalog == INSTANCE SequencedLog WITH Participant <- Replica, Request <- Pair

UsesMetalogOnce == Metalog!AbsSpec

\* A block in the metalog is in the block stores of a majority of replicas.
SequencedIsStored ==
  \A i \in DOMAIN requested :
    LET holders == {ReplicaOf[m] : m \in {n \in Machine : requested[i].id \in stored[n]}}
    IN 2 * Cardinality(holders) > Cardinality(Replica)

\* A vote counter exists only while votes are outstanding (or were dropped by
\* a machine that stopped): batch_votes_ does not grow with the log.
VotesAreForgotten ==
  \A id \in DOMAIN votes :
    \/ \E msg \in net : msg.id = id /\ msg.type \in {"BATCH", "VOTE"}
    \/ \E m \in Machine : status[m] = "stopped"

\* A sub-batch that is used up is gone: what is still in subbatches_ has not
\* been handed over, or is being handed over now.
UsedSubbatchesAreErased ==
  \A m \in Reader : \A s \in subbatches[m] :
    \/ s.id = current[m].id
    \/ \A i \in DOMAIN s.items : \A j \in DOMAIN handed[m] :
         handed[m][j].action # s.items[i].action

\* The variables have their types, and what is used up is given back.
Consistent == TypeOK /\ VotesAreForgotten /\ UsedSubbatchesAreErased

\* An appended action is handed to every machine it concerns, unless
\*   - its origin or the leader has stopped,
\*   - a machine of the replica has, or too many replicas have lost a machine,
\*   - the metalog has a block that the replica never gets: its origin stopped
\*     before the replica's BATCH was sent and after those of a majority.
\* In the last case the action may be anybody's, and nothing has stopped that
\* it needs: every ActionSource of the replica waits for a sub-batch of that
\* block and hands out nothing any more.
StoppedReplicas == {ReplicaOf[m] : m \in {n \in Machine : status[n] = "stopped"}}

NeverGets(r, id) ==
  /\ status[id[1]] = "stopped"
  /\ \A m \in Machine : ReplicaOf[m] = r => id \notin stored[m]
  /\ \A msg \in net : msg.type = "BATCH" /\ msg.id = id => ReplicaOf[msg.to] # r

Excused(c, m) ==
  \/ status[c] = "stopped" \/ status[Leader] = "stopped"
  \/ ReplicaOf[m] \in StoppedReplicas
  \/ 2 * Cardinality(StoppedReplicas) >= Cardinality(Replica)
  \/ \E i \in DOMAIN requested : NeverGets(ReplicaOf[m], requested[i].id)

HandedTo(m, a) == \E j \in DOMAIN handed[m] : handed[m][j].action = a

AppendedIsHanded ==
  \A a \in Action : \A c \in Client[a], m \in Scheduled :
    m \in Recipients(a, ReplicaOf[m]) =>
      (a \in ToSet(queue[c]) ~> HandedTo(m, a) \/ Excused(c, m))
=============================================================================
