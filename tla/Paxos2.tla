------------------------------- MODULE Paxos2 -------------------------------
(***************************************************************************)
(* The metalog: Paxos2App of components/log/paxos2.cc.                     *)
(*                                                                         *)
(* participants_[0] is the leader for good.  It collects the APPEND        *)
(* requests of all machines, proposes them as one batch, waits for acks    *)
(* from a quorum (itself included), tells the followers to commit, appends *)
(* the batch to its own log and starts over.  There is no election and no  *)
(* recovery: a participant that stops stays stopped.                       *)
(*                                                                         *)
(* RPCs go through a thread pool and are handled in any order.  DATA       *)
(* messages go through one FIFO socket per pair of machines and one inbox. *)
(* ACKs increment the counter whose address they carry; counters are never *)
(* freed.  acks[n] is the counter of the n-th proposal.                    *)
(***************************************************************************)
EXTENDS Naturals, Sequences, FiniteSets, SequencesExt

CONSTANTS
  Participant,  \* the machines that run paxos2
  Leader,       \* participants_[0]
  Request,      \* the (block id, count) pairs that are appended
  CountOf,      \* request -> its count, the number of actions in the block
  MaxStops      \* bound on the participants that stop

ASSUME Paxos2Assumption ==
  /\ IsFiniteSet(Participant)
  /\ Leader \in Participant
  /\ CountOf \in [Request -> Nat \ {0}]
  /\ MaxStops \in Nat

VARIABLES
  up,           \* participants still running
  submitted,    \* requests for which Append was called
  sequence,     \* leader: sequence_, the batch being collected
  count,        \* leader: count_
  nextVersion,  \* leader: next_version
  pc,           \* leader: where RunLeader is
  toSend,       \* leader: followers the current message still has to go to
  proposals,    \* the entries proposed so far; the last one is the current
  acks,         \* the ack counters, one per proposal
  ackNet,       \* ACKs on their way: records [from, round, for]
  channel,      \* follower -> inbox "paxos2", with what is still in the socket
  uncommitted,  \* follower: the queue of proposals not committed
  log           \* participant -> entries appended to its log_

leaderVars == <<sequence, count, nextVersion, pc, toSend, proposals>>
netVars    == <<acks, ackNet, channel>>
vars == <<up, submitted, leaderVars, netVars, uncommitted, log>>

Follower == Participant \ {Leader}

\* (Mutants of Quorum: half, and all.)
Half == Cardinality(Participant) \div 2
All  == Cardinality(Participant)

Quorum   == Cardinality(Participant) \div 2 + 1
Entry    == [version : Nat, pairs : Seq(Request)]

Round   == Len(proposals)      \* number of the current proposal
Current == proposals[Round]

Proposal(e, n) == [type |-> "proposal", entry |-> e, round |-> n]
CommitFor(n)   == [type |-> "commit", round |-> n]

TypeOK ==
  /\ up \in SUBSET Participant
  /\ submitted \in SUBSET Request
  /\ sequence \in Seq(Request)
  /\ count \in Nat /\ nextVersion \in Nat
  /\ pc \in {"idle", "proposing", "collecting", "committing"}
  /\ toSend \in SUBSET Follower
  /\ proposals \in Seq(Entry)
  /\ acks \in [1 .. Round -> 0 .. 2 * Cardinality(Participant)]
  /\ ackNet \in SUBSET [from : Follower, round : 1 .. Round, for : {"proposal", "commit"}]
  /\ \A f \in Follower :
       /\ \A i \in DOMAIN channel[f] :
            channel[f][i] \in {Proposal(proposals[n], n) : n \in 1 .. Round}
                              \cup {CommitFor(n) : n \in 1 .. Round}
       /\ uncommitted[f] \in Seq(Entry)
  /\ log \in [Participant -> Seq(Entry)]

Init ==
  /\ up = Participant
  /\ submitted = {}
  /\ sequence = << >> /\ count = 0 /\ nextVersion = 1
  /\ pc = "idle" /\ toSend = {}
  /\ proposals = << >>
  /\ acks = << >> /\ ackNet = {}
  /\ channel = [f \in Follower |-> << >>]
  /\ uncommitted = [f \in Follower |-> << >>]
  /\ log = [p \in Participant |-> << >>]

----------------------------------------------------------------------------
(***************************************************************************)
(* The leader.                                                             *)
(***************************************************************************)
\* (Mutant of HandleAppend: count_ counts blocks, not their actions.)
AppendCountsBlocks(r) ==
  /\ Leader \in up
  /\ r \notin submitted
  /\ submitted' = submitted \cup {r}
  /\ sequence' = Append(sequence, r)
  /\ count' = count + 1
  /\ UNCHANGED <<up, nextVersion, pc, toSend, proposals, netVars, uncommitted, log>>

\* HandleOtherMessages, on an APPEND: one request joins the batch.
HandleAppend(r) ==
  /\ Leader \in up
  /\ r \notin submitted
  /\ submitted' = submitted \cup {r}
  /\ sequence' = Append(sequence, r)
  /\ count' = count + CountOf[r]
  /\ UNCHANGED <<up, nextVersion, pc, toSend, proposals, netVars, uncommitted, log>>

\* (Mutant of Propose: the batch is not cleared.)
ProposeAgain ==
  /\ Leader \in up
  /\ pc = "idle"
  /\ count # 0
  /\ nextVersion' = nextVersion + count
  /\ proposals' = Append(proposals, [version |-> nextVersion, pairs |-> sequence])
  /\ count' = 0
  /\ acks' = Append(acks, 1)
  /\ toSend' = Follower
  /\ pc' = "proposing"
  /\ UNCHANGED <<up, submitted, sequence, ackNet, channel, uncommitted, log>>

\* Take the batch and its version numbers, under the mutex.
Propose ==
  /\ Leader \in up
  /\ pc = "idle"
  /\ count # 0
  /\ nextVersion' = nextVersion + count
  /\ proposals' = Append(proposals, [version |-> nextVersion, pairs |-> sequence])
  /\ count' = 0
  /\ sequence' = << >>
  /\ acks' = Append(acks, 1)
  /\ toSend' = Follower
  /\ pc' = "proposing"
  /\ UNCHANGED <<up, submitted, ackNet, channel, uncommitted, log>>

\* (Mutant of Send: the latest message arrives first.)
SendUnordered(f, m) ==
  /\ f \in toSend
  /\ toSend' = toSend \ {f}
  /\ channel' = [channel EXCEPT ![f] = << m >> \o @]

Send(f, m) ==
  /\ f \in toSend
  /\ toSend' = toSend \ {f}
  /\ channel' = [channel EXCEPT ![f] = Append(@, m)]

SendProposal(f) ==
  /\ Leader \in up
  /\ pc = "proposing"
  /\ Send(f, Proposal(Current, Round))
  /\ UNCHANGED <<up, submitted, sequence, count, nextVersion, pc, proposals,
                 acks, ackNet, uncommitted, log>>

ProposalSent ==
  /\ Leader \in up
  /\ pc = "proposing"
  /\ toSend = {}
  /\ pc' = "collecting"
  /\ UNCHANGED <<up, submitted, sequence, count, nextVersion, toSend, proposals,
                 netVars, uncommitted, log>>

QuorumReached ==
  /\ Leader \in up
  /\ pc = "collecting"
  /\ acks[Round] >= Quorum
  /\ toSend' = Follower
  /\ pc' = "committing"
  /\ UNCHANGED <<up, submitted, sequence, count, nextVersion, proposals,
                 netVars, uncommitted, log>>

\* The commit message carries the same counter: the connection thread of f
\* acks it on delivery, whether or not f's loop ever takes it.
SendCommit(f) ==
  /\ Leader \in up
  /\ pc = "committing"
  /\ Send(f, CommitFor(Round))
  /\ ackNet' = ackNet \cup {[from |-> f, round |-> Round, for |-> "commit"]}
  /\ UNCHANGED <<up, submitted, sequence, count, nextVersion, pc, proposals,
                 acks, uncommitted, log>>

LeaderCommits ==
  /\ Leader \in up
  /\ pc = "committing"
  /\ toSend = {}
  /\ log' = [log EXCEPT ![Leader] = Append(@, Current)]
  /\ pc' = "idle"
  /\ UNCHANGED <<up, submitted, sequence, count, nextVersion, toSend, proposals,
                 netVars, uncommitted>>

\* The connection thread delivers an ACK to its counter.
DeliverAck(a) ==
  /\ Leader \in up
  /\ a \in ackNet
  /\ ackNet' = ackNet \ {a}
  /\ acks' = [acks EXCEPT ![a.round] = @ + 1]
  /\ UNCHANGED <<up, submitted, leaderVars, channel, uncommitted, log>>

----------------------------------------------------------------------------
(***************************************************************************)
(* A follower takes the next message of its inbox.                         *)
(***************************************************************************)
Receive(f, type) ==
  /\ f \in up
  /\ channel[f] # << >>
  /\ Head(channel[f]).type = type
  /\ channel' = [channel EXCEPT ![f] = Tail(@)]

AcceptProposal(f) ==
  /\ Receive(f, "proposal")
  /\ uncommitted' = [uncommitted EXCEPT ![f] = Append(@, Head(channel[f]).entry)]
  /\ ackNet' = ackNet \cup {[from |-> f, round |-> Head(channel[f]).round, for |-> "proposal"]}
  /\ UNCHANGED <<up, submitted, leaderVars, acks, log>>

\* A commit message does not say what it commits: it is the oldest proposal.
FollowerCommits(f) ==
  /\ Receive(f, "commit")
  /\ uncommitted[f] # << >>
  /\ log' = [log EXCEPT ![f] = Append(@, Head(uncommitted[f]))]
  /\ uncommitted' = [uncommitted EXCEPT ![f] = Tail(@)]
  /\ UNCHANGED <<up, submitted, leaderVars, acks, ackNet>>

\* Stop(), or the process dies.
Stop(p) ==
  /\ p \in up
  /\ Cardinality(Participant \ up) < MaxStops
  /\ up' = up \ {p}
  /\ UNCHANGED <<submitted, leaderVars, netVars, uncommitted, log>>

LeaderStep ==
  \/ Propose
  \/ \E f \in Follower : SendProposal(f) \/ SendCommit(f)
  \/ ProposalSent \/ QuorumReached \/ LeaderCommits

FollowerStep(f) == AcceptProposal(f) \/ FollowerCommits(f)

Next ==
  \/ \E r \in Request : HandleAppend(r)
  \/ LeaderStep
  \/ \E a \in ackNet : DeliverAck(a)
  \/ \E f \in Follower : FollowerStep(f)
  \/ \E p \in Participant : Stop(p)

Spec == Init /\ [][Next]_vars

\* The loops of running participants go on, and what is sent to a running
\* participant arrives.  Nothing says that a request is ever appended.
FairSpec ==
  /\ Spec
  /\ WF_vars(LeaderStep)
  /\ \A f \in Follower : WF_vars(FollowerStep(f))
  /\ WF_vars(\E a \in ackNet : DeliverAck(a))

----------------------------------------------------------------------------
(***************************************************************************)
(* Properties.                                                             *)
(***************************************************************************)
\* Entries some participant was told, or decided, to commit.
Decided == IF pc = "committing" THEN Round
           ELSE IF pc = "idle" THEN Round ELSE Round - 1

IsMajority(S) == 2 * Cardinality(S) > Cardinality(Participant)

Knows(p, n) ==
  IF p = Leader THEN n <= Round
  ELSE \/ n \in DOMAIN log[p]
       \/ \E i \in DOMAIN uncommitted[p] : uncommitted[p][i] = proposals[n]

\* Whatever is in any log is in the memory of a majority of the participants,
\* the stopped ones included, although acks are counted and not named, arrive
\* late, and are also sent for commits.
CommittedIsOnQuorum ==
  \A p \in Participant : \A n \in DOMAIN log[p] :
    /\ log[p][n] = proposals[n]
    /\ IsMajority({q \in Participant : Knows(q, n)})

\* A commit always finds its proposal: FIFO delivery makes the CHECK hold, and
\* a follower never has two proposals open.
CommitFindsProposal ==
  \A f \in Follower :
    /\ Len(uncommitted[f]) <= 1
    /\ channel[f] # << >> =>
         (Head(channel[f]).type = "commit" <=> uncommitted[f] # << >>)

\* The entries of every log number the actions of their blocks without a gap
\* and without an overlap: an entry's version is one more than the number of
\* actions in all the entries before it.  An action is a place in a block, the
\* block a place in the batch.
Actions(s) == UNION {{i} \X (1 .. CountOf[s[i]]) : i \in DOMAIN s}

ActionsIn(e) == Cardinality(Actions(e.pairs))

VersionsAreContiguous ==
  \A p \in Participant : \A n \in DOMAIN log[p] :
    log[p][n].version = IF n = 1 THEN 1
                        ELSE log[p][n - 1].version + ActionsIn(log[p][n - 1])

\* The variables have their types, and the logs no gaps.
Consistent == TypeOK /\ VersionsAreContiguous

\* The participants' logs are prefixes of one sequence that only grows.
Metalog == INSTANCE SequencedLog WITH
  chosen  <- SubSeq(proposals, 1, Decided),
  learned <- [p \in Participant |-> Len(log[p])]

IsSequencedLog == Metalog!AbsSpec

\* With a running leader and a running majority, every appended request
\* reaches the log of every participant that keeps running.
InLog(p, r) == \E n \in DOMAIN log[p] : Metalog!InEntry(log[p][n], r)

MajorityUp == Leader \in up /\ IsMajority(up)

AppendsReachRunningLogs ==
  \A r \in Request, p \in Participant :
    r \in submitted ~> (InLog(p, r) \/ p \notin up \/ ~ MajorityUp)
=============================================================================
