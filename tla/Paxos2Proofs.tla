---------------------------- MODULE Paxos2Proofs ----------------------------
(***************************************************************************)
(* The metalog is safe for any number of participants and requests: what   *)
(* is in a log is known to a majority, commits find their proposals, and   *)
(* the logs are prefixes of one sequence.                                  *)
(*                                                                         *)
(* The argument is about streams.  Everything the leader sends to a        *)
(* follower is P1, C1, P2, C2, ... (proposal and commit of each round), and *)
(* Sent(f) and Received(f) say how far sending and receiving have come.    *)
(***************************************************************************)
EXTENDS Paxos2, FiniteSetTheorems, SequenceTheorems, TLAPS

Message == [type : {"proposal"}, entry : Entry, round : Nat] \cup [type : {"commit"}, round : Nat]

Types ==
  /\ up \in SUBSET Participant
  /\ submitted \in SUBSET Request
  /\ sequence \in Seq(Request)
  /\ count \in Nat /\ nextVersion \in Nat
  /\ pc \in {"idle", "proposing", "collecting", "committing"}
  /\ pc # "idle" => Round > 0
  /\ toSend \in SUBSET Follower
  /\ proposals \in Seq(Entry)
  /\ acks \in Seq(Nat) /\ Len(acks) = Round
  /\ ackNet \in SUBSET [from : Follower, round : 1 .. Round, for : {"proposal", "commit"}]
  /\ channel \in [Follower -> Seq(Message)]
  /\ uncommitted \in [Follower -> Seq(Entry)]
  /\ log \in [Participant -> Seq(Entry)]

\* How many messages the leader has sent to f, and f has taken.
Sent(f) ==
  IF pc = "idle" THEN 2 * Round
  ELSE IF pc = "collecting" THEN 2 * Round - 1
  ELSE IF pc = "proposing" THEN IF f \in toSend THEN 2 * Round - 2 ELSE 2 * Round - 1
  ELSE IF f \in toSend THEN 2 * Round - 1 ELSE 2 * Round

Received(f) == 2 * Len(log[f]) + Len(uncommitted[f])

\* m is the k-th message of the stream.
InStream(m, k) ==
  \E n \in 1 .. Round : \/ k = 2 * n - 1 /\ m = Proposal(proposals[n], n)
                        \/ k = 2 * n /\ m = CommitFor(n)

\* What f holds and what is on its way to f is the stream up to Sent(f).
FollowsStream(f) ==
  /\ Len(uncommitted[f]) <= 1
  /\ Received(f) + Len(channel[f]) = Sent(f)
  /\ \A i \in DOMAIN channel[f] : InStream(channel[f][i], Received(f) + i)
  /\ \A n \in DOMAIN log[f] : n <= Round /\ log[f][n] = proposals[n]
  /\ \A i \in DOMAIN uncommitted[f] :
       Len(log[f]) + 1 <= Round /\ uncommitted[f][i] = proposals[Len(log[f]) + 1]

LeaderFollows ==
  /\ Len(log[Leader]) = IF pc = "idle" THEN Round ELSE Round - 1
  /\ \A n \in DOMAIN log[Leader] : log[Leader][n] = proposals[n]

\* The followers that have taken proposal n, that were sent commit n, and
\* whose acks for these were counted.
Accepted(n)   == {f \in Follower : Received(f) >= 2 * n - 1}
CommitSent(n) == {f \in Follower : Sent(f) >= 2 * n}

Ack(f, n, kind) == [from |-> f, round |-> n, for |-> kind]

AckedProposal(n) == {f \in Accepted(n) : Ack(f, n, "proposal") \notin ackNet}
AckedCommit(n)   == {f \in CommitSent(n) : Ack(f, n, "commit") \notin ackNet}

\* A counter holds the leader's own ack and the acks that were delivered.
AcksCounted ==
  /\ \A n \in 1 .. Round :
       acks[n] = 1 + Cardinality(AckedProposal(n)) + Cardinality(AckedCommit(n))
  /\ \A a \in ackNet : a.from \in IF a.for = "proposal" THEN Accepted(a.round)
                                                        ELSE CommitSent(a.round)

Streams == LeaderFollows /\ \A f \in Follower : FollowsStream(f)

----------------------------------------------------------------------------
LEMMA Parity ==
  ASSUME NEW l \in Nat, NEW u \in Nat, NEW n \in Nat, u <= 1
  PROVE  /\ (2 * l + u) + 1 = 2 * n - 1 => u = 0 /\ n = l + 1
         /\ (2 * l + u) + 1 = 2 * n => u = 1 /\ n = l + 1
<1>1. CASE u = 0
  BY <1>1
<1>2. CASE u = 1
  BY <1>2
<1>3. QED BY <1>1, <1>2

LEMMA Halves ==
  ASSUME NEW l \in Nat, NEW u \in Nat, NEW n \in Nat
  PROVE  /\ 2 * l + u <= 2 * n + 1 => l <= n
         /\ u <= 1 /\ 2 * l + u >= 2 * n - 1 /\ n > l => n = l + 1 /\ u = 1
<1>1. ASSUME 2 * l + u <= 2 * n + 1 PROVE l <= n
  BY <1>1
<1>2. ASSUME u <= 1, 2 * l + u >= 2 * n - 1, n > l PROVE n = l + 1 /\ u = 1
  <2>1. CASE u = 0
    BY <1>2, <2>1
  <2>2. CASE u = 1
    BY <1>2, <2>2
  <2>3. QED BY <1>2, <2>1, <2>2
<1>3. QED BY <1>1, <1>2

LEMMA Counting ==
  ASSUME NEW l \in Nat, NEW u \in Nat
  PROVE  /\ 2 * l + u \in Nat
         /\ 2 * l + 1 = (2 * l + 0) + 1 /\ 2 * (l + 1) + 0 = (2 * l + 1) + 1
OBVIOUS

LEMMA TailFacts ==
  ASSUME NEW S, NEW s \in Seq(S), s # << >>
  PROVE  /\ Tail(s) \in Seq(S) /\ Len(Tail(s)) = Len(s) - 1 /\ Len(s) \in Nat \ {0}
         /\ Len(s) = 1 => Tail(s) = << >>
         /\ \A i \in DOMAIN Tail(s) : i \in Nat /\ i + 1 \in DOMAIN s /\ Tail(s)[i] = s[i + 1]
OBVIOUS

LEMMA AppendFacts ==
  ASSUME NEW S, NEW s \in Seq(S), NEW e
  PROVE  /\ Len(Append(s, e)) = Len(s) + 1 /\ Len(s) \in Nat
         /\ DOMAIN Append(s, e) = 1 .. (Len(s) + 1) /\ DOMAIN s = 1 .. Len(s)
         /\ Append(s, e)[Len(s) + 1] = e
         /\ \A i \in 1 .. Len(s) : Append(s, e)[i] = s[i]
OBVIOUS

LEMMA PrefixFacts ==
  ASSUME NEW S, NEW s \in Seq(S), NEW d \in Nat, d <= Len(s)
  PROVE  /\ SubSeq(s, 1, d) \in Seq(S) /\ Len(SubSeq(s, 1, d)) = d
         /\ \A i \in 1 .. d : SubSeq(s, 1, d)[i] = s[i]
         /\ d < Len(s) => SubSeq(s, 1, d + 1) = Append(SubSeq(s, 1, d), s[d + 1]) /\ s[d + 1] \in S
         /\ \A e : SubSeq(Append(s, e), 1, d) = SubSeq(s, 1, d)
OBVIOUS

LEMMA InitStreams == Init => Types /\ Streams
<1> SUFFICES ASSUME Init PROVE Types /\ Streams
  OBVIOUS
<1>1. Types
  BY DEF Init, Types, Round
<1>2. Streams
  BY Paxos2Assumption DEF Init, Streams, LeaderFollows, FollowsStream, Sent, Received, Round, Follower
<1>3. QED BY <1>1, <1>2

\* The next message f takes is the one after those it has received.
LEMMA NextMessage ==
  ASSUME Types, Streams, NEW f \in Follower, channel[f] # << >>
  PROVE  /\ InStream(Head(channel[f]), Received(f) + 1)
         /\ Head(channel[f]).type = "proposal" =>
              /\ uncommitted[f] = << >> /\ Len(log[f]) + 1 <= Round
              /\ Head(channel[f]) = Proposal(proposals[Len(log[f]) + 1], Len(log[f]) + 1)
         /\ Head(channel[f]).type = "commit" =>
              /\ Len(uncommitted[f]) = 1 /\ Len(log[f]) + 1 <= Round
              /\ Head(channel[f]) = CommitFor(Len(log[f]) + 1)
              /\ Head(uncommitted[f]) = proposals[Len(log[f]) + 1]
<1>1. /\ channel[f] \in Seq(Message) /\ uncommitted[f] \in Seq(Entry)
      /\ log[f] \in Seq(Entry) /\ proposals \in Seq(Entry)
  BY DEF Types, Follower
<1>2. FollowsStream(f)
  BY DEF Streams
<1>3. Head(channel[f]) = channel[f][1] /\ 1 \in DOMAIN channel[f]
  BY <1>1
<1>4. InStream(Head(channel[f]), Received(f) + 1)
  BY <1>2, <1>3 DEF FollowsStream
<1>5. PICK n \in 1 .. Round :
        \/ Received(f) + 1 = 2 * n - 1 /\ Head(channel[f]) = Proposal(proposals[n], n)
        \/ Received(f) + 1 = 2 * n /\ Head(channel[f]) = CommitFor(n)
  BY <1>4 DEF InStream
<1>6. /\ Len(log[f]) \in Nat /\ Len(uncommitted[f]) \in Nat /\ Len(uncommitted[f]) <= 1
      /\ Round \in Nat /\ n \in Nat
  BY <1>1, <1>2 DEF FollowsStream, Round
<1>7. CASE Received(f) + 1 = 2 * n - 1 /\ Head(channel[f]) = Proposal(proposals[n], n)
  <2>1. Len(uncommitted[f]) = 0 /\ n = Len(log[f]) + 1
    BY <1>6, <1>7, Parity DEF Received
  <2>2. uncommitted[f] = << >>
    BY <2>1, <1>1
  <2>3. Head(channel[f]).type = "proposal"
    BY <1>7 DEF Proposal
  <2>4. QED BY <2>1, <2>2, <2>3, <1>4, <1>7
<1>8. CASE Received(f) + 1 = 2 * n /\ Head(channel[f]) = CommitFor(n)
  <2>1. Len(uncommitted[f]) = 1 /\ n = Len(log[f]) + 1
    BY <1>6, <1>8, Parity DEF Received
  <2>2. Head(uncommitted[f]) = proposals[Len(log[f]) + 1]
    BY <2>1, <1>1, <1>2 DEF FollowsStream
  <2>3. Head(channel[f]).type = "commit"
    BY <1>8 DEF CommitFor
  <2>4. QED BY <2>1, <2>2, <2>3, <1>4, <1>8
<1>9. QED BY <1>5, <1>7, <1>8

----------------------------------------------------------------------------
LEMMA TypesInv == Types /\ Streams /\ [Next]_vars => Types'
<1> SUFFICES ASSUME Types, Streams, [Next]_vars PROVE Types'
  OBVIOUS
<1>1. ASSUME NEW r \in Request, HandleAppend(r) PROVE Types'
  BY <1>1, Paxos2Assumption DEF HandleAppend, Types, netVars, Round
<1>2. CASE Propose
  <2> DEFINE e == [version |-> nextVersion, pairs |-> sequence]
  <2>1. e \in Entry
    BY DEF Types, Entry
  <2>2. proposals' \in Seq(Entry) /\ Len(proposals') = Round + 1 /\ Round \in Nat
    BY <1>2, <2>1 DEF Propose, Types, Round
  <2>3. acks' \in Seq(Nat) /\ Len(acks') = Round + 1
    BY <1>2 DEF Propose, Types
  <2>4. ackNet' \in SUBSET [from : Follower, round : 1 .. Round', for : {"proposal", "commit"}]
    <3>1. 1 .. Round \subseteq 1 .. Round'
      BY <2>2 DEF Round
    <3>2. QED BY <3>1, <1>2 DEF Propose, Types
  <2>5. nextVersion' \in Nat /\ count' \in Nat /\ sequence' \in Seq(Request)
    BY <1>2 DEF Propose, Types
  <2>6. QED BY <1>2, <2>2, <2>3, <2>4, <2>5 DEF Propose, Types, Round
<1>3. ASSUME NEW f \in Follower, NEW m \in Message, Send(f, m)
      PROVE  channel' \in [Follower -> Seq(Message)] /\ toSend' \in SUBSET Follower
  <2>1. channel[f] \in Seq(Message)
    BY DEF Types
  <2>2. Append(channel[f], m) \in Seq(Message)
    BY <2>1
  <2>3. QED BY <1>3, <2>2 DEF Send, Types
<1>4. ASSUME NEW f \in Follower, SendProposal(f) PROVE Types'
  <2>1. Proposal(Current, Round) \in Message
    BY <1>4 DEF SendProposal, Types, Proposal, Message, Current, Round
  <2>2. channel' \in [Follower -> Seq(Message)] /\ toSend' \in SUBSET Follower
    BY <1>4, <2>1, <1>3 DEF SendProposal
  <2>3. QED BY <1>4, <2>2 DEF SendProposal, Types, Round
<1>5. ASSUME NEW f \in Follower, SendCommit(f) PROVE Types'
  <2>1. CommitFor(Round) \in Message /\ Round \in 1 .. Round
    BY <1>5 DEF SendCommit, Types, CommitFor, Message, Round
  <2>2. channel' \in [Follower -> Seq(Message)] /\ toSend' \in SUBSET Follower
    BY <1>5, <2>1, <1>3 DEF SendCommit
  <2>3. QED BY <1>5, <2>1, <2>2 DEF SendCommit, Types, Round
<1>6. CASE ProposalSent \/ QuorumReached
  BY <1>6 DEF ProposalSent, QuorumReached, Types, netVars, Round
<1>7. CASE LeaderCommits
  <2>1. Current \in Entry /\ log[Leader] \in Seq(Entry)
    BY <1>7, Paxos2Assumption DEF LeaderCommits, Types, Current, Round
  <2>2. log' \in [Participant -> Seq(Entry)]
    BY <2>1, <1>7 DEF LeaderCommits, Types
  <2>3. QED BY <1>7, <2>2 DEF LeaderCommits, Types, netVars, Round
<1>8. ASSUME NEW a \in ackNet, DeliverAck(a) PROVE Types'
  <2>1. a.round \in DOMAIN acks /\ acks \in Seq(Nat)
    BY DEF Types, Round
  <2>2. acks' \in Seq(Nat) /\ Len(acks') = Len(acks)
    BY <1>8, <2>1 DEF DeliverAck
  <2>3. QED BY <1>8, <2>2 DEF DeliverAck, Types, leaderVars, Round
<1>9. ASSUME NEW f \in Follower, NEW type, Receive(f, type)
      PROVE  channel' \in [Follower -> Seq(Message)] /\ Head(channel[f]) \in Message
  <2>1. channel[f] \in Seq(Message) /\ channel[f] # << >>
    BY <1>9 DEF Types, Receive
  <2>2. QED BY <1>9, <2>1 DEF Types, Receive
<1>10. ASSUME NEW f \in Follower, AcceptProposal(f) PROVE Types'
  <2>1. /\ Receive(f, "proposal") /\ channel[f] # << >>
        /\ Head(channel[f]).type = "proposal"
    BY <1>10 DEF AcceptProposal, Receive
  <2>2. /\ Head(channel[f]) = Proposal(proposals[Len(log[f]) + 1], Len(log[f]) + 1)
        /\ Len(log[f]) + 1 <= Round /\ Len(log[f]) \in Nat
    BY <2>1, NextMessage DEF Types, Follower
  <2>3. /\ Head(channel[f]).entry \in Entry
        /\ Head(channel[f]).round \in 1 .. Round
    <3>1. proposals \in Seq(Entry) /\ Len(log[f]) + 1 \in 1 .. Len(proposals)
      BY <2>2 DEF Types, Round
    <3>2. proposals[Len(log[f]) + 1] \in Entry
      BY <3>1
    <3>3. QED BY <2>2, <3>1, <3>2 DEF Proposal, Round
  <2>4. channel' \in [Follower -> Seq(Message)]
    BY <2>1, <1>9
  <2>5. uncommitted' \in [Follower -> Seq(Entry)]
    BY <1>10, <2>3 DEF AcceptProposal, Types
  <2>6. ackNet' \in SUBSET [from : Follower, round : 1 .. Round, for : {"proposal", "commit"}]
    BY <1>10, <2>3 DEF AcceptProposal, Types
  <2>7. QED BY <1>10, <2>4, <2>5, <2>6 DEF AcceptProposal, Types, leaderVars, Round
<1>11. ASSUME NEW f \in Follower, FollowerCommits(f) PROVE Types'
  <2>1. channel' \in [Follower -> Seq(Message)]
    BY <1>11, <1>9 DEF FollowerCommits
  <2>2. uncommitted[f] \in Seq(Entry) /\ uncommitted[f] # << >> /\ log[f] \in Seq(Entry)
    BY <1>11 DEF FollowerCommits, Types, Follower
  <2>3. Head(uncommitted[f]) \in Entry /\ Tail(uncommitted[f]) \in Seq(Entry)
    BY <2>2
  <2>4. uncommitted' \in [Follower -> Seq(Entry)] /\ log' \in [Participant -> Seq(Entry)]
    <3>1. Append(log[f], Head(uncommitted[f])) \in Seq(Entry)
      BY <2>2, <2>3
    <3>2. QED BY <1>11, <2>3, <3>1 DEF FollowerCommits, Types
  <2>5. QED BY <1>11, <2>1, <2>4 DEF FollowerCommits, Types, leaderVars, Round
<1>12. ASSUME NEW p \in Participant, Stop(p) PROVE Types'
  BY <1>12 DEF Stop, Types, leaderVars, netVars, Round
<1>13. CASE UNCHANGED vars
  BY <1>13 DEF vars, leaderVars, netVars, Types, Round
<1>14. QED BY <1>1, <1>2, <1>4, <1>5, <1>6, <1>7, <1>8, <1>10, <1>11, <1>12, <1>13
              DEF Next, LeaderStep, FollowerStep

----------------------------------------------------------------------------
\* A follower whose own state, and whose part of the stream, stay as they are.
LEMMA SameStream ==
  ASSUME NEW f \in Follower, FollowsStream(f), UNCHANGED proposals, Sent(f)' = Sent(f),
         channel'[f] = channel[f], uncommitted'[f] = uncommitted[f], log'[f] = log[f]
  PROVE  FollowsStream(f)'
BY DEF FollowsStream, Received, InStream, Round

\* Sending the next message of the stream.
LEMMA SendInStream ==
  ASSUME Types, Streams, NEW f \in Follower, NEW m, Send(f, m), UNCHANGED <<proposals, uncommitted, log>>,
         Sent(f)' = Sent(f) + 1, InStream(m, Sent(f) + 1),
         \A g \in Follower : g # f => Sent(g)' = Sent(g), UNCHANGED pc
  PROVE  Streams'
<1>1. channel[f] \in Seq(Message) /\ log[f] \in Seq(Entry) /\ uncommitted[f] \in Seq(Entry)
  BY DEF Types, Follower
<1>2. channel'[f] = Append(channel[f], m) /\ \A g \in Follower : g # f => channel'[g] = channel[g]
  BY DEF Send, Types
<1>3. FollowsStream(f)'
  <2>0. Len(log[f]) \in Nat /\ Len(uncommitted[f]) \in Nat
    BY <1>1
  <2>1. FollowsStream(f) /\ Received(f)' = Received(f) /\ Received(f) \in Nat
    <3>1. FollowsStream(f)
      BY DEF Streams
    <3>2. Received(f)' = Received(f)
      BY DEF Received
    <3>3. Received(f) \in Nat
      BY <2>0, Counting DEF Received
    <3>4. QED BY <3>1, <3>2, <3>3
  <2>2. Len(channel'[f]) = Len(channel[f]) + 1
    BY <1>1, <1>2
  <2>3. Received(f)' + Len(channel'[f]) = Sent(f)'
    BY <2>1, <2>2, <1>1 DEF FollowsStream
  <2>4. ASSUME NEW i \in DOMAIN channel'[f] PROVE InStream(channel'[f][i], Received(f) + i)
    <3>1. CASE i = Len(channel[f]) + 1
      BY <3>1, <2>1, <1>1, <1>2 DEF FollowsStream
    <3>2. CASE i # Len(channel[f]) + 1
      BY <3>2, <2>1, <1>1, <1>2 DEF FollowsStream
    <3>3. QED BY <3>1, <3>2
  <2>5. \A i \in DOMAIN channel'[f] : InStream(channel[f][i], Received(f) + i)'
    BY <2>1, <2>4 DEF InStream, Round
  <2>6. QED BY <2>1, <2>3, <2>5 DEF FollowsStream, Round
<1>4. ASSUME NEW g \in Follower, g # f PROVE FollowsStream(g)'
  BY <1>2, <1>4, SameStream DEF Streams
<1>5. LeaderFollows'
  BY DEF Streams, LeaderFollows, Round
<1>6. QED BY <1>3, <1>4, <1>5 DEF Streams

\* A follower takes the next message of the stream: it keeps a proposal, and
\* moves a proposal it keeps to its log when the commit arrives.
LEMMA TakesNext ==
  ASSUME Types, Streams, NEW f \in Follower, FollowerStep(f)
  PROVE  /\ channel[f] # << >> /\ channel'[f] = Tail(channel[f])
         /\ UNCHANGED <<pc, toSend, proposals>>
         /\ \A g \in Follower : Sent(g)' = Sent(g)
         /\ \A g \in Follower : g # f =>
              channel'[g] = channel[g] /\ uncommitted'[g] = uncommitted[g] /\ log'[g] = log[g]
         /\ log'[Leader] = log[Leader]
         /\ \/ /\ uncommitted[f] = << >> /\ Len(log[f]) + 1 <= Round
               /\ uncommitted'[f] = << proposals[Len(log[f]) + 1] >> /\ log'[f] = log[f]
            \/ /\ Len(uncommitted[f]) = 1 /\ Len(log[f]) + 1 <= Round
               /\ uncommitted'[f] = << >>
               /\ log'[f] = Append(log[f], proposals[Len(log[f]) + 1])
         /\ Received(f) \in Nat /\ Received(f)' = Received(f) + 1
<1>1. /\ channel[f] # << >> /\ channel' = [channel EXCEPT ![f] = Tail(@)]
      /\ UNCHANGED <<pc, toSend, proposals>>
  BY DEF FollowerStep, AcceptProposal, FollowerCommits, Receive, leaderVars
<1>2. /\ channel[f] \in Seq(Message) /\ log[f] \in Seq(Entry) /\ uncommitted[f] \in Seq(Entry)
      /\ channel'[f] = Tail(channel[f]) /\ f \in Participant /\ f # Leader
  BY <1>1 DEF Types, Follower
<1>3. /\ \A g \in Follower : g # f =>
            channel'[g] = channel[g] /\ uncommitted'[g] = uncommitted[g] /\ log'[g] = log[g]
      /\ log'[Leader] = log[Leader]
  BY <1>1, <1>2, Paxos2Assumption
     DEF FollowerStep, AcceptProposal, FollowerCommits, Types, Follower
<1>4. \A g \in Follower : Sent(g)' = Sent(g)
  BY <1>1 DEF Sent, Round
<1>5. \/ /\ uncommitted[f] = << >> /\ Len(log[f]) + 1 <= Round
         /\ uncommitted'[f] = << proposals[Len(log[f]) + 1] >> /\ log'[f] = log[f]
      \/ /\ Len(uncommitted[f]) = 1 /\ Len(log[f]) + 1 <= Round
         /\ uncommitted'[f] = << >>
         /\ log'[f] = Append(log[f], proposals[Len(log[f]) + 1])
  <2>1. CASE AcceptProposal(f)
    <3>1. Head(channel[f]).type = "proposal" /\ log' = log
          /\ uncommitted'[f] = Append(uncommitted[f], Head(channel[f]).entry)
      BY <2>1 DEF AcceptProposal, Receive, Types
    <3>2. /\ uncommitted[f] = << >> /\ Len(log[f]) + 1 <= Round
          /\ Head(channel[f]) = Proposal(proposals[Len(log[f]) + 1], Len(log[f]) + 1)
      BY <3>1, <1>1, NextMessage
    <3>3. QED BY <3>1, <3>2 DEF Proposal
  <2>2. CASE FollowerCommits(f)
    <3>1. Head(channel[f]).type = "commit" /\ uncommitted'[f] = Tail(uncommitted[f])
          /\ log'[f] = Append(log[f], Head(uncommitted[f]))
      BY <2>2, <1>2 DEF FollowerCommits, Receive, Types
    <3>2. /\ Len(uncommitted[f]) = 1 /\ Len(log[f]) + 1 <= Round
          /\ Head(uncommitted[f]) = proposals[Len(log[f]) + 1]
      BY <3>1, <1>1, NextMessage
    <3>3. Tail(uncommitted[f]) = << >>
      <4>1. uncommitted[f] # << >>
        BY <2>2 DEF FollowerCommits
      <4>2. QED BY <3>2, <4>1, <1>2, TailFacts
    <3>4. QED BY <3>1, <3>2, <3>3
  <2>3. QED BY <2>1, <2>2 DEF FollowerStep
<1>6. Received(f) \in Nat /\ Received(f)' = Received(f) + 1
  <2>1. Len(log[f]) \in Nat /\ Len(uncommitted[f]) \in Nat
    BY <1>2
  <2>2. \/ Len(uncommitted[f]) = 0 /\ Len(uncommitted'[f]) = 1 /\ Len(log'[f]) = Len(log[f])
        \/ Len(uncommitted[f]) = 1 /\ Len(uncommitted'[f]) = 0 /\ Len(log'[f]) = Len(log[f]) + 1
    <3>1. CASE uncommitted[f] = << >>
      <4>1. Len(uncommitted[f]) = 0 /\ Len(uncommitted[f]) # 1
        BY <3>1
      <4>2. Len(uncommitted'[f]) = 1 /\ log'[f] = log[f]
        BY <4>1, <1>5
      <4>3. QED BY <4>1, <4>2
    <3>2. CASE uncommitted[f] # << >>
      <4>1. /\ Len(uncommitted[f]) = 1 /\ Len(uncommitted'[f]) = 0
            /\ log'[f] = Append(log[f], proposals[Len(log[f]) + 1])
        BY <3>2, <1>5
      <4>2. QED BY <4>1, <1>2, AppendFacts
    <3>3. QED BY <3>1, <3>2
  <2>3. Received(f) \in Nat
    BY <2>1, Counting DEF Received
  <2>4. CASE Len(uncommitted[f]) = 0
    <3>1. Len(uncommitted'[f]) = 1 /\ Len(log'[f]) = Len(log[f])
      BY <2>2, <2>4
    <3>2. Received(f) = 2 * Len(log[f]) + 0 /\ Received(f)' = 2 * Len(log[f]) + 1
      BY <2>4, <3>1 DEF Received
    <3>3. 2 * Len(log[f]) + 1 = (2 * Len(log[f]) + 0) + 1
      BY <2>1, Counting
    <3>4. QED BY <2>3, <3>2, <3>3
  <2>5. CASE Len(uncommitted[f]) = 1
    BY <2>1, <2>2, <2>5, Counting DEF Received
  <2>6. QED BY <2>2, <2>3, <2>4, <2>5
<1>7. QED BY <1>1, <1>2, <1>3, <1>4, <1>5, <1>6

LEMMA StreamsInv == Types /\ Streams /\ [Next]_vars => Streams'
<1> SUFFICES ASSUME Types, Streams, [Next]_vars PROVE Streams'
  OBVIOUS
<1>0. Round \in Nat /\ proposals \in Seq(Entry) /\ \A f \in Follower : FollowsStream(f)
  BY DEF Types, Round, Streams
<1>1. CASE UNCHANGED <<pc, toSend, proposals, channel, uncommitted, log>>
  <2>1. \A f \in Follower : Sent(f)' = Sent(f)
    BY <1>1 DEF Sent, Round
  <2>2. \A f \in Follower : FollowsStream(f)'
    BY <1>0, <1>1, <2>1, SameStream
  <2>3. QED BY <1>1, <2>2 DEF Streams, LeaderFollows, Round
<1>2. CASE Propose
  <2> DEFINE e == [version |-> nextVersion, pairs |-> sequence]
  <2>1. /\ proposals' = Append(proposals, e) /\ UNCHANGED <<channel, uncommitted, log>>
        /\ pc = "idle" /\ pc' = "proposing" /\ toSend' = Follower
    BY <1>2 DEF Propose
  <2> HIDE DEF e
  <2>2. Round' = Round + 1 /\ \A n \in 1 .. Round : proposals'[n] = proposals[n]
    BY <1>0, <2>1 DEF Round
  <2>3. ASSUME NEW f \in Follower PROVE FollowsStream(f)'
    <3>1. Sent(f)' = Sent(f)
      BY <1>0, <2>1, <2>2 DEF Sent
    <3>2. \A m, k : InStream(m, k) => InStream(m, k)'
      BY <1>0, <2>2 DEF InStream
    <3>3. log[f] \in Seq(Entry) /\ uncommitted[f] \in Seq(Entry)
      BY DEF Types, Follower
    <3>4. Received(f)' = Received(f)
      BY <2>1 DEF Received
    <3>5. \A i \in DOMAIN channel'[f] : InStream(channel[f][i], Received(f) + i)'
      BY <1>0, <2>1, <3>2, <3>4 DEF FollowsStream
    <3>6. \A n \in DOMAIN log'[f] : n <= Round' /\ log'[f][n] = proposals'[n]
      <4> SUFFICES ASSUME NEW n \in DOMAIN log[f] PROVE n <= Round' /\ log[f][n] = proposals'[n]
        BY <2>1
      <4>1. n \in Nat \ {0} /\ n <= Round /\ log[f][n] = proposals[n]
        BY <1>0, <3>3 DEF FollowsStream
      <4>2. QED BY <4>1, <2>2, <1>0
    <3>7. \A i \in DOMAIN uncommitted'[f] :
            Len(log'[f]) + 1 <= Round' /\ uncommitted'[f][i] = proposals'[Len(log'[f]) + 1]
      <4> SUFFICES ASSUME NEW i \in DOMAIN uncommitted[f]
                   PROVE  Len(log[f]) + 1 <= Round' /\ uncommitted[f][i] = proposals'[Len(log[f]) + 1]
        BY <2>1
      <4>1. Len(log[f]) + 1 <= Round /\ uncommitted[f][i] = proposals[Len(log[f]) + 1]
        BY <1>0 DEF FollowsStream
      <4>2. Len(log[f]) + 1 \in 1 .. Round
        BY <4>1, <3>3, <1>0
      <4>3. QED BY <4>1, <4>2, <2>2, <1>0
    <3>8. Len(uncommitted'[f]) <= 1 /\ Received(f)' + Len(channel'[f]) = Sent(f)'
      BY <1>0, <2>1, <3>1, <3>4 DEF FollowsStream
    <3>9. QED BY <3>5, <3>6, <3>7, <3>8 DEF FollowsStream
  <2>4. LeaderFollows'
    <3>1. log[Leader] \in Seq(Entry)
      BY Paxos2Assumption DEF Types
    <3>2. Len(log[Leader]) = Round /\ \A n \in DOMAIN log[Leader] : log[Leader][n] = proposals[n]
      BY <2>1 DEF Streams, LeaderFollows
    <3>3. DOMAIN log[Leader] = 1 .. Round
      BY <3>1, <3>2
    <3>4. \A n \in DOMAIN log[Leader] : log[Leader][n] = proposals'[n]
      BY <3>2, <3>3, <2>2
    <3>5. Len(log'[Leader]) = Round' - 1
      BY <1>0, <2>1, <2>2, <3>2
    <3>6. \A n \in DOMAIN log'[Leader] : log'[Leader][n] = proposals'[n]
      BY <2>1, <3>4
    <3>7. QED BY <2>1, <3>5, <3>6 DEF LeaderFollows
  <2>5. QED BY <2>3, <2>4 DEF Streams
<1>3. ASSUME NEW f \in Follower, SendProposal(f) PROVE Streams'
  <2>1. /\ pc = "proposing" /\ Send(f, Proposal(Current, Round)) /\ f \in toSend
        /\ toSend' = toSend \ {f} /\ UNCHANGED <<pc, proposals, uncommitted, log>> /\ Round >= 1
    BY <1>3 DEF SendProposal, Send, Types
  <2>2. Sent(f) = 2 * Round - 2 /\ Sent(f)' = 2 * Round - 1
    BY <2>1 DEF Sent, Round
  <2>3. \A g \in Follower : g # f => Sent(g)' = Sent(g)
    BY <2>1 DEF Sent, Round
  <2>4. InStream(Proposal(Current, Round), Sent(f) + 1)
    BY <1>0, <2>1, <2>2 DEF InStream, Current
  <2>5. Sent(f)' = Sent(f) + 1
    BY <1>0, <2>2
  <2>6. QED BY <2>1, <2>3, <2>4, <2>5, SendInStream
<1>4. ASSUME NEW f \in Follower, SendCommit(f) PROVE Streams'
  <2>1. /\ pc = "committing" /\ Send(f, CommitFor(Round)) /\ f \in toSend
        /\ toSend' = toSend \ {f} /\ UNCHANGED <<pc, proposals, uncommitted, log>> /\ Round >= 1
    BY <1>4 DEF SendCommit, Send, Types
  <2>2. Sent(f) = 2 * Round - 1 /\ Sent(f)' = 2 * Round
    BY <2>1 DEF Sent, Round
  <2>3. \A g \in Follower : g # f => Sent(g)' = Sent(g)
    BY <2>1 DEF Sent, Round
  <2>4. InStream(CommitFor(Round), Sent(f) + 1)
    BY <1>0, <2>1, <2>2 DEF InStream
  <2>5. Sent(f)' = Sent(f) + 1
    BY <1>0, <2>2
  <2>6. QED BY <2>1, <2>3, <2>4, <2>5, SendInStream
<1>5. CASE ProposalSent \/ QuorumReached
  <2>1. \A f \in Follower : Sent(f)' = Sent(f)
    BY <1>0, <1>5 DEF ProposalSent, QuorumReached, Sent, Round, Types
  <2>2. UNCHANGED <<proposals, channel, uncommitted, log>> /\ pc # "idle" /\ pc' # "idle"
    BY <1>5 DEF ProposalSent, QuorumReached, netVars
  <2>3. \A f \in Follower : FollowsStream(f)'
    BY <1>0, <2>1, <2>2, SameStream
  <2>4. QED BY <2>2, <2>3 DEF Streams, LeaderFollows, Round
<1>6. CASE LeaderCommits
  <2>1. /\ pc = "committing" /\ toSend = {} /\ pc' = "idle"
        /\ log' = [log EXCEPT ![Leader] = Append(@, Current)]
        /\ UNCHANGED <<proposals, channel, uncommitted>> /\ Round >= 1
    BY <1>6 DEF LeaderCommits, netVars, Types
  <2>2. \A f \in Follower : Sent(f)' = Sent(f) /\ log'[f] = log[f]
    BY <1>0, <2>1 DEF Sent, Round, Follower, Types
  <2>3. \A f \in Follower : FollowsStream(f)'
    BY <1>0, <2>1, <2>2, SameStream
  <2>4. LeaderFollows'
    <3>1. log[Leader] \in Seq(Entry) /\ log'[Leader] = Append(log[Leader], proposals[Round])
      BY <2>1, Paxos2Assumption DEF Types, Current
    <3>2. Len(log[Leader]) = Round - 1 /\ Round' = Round
      BY <2>1 DEF Streams, LeaderFollows, Round
    <3>3. ASSUME NEW n \in DOMAIN log'[Leader] PROVE log'[Leader][n] = proposals'[n]
      BY <2>1, <3>1, <3>2, <1>0 DEF Streams, LeaderFollows
    <3>4. QED BY <2>1, <3>1, <3>2, <3>3, <1>0 DEF LeaderFollows
  <2>5. QED BY <2>3, <2>4 DEF Streams
<1>7. ASSUME NEW f \in Follower, FollowerStep(f) PROVE Streams'
  <2>1. channel[f] # << >> /\ channel'[f] = Tail(channel[f]) /\ UNCHANGED <<pc, toSend, proposals>>
    BY <1>7, TakesNext
  <2>2. channel[f] \in Seq(Message) /\ log[f] \in Seq(Entry) /\ uncommitted[f] \in Seq(Entry)
    BY DEF Types, Follower
  <2>3. /\ \A g \in Follower : g # f =>
              channel'[g] = channel[g] /\ uncommitted'[g] = uncommitted[g] /\ log'[g] = log[g]
        /\ log'[Leader] = log[Leader]
    BY <1>7, TakesNext
  <2>4. \A g \in Follower : Sent(g)' = Sent(g)
    BY <1>7, TakesNext
  <2>5. \A g \in Follower : g # f => FollowsStream(g)'
    BY <1>0, <2>1, <2>3, <2>4, SameStream
  <2>6. \/ /\ uncommitted[f] = << >> /\ Len(log[f]) + 1 <= Round
           /\ uncommitted'[f] = << proposals[Len(log[f]) + 1] >> /\ log'[f] = log[f]
        \/ /\ Len(uncommitted[f]) = 1 /\ Len(log[f]) + 1 <= Round
           /\ uncommitted'[f] = << >>
           /\ log'[f] = Append(log[f], proposals[Len(log[f]) + 1])
    BY <1>7, TakesNext
  <2>7. Received(f) \in Nat /\ Received(f)' = Received(f) + 1
    BY <1>7, TakesNext
  <2>8. FollowsStream(f)'
    <3>1. /\ Len(channel'[f]) = Len(channel[f]) - 1
          /\ \A i \in DOMAIN channel'[f] :
               i \in Nat /\ i + 1 \in DOMAIN channel[f] /\ channel'[f][i] = channel[f][i + 1]
          /\ Len(channel[f]) \in Nat
      BY <2>1, <2>2, TailFacts
    <3>2. Received(f)' + Len(channel'[f]) = Sent(f)'
      BY <1>0, <2>2, <2>4, <2>7, <3>1 DEF FollowsStream
    <3>3. ASSUME NEW i \in DOMAIN channel'[f]
          PROVE  InStream(channel'[f][i], Received(f) + 1 + i)
      <4>1. i + 1 \in DOMAIN channel[f] /\ i \in Nat
        BY <3>1
      <4>2. InStream(channel[f][i + 1], Received(f) + (i + 1))
        BY <4>1, <1>0 DEF FollowsStream
      <4>3. Received(f) + (i + 1) = Received(f) + 1 + i
        BY <2>7, <4>1
      <4>4. QED BY <3>1, <4>2, <4>3
    <3>4. \A i \in DOMAIN channel'[f] : InStream(channel[f][i], Received(f) + i)'
      BY <2>1, <2>7, <3>3 DEF InStream, Round
    <3>5. \A n \in DOMAIN log'[f] : n <= Round /\ log'[f][n] = proposals[n]
      <4>1. \A n \in DOMAIN log[f] : n <= Round /\ log[f][n] = proposals[n]
        BY <1>0 DEF FollowsStream
      <4>2. CASE log'[f] = log[f]
        BY <4>1, <4>2
      <4>3. CASE log'[f] = Append(log[f], proposals[Len(log[f]) + 1]) /\ Len(log[f]) + 1 <= Round
        <5>1. ASSUME NEW n \in DOMAIN log'[f] PROVE n \in DOMAIN log[f] \/ n = Len(log[f]) + 1
          BY <4>3, <2>2, AppendFacts
        <5>2. QED BY <4>1, <4>3, <5>1, <2>2, AppendFacts
      <4>4. QED BY <2>6, <4>2, <4>3
    <3>6. /\ Len(uncommitted'[f]) <= 1
          /\ \A i \in DOMAIN uncommitted'[f] :
               Len(log'[f]) + 1 <= Round /\ uncommitted'[f][i] = proposals[Len(log'[f]) + 1]
      <4>1. CASE uncommitted'[f] = << >>
        BY <4>1
      <4>2. CASE /\ Len(log[f]) + 1 <= Round /\ log'[f] = log[f]
                 /\ uncommitted'[f] = << proposals[Len(log[f]) + 1] >>
        BY <4>2
      <4>3. QED BY <2>6, <4>1, <4>2
    <3>7. QED BY <2>1, <3>2, <3>4, <3>5, <3>6 DEF FollowsStream, Round
  <2>9. LeaderFollows'
    BY <2>1, <2>3 DEF Streams, LeaderFollows, Round
  <2>10. QED BY <2>5, <2>8, <2>9 DEF Streams
<1>8. UNCHANGED <<pc, toSend, proposals, channel, uncommitted, log>>
      \/ Propose \/ ProposalSent \/ QuorumReached \/ LeaderCommits
      \/ \E f \in Follower : SendProposal(f) \/ SendCommit(f) \/ FollowerStep(f)
  BY DEF Next, LeaderStep, HandleAppend, DeliverAck, Stop, vars, leaderVars, netVars
<1>9. QED BY <1>1, <1>2, <1>3, <1>4, <1>5, <1>6, <1>7, <1>8

----------------------------------------------------------------------------
LEMMA FollowersAreFinite ==
  ASSUME NEW S \in SUBSET Follower
  PROVE  /\ IsFiniteSet(Participant) /\ Cardinality(Participant) \in Nat
         /\ IsFiniteSet(S) /\ Cardinality(S) \in Nat
         /\ Cardinality(S) + 1 <= Cardinality(Participant)
         /\ IsFiniteSet(S \cup {Leader}) /\ Cardinality(S \cup {Leader}) = Cardinality(S) + 1
<1>1. IsFiniteSet(Participant) /\ Leader \in Participant
  BY Paxos2Assumption
<1>2. S \cup {Leader} \subseteq Participant /\ S \subseteq Participant /\ Leader \notin S
  BY <1>1 DEF Follower
<1>3. IsFiniteSet(S) /\ IsFiniteSet(S \cup {Leader})
  BY <1>1, <1>2, FS_Subset
<1>4. Cardinality(S \cup {Leader}) = Cardinality(S) + 1
  BY <1>2, <1>3, FS_AddElement
<1>5. Cardinality(S \cup {Leader}) <= Cardinality(Participant)
  BY <1>1, <1>2, FS_Subset
<1>6. Cardinality(S) \in Nat /\ Cardinality(Participant) \in Nat
  BY <1>1, <1>3, FS_CardinalityType
<1>7. QED BY <1>1, <1>3, <1>4, <1>5, <1>6

LEMMA CountsAreNat ==
  ASSUME Types, Streams, NEW f \in Follower
  PROVE  Received(f) \in Nat /\ Sent(f) \in Nat /\ Received(f) <= Sent(f)
<1>1. Len(log[f]) \in Nat /\ Len(uncommitted[f]) \in Nat /\ Len(channel[f]) \in Nat
  BY DEF Types, Follower
<1>2. Received(f) \in Nat
  BY <1>1, Counting DEF Received
<1>3. Received(f) + Len(channel[f]) = Sent(f)
  BY DEF Streams, FollowsStream
<1>4. QED BY <1>1, <1>2, <1>3

\* How far a step brings the streams.
LEMMA StreamsAdvance ==
  ASSUME Types, Streams, [Next]_vars
  PROVE  \A f \in Follower :
           /\ Received(f)' = Received(f) \/ (FollowerStep(f) /\ Received(f)' = Received(f) + 1)
           /\ Sent(f)' = Sent(f)
              \/ (SendProposal(f) /\ Sent(f) = 2 * Round - 2 /\ Sent(f)' = 2 * Round - 1)
              \/ (SendCommit(f) /\ Sent(f) = 2 * Round - 1 /\ Sent(f)' = 2 * Round)
<1>0. Round \in Nat
  BY DEF Types, Round
<1> SUFFICES ASSUME NEW f \in Follower
             PROVE  /\ Received(f)' = Received(f)
                       \/ (FollowerStep(f) /\ Received(f)' = Received(f) + 1)
                    /\ Sent(f)' = Sent(f)
                       \/ (SendProposal(f) /\ Sent(f) = 2 * Round - 2 /\ Sent(f)' = 2 * Round - 1)
                       \/ (SendCommit(f) /\ Sent(f) = 2 * Round - 1 /\ Sent(f)' = 2 * Round)
  OBVIOUS
<1>1. CASE UNCHANGED <<pc, toSend, proposals, uncommitted, log>>
  BY <1>1 DEF Received, Sent, Round
<1>2. CASE Propose
  <2>1. /\ UNCHANGED <<uncommitted, log>> /\ Len(proposals') = Len(proposals) + 1
        /\ pc = "idle" /\ pc' = "proposing" /\ toSend' = Follower
    BY <1>2 DEF Propose, Types
  <2>2. Sent(f) = 2 * Round /\ Sent(f)' = 2 * (Round + 1) - 2
    BY <2>1 DEF Sent, Round
  <2>3. QED BY <1>0, <2>1, <2>2 DEF Received
<1>3. ASSUME NEW g \in Follower, SendProposal(g) \/ SendCommit(g)
      PROVE  /\ Received(f)' = Received(f)
             /\ Sent(f)' = Sent(f)
                \/ (SendProposal(f) /\ Sent(f) = 2 * Round - 2 /\ Sent(f)' = 2 * Round - 1)
                \/ (SendCommit(f) /\ Sent(f) = 2 * Round - 1 /\ Sent(f)' = 2 * Round)
  <2>1. /\ UNCHANGED <<pc, proposals, uncommitted, log>> /\ g \in toSend /\ toSend' = toSend \ {g}
        /\ \/ pc = "proposing" /\ SendProposal(g)
           \/ pc = "committing" /\ SendCommit(g)
    BY <1>3 DEF SendProposal, SendCommit, Send
  <2>2. Received(f)' = Received(f)
    BY <2>1 DEF Received
  <2>3. CASE f = g
    BY <2>1, <2>2, <2>3 DEF Sent, Round
  <2>4. CASE f # g
    BY <2>1, <2>2, <2>4 DEF Sent, Round
  <2>5. QED BY <2>3, <2>4
<1>4. CASE ProposalSent \/ QuorumReached
  <2>1. UNCHANGED <<uncommitted, log>>
    BY <1>4 DEF ProposalSent, QuorumReached
  <2>2. Sent(f)' = Sent(f)
    BY <1>0, <1>4 DEF ProposalSent, QuorumReached, Sent, Round
  <2>3. QED BY <2>1, <2>2 DEF Received
<1>5. CASE LeaderCommits
  <2>1. uncommitted'[f] = uncommitted[f] /\ log'[f] = log[f]
    BY <1>5 DEF LeaderCommits, Types, Follower
  <2>2. Sent(f)' = Sent(f)
    BY <1>0, <1>5 DEF LeaderCommits, Sent, Round
  <2>3. QED BY <2>1, <2>2 DEF Received
<1>6. ASSUME NEW g \in Follower, FollowerStep(g)
      PROVE  /\ Received(f)' = Received(f)
                \/ (FollowerStep(f) /\ Received(f)' = Received(f) + 1)
             /\ Sent(f)' = Sent(f)
  <2>1. /\ Received(g)' = Received(g) + 1 /\ Sent(f)' = Sent(f)
        /\ f # g => uncommitted'[f] = uncommitted[f] /\ log'[f] = log[f]
    BY <1>6, TakesNext
  <2>2. f # g => Received(f)' = Received(f)
    BY <2>1 DEF Received
  <2>3. QED BY <1>6, <2>1, <2>2
<1>7. UNCHANGED <<pc, toSend, proposals, uncommitted, log>>
      \/ Propose \/ ProposalSent \/ QuorumReached \/ LeaderCommits
      \/ \E g \in Follower : SendProposal(g) \/ SendCommit(g) \/ FollowerStep(g)
  BY DEF Next, LeaderStep, HandleAppend, DeliverAck, Stop, vars, leaderVars, netVars
<1>8. QED BY <1>1, <1>2, <1>3, <1>4, <1>5, <1>6, <1>7

----------------------------------------------------------------------------
LEMMA InitAcks == Init => AcksCounted
BY DEF Init, AcksCounted, Round

\* Accepting a proposal is the (2n-1)st message, committing it the (2n)th.
LEMMA AcceptedNext ==
  ASSUME Types, Streams, NEW f \in Follower
  PROVE  /\ AcceptProposal(f) =>
              /\ Len(log[f]) + 1 \in 1 .. Round
              /\ Received(f) = 2 * (Len(log[f]) + 1) - 2
              /\ ackNet' = ackNet \cup {Ack(f, Len(log[f]) + 1, "proposal")}
         /\ FollowerCommits(f) => \A n \in Nat : Received(f) + 1 >= 2 * n - 1 => Received(f) >= 2 * n - 1
<1>1. Len(log[f]) \in Nat /\ Len(uncommitted[f]) \in Nat /\ Round \in Nat
  BY DEF Types, Follower, Round
<1>2. ASSUME AcceptProposal(f)
      PROVE  /\ Len(log[f]) + 1 \in 1 .. Round
             /\ Received(f) = 2 * (Len(log[f]) + 1) - 2
             /\ ackNet' = ackNet \cup {Ack(f, Len(log[f]) + 1, "proposal")}
  <2>1. channel[f] # << >> /\ Head(channel[f]).type = "proposal"
    BY <1>2 DEF AcceptProposal, Receive
  <2>2. /\ uncommitted[f] = << >> /\ Len(log[f]) + 1 <= Round
        /\ Head(channel[f]) = Proposal(proposals[Len(log[f]) + 1], Len(log[f]) + 1)
    BY <2>1, NextMessage
  <2>3. Len(uncommitted[f]) = 0
    BY <2>2
  <2>4. Received(f) = 2 * (Len(log[f]) + 1) - 2
    BY <1>1, <2>3 DEF Received
  <2>5. Head(channel[f]).round = Len(log[f]) + 1
    BY <2>2 DEF Proposal
  <2>6. QED BY <1>1, <1>2, <2>2, <2>4, <2>5 DEF AcceptProposal, Ack
<1>3. ASSUME FollowerCommits(f), NEW n \in Nat, Received(f) + 1 >= 2 * n - 1
      PROVE  Received(f) >= 2 * n - 1
  <2>1. channel[f] # << >> /\ Head(channel[f]).type = "commit"
    BY <1>3 DEF FollowerCommits, Receive
  <2>2. Len(uncommitted[f]) = 1
    BY <2>1, NextMessage
  <2>3. Received(f) = 2 * Len(log[f]) + 1
    BY <2>2 DEF Received
  <2>4. QED BY <1>1, <1>3, <2>3
<1>4. QED BY <1>2, <1>3

LEMMA AcksInv == Types /\ Streams /\ AcksCounted /\ [Next]_vars => AcksCounted'
<1> SUFFICES ASSUME Types, Streams, AcksCounted, [Next]_vars PROVE AcksCounted'
  OBVIOUS
<1>0. /\ Round \in Nat /\ proposals \in Seq(Entry)
      /\ \A f \in Follower : Received(f) \in Nat /\ Sent(f) \in Nat /\ Received(f) <= Sent(f)
  BY CountsAreNat DEF Types, Round
<1>1. CASE /\ UNCHANGED <<acks, ackNet, proposals>>
           /\ \A f \in Follower : ~ SendCommit(f) /\ ~ AcceptProposal(f)
  <2>1. \A n \in 1 .. Round : Accepted(n)' = Accepted(n) /\ CommitSent(n)' = CommitSent(n)
    <3> SUFFICES ASSUME NEW n \in 1 .. Round, NEW f \in Follower
                 PROVE  /\ Received(f)' >= 2 * n - 1 <=> Received(f) >= 2 * n - 1
                        /\ Sent(f)' >= 2 * n <=> Sent(f) >= 2 * n
      BY DEF Accepted, CommitSent
    <3>1. Received(f)' = Received(f) \/ (FollowerCommits(f) /\ Received(f)' = Received(f) + 1)
      BY <1>1, StreamsAdvance DEF FollowerStep
    <3>2. Received(f)' >= 2 * n - 1 <=> Received(f) >= 2 * n - 1
      BY <1>0, <3>1, AcceptedNext
    <3>3. Sent(f)' = Sent(f) \/ (Sent(f) = 2 * Round - 2 /\ Sent(f)' = 2 * Round - 1)
      BY <1>1, StreamsAdvance
    <3>4. Sent(f)' >= 2 * n <=> Sent(f) >= 2 * n
      BY <1>0, <3>3
    <3>5. QED BY <3>2, <3>4
  <2>2. \A n \in 1 .. Round : AckedProposal(n)' = AckedProposal(n) /\ AckedCommit(n)' = AckedCommit(n)
    BY <1>1, <2>1 DEF AckedProposal, AckedCommit
  <2>3. \A a \in ackNet : a.round \in 1 .. Round
    BY DEF Types
  <2>4. QED BY <1>1, <2>1, <2>2, <2>3 DEF AcksCounted, Round
<1>2. CASE Propose
  <2>1. /\ Round' = Round + 1 /\ pc = "idle" /\ acks' = Append(acks, 1) /\ ackNet' = ackNet
        /\ acks \in Seq(Nat) /\ Len(acks) = Round
    BY <1>0, <1>2 DEF Propose, Types, Round
  <2>2. \A f \in Follower : Received(f)' = Received(f) /\ Sent(f)' = Sent(f) /\ Sent(f) = 2 * Round
    <3> SUFFICES ASSUME NEW f \in Follower
                 PROVE  Received(f)' = Received(f) /\ Sent(f)' = Sent(f) /\ Sent(f) = 2 * Round
      OBVIOUS
    <3>1. Sent(f) = 2 * Round
      BY <2>1 DEF Sent
    <3>2. Sent(f)' = 2 * (Round + 1) - 2
      BY <1>2, <2>1 DEF Propose, Sent
    <3>3. Received(f)' = Received(f)
      BY <1>2 DEF Propose, Received
    <3>4. QED BY <1>0, <3>1, <3>2, <3>3
  <2>3. \A n : AckedProposal(n)' = AckedProposal(n) /\ AckedCommit(n)' = AckedCommit(n)
               /\ Accepted(n)' = Accepted(n) /\ CommitSent(n)' = CommitSent(n)
    BY <2>1, <2>2 DEF AckedProposal, AckedCommit, Accepted, CommitSent
  <2>4. Accepted(Round + 1) = {} /\ CommitSent(Round + 1) = {}
    BY <1>0, <2>2 DEF Accepted, CommitSent
  <2>5. Cardinality(AckedProposal(Round + 1)) = 0 /\ Cardinality(AckedCommit(Round + 1)) = 0
    BY <2>4, FS_EmptySet DEF AckedProposal, AckedCommit
  <2>6. ASSUME NEW n \in 1 .. Round'
        PROVE  acks'[n] = 1 + Cardinality(AckedProposal(n)') + Cardinality(AckedCommit(n)')
    <3>1. CASE n = Round + 1
      <4>1. acks'[n] = 1
        BY <2>1, <3>1, AppendFacts
      <4>2. QED BY <2>3, <2>5, <3>1, <4>1
    <3>2. CASE n # Round + 1
      <4>1. n \in 1 .. Round
        BY <1>0, <2>1, <3>2
      <4>2. acks'[n] = acks[n]
        BY <2>1, <4>1, AppendFacts
      <4>3. QED BY <2>3, <4>1, <4>2 DEF AcksCounted
    <3>3. QED BY <3>1, <3>2
  <2>7. QED BY <2>1, <2>3, <2>6 DEF AcksCounted
<1>3. ASSUME NEW f \in Follower, SendCommit(f) PROVE AcksCounted'
  <2>1. /\ Sent(f) = 2 * Round - 1 /\ Sent(f)' = 2 * Round /\ Round' = Round /\ Round >= 1
        /\ ackNet' = ackNet \cup {Ack(f, Round, "commit")} /\ acks' = acks
        /\ pc = "committing" /\ f \in toSend
    BY <1>3, <1>0 DEF SendCommit, Send, Sent, Round, Ack, Types
  <2>2. \A g \in Follower : Received(g)' = Received(g) /\ (g # f => Sent(g)' = Sent(g))
    BY <1>3 DEF SendCommit, Send, Received, Sent, Round
  <2>3. \A n : Accepted(n)' = Accepted(n)
    BY <2>2 DEF Accepted
  <2>4. \A n : AckedProposal(n)' = AckedProposal(n)
    BY <2>1, <2>3 DEF AckedProposal, Ack
  <2>5. \A n \in 1 .. Round : CommitSent(n)' = CommitSent(n) \cup (IF n = Round THEN {f} ELSE {})
    BY <1>0, <2>1, <2>2 DEF CommitSent
  <2>6. \A n \in 1 .. Round : AckedCommit(n)' = AckedCommit(n)
    <3> SUFFICES ASSUME NEW n \in 1 .. Round, NEW g \in Follower
                 PROVE  g \in AckedCommit(n)' <=> g \in AckedCommit(n)
      BY DEF AckedCommit, CommitSent
    <3>1. f \notin CommitSent(Round)
      BY <1>0, <2>1 DEF CommitSent
    <3>2. CASE g = f /\ n = Round
      BY <3>1, <3>2, <2>1 DEF AckedCommit
    <3>3. CASE ~ (g = f /\ n = Round)
      <4>1. Ack(g, n, "commit") # Ack(f, Round, "commit")
        BY <3>3 DEF Ack
      <4>2. g \in CommitSent(n)' <=> g \in CommitSent(n)
        BY <2>5, <3>3
      <4>3. QED BY <4>1, <4>2, <2>1 DEF AckedCommit
    <3>4. QED BY <3>2, <3>3
  <2>7. \A a \in ackNet : a.round \in 1 .. Round
    BY DEF Types
  <2>8. f \in CommitSent(Round)'
    BY <1>0, <2>1 DEF CommitSent
  <2>9. QED BY <2>1, <2>3, <2>4, <2>5, <2>6, <2>7, <2>8 DEF AcksCounted, Ack
<1>4. ASSUME NEW f \in Follower, AcceptProposal(f) PROVE AcksCounted'
  <2>1. PICK k \in 1 .. Round : /\ Received(f) = 2 * k - 2
                                /\ ackNet' = ackNet \cup {Ack(f, k, "proposal")}
    BY <1>4, AcceptedNext
  <2>2. /\ Round' = Round /\ acks' = acks /\ Received(f)' = Received(f) + 1
        /\ \A g \in Follower : Sent(g)' = Sent(g)
    BY <1>4, TakesNext DEF AcceptProposal, FollowerStep, Round
  <2>3. \A g \in Follower : g # f => Received(g)' = Received(g)
    BY <1>4, TakesNext DEF FollowerStep, Received
  <2>4. \A n : CommitSent(n)' = CommitSent(n)
    BY <2>2 DEF CommitSent
  <2>5. \A n : AckedCommit(n)' = AckedCommit(n)
    BY <2>1, <2>4 DEF AckedCommit, Ack
  <2>6. \A n \in 1 .. Round : Accepted(n)' = Accepted(n) \cup (IF n = k THEN {f} ELSE {})
    <3> SUFFICES ASSUME NEW n \in 1 .. Round, NEW g \in Follower
                 PROVE  Received(g)' >= 2 * n - 1 <=>
                          Received(g) >= 2 * n - 1 \/ (g = f /\ n = k)
      BY DEF Accepted
    <3>1. CASE g = f
      <4>1. Received(f) = 2 * k - 2 /\ Received(f)' = 2 * k - 1 /\ n \in Nat /\ k \in Nat
        BY <1>0, <2>1, <2>2
      <4>2. QED BY <3>1, <4>1
    <3>2. CASE g # f
      BY <2>3, <3>2
    <3>3. QED BY <3>1, <3>2
  <2>7. f \notin Accepted(k)
    BY <1>0, <2>1 DEF Accepted
  <2>8. \A n \in 1 .. Round : AckedProposal(n)' = AckedProposal(n)
    <3> SUFFICES ASSUME NEW n \in 1 .. Round, NEW g \in Follower
                 PROVE  g \in AckedProposal(n)' <=> g \in AckedProposal(n)
      BY DEF AckedProposal, Accepted
    <3>1. CASE g = f /\ n = k
      BY <3>1, <2>7, <2>1 DEF AckedProposal
    <3>2. CASE ~ (g = f /\ n = k)
      <4>1. Ack(g, n, "proposal") # Ack(f, k, "proposal")
        BY <3>2 DEF Ack
      <4>2. g \in Accepted(n)' <=> g \in Accepted(n)
        BY <2>6, <3>2
      <4>3. QED BY <4>1, <4>2, <2>1 DEF AckedProposal
    <3>3. QED BY <3>1, <3>2
  <2>9. \A a \in ackNet : a.round \in 1 .. Round
    BY DEF Types
  <2>10. f \in Accepted(k)'
    BY <2>6, <2>1
  <2>11. ASSUME NEW n \in 1 .. Round
         PROVE  acks'[n] = 1 + Cardinality(AckedProposal(n)') + Cardinality(AckedCommit(n)')
    <3>1. acks[n] = 1 + Cardinality(AckedProposal(n)) + Cardinality(AckedCommit(n))
      BY DEF AcksCounted
    <3>2. AckedProposal(n)' = AckedProposal(n) /\ AckedCommit(n)' = AckedCommit(n)
      BY <2>5, <2>8
    <3>3. QED BY <2>2, <3>1, <3>2
  <2>12. ASSUME NEW a \in ackNet'
         PROVE  a.from \in IF a.for = "proposal" THEN Accepted(a.round)' ELSE CommitSent(a.round)'
    <3>1. CASE a = Ack(f, k, "proposal")
      BY <3>1, <2>10 DEF Ack
    <3>2. CASE a \in ackNet
      <4>1. a.from \in IF a.for = "proposal" THEN Accepted(a.round) ELSE CommitSent(a.round)
        BY <3>2 DEF AcksCounted
      <4>2. QED BY <3>2, <4>1, <2>4, <2>6, <2>9
    <3>3. QED BY <2>1, <3>1, <3>2
  <2>13. QED BY <2>2, <2>11, <2>12 DEF AcksCounted
<1>5. ASSUME NEW a \in ackNet, DeliverAck(a) PROVE AcksCounted'
  <2> DEFINE n == a.round
  <2>1. /\ ackNet' = ackNet \ {a} /\ acks' = [acks EXCEPT ![n] = @ + 1]
        /\ UNCHANGED <<pc, toSend, proposals, uncommitted, log>>
    BY <1>5 DEF DeliverAck, leaderVars
  <2>2. /\ n \in 1 .. Round /\ a.from \in Follower /\ a.for \in {"proposal", "commit"}
        /\ a = Ack(a.from, n, a.for)
    BY DEF Types, Ack
  <2>3. Round' = Round /\ acks \in Seq(Nat) /\ DOMAIN acks = 1 .. Round
    BY <2>1 DEF Types, Round
  <2>4. \A m : Accepted(m)' = Accepted(m) /\ CommitSent(m)' = CommitSent(m)
    BY <2>1 DEF Accepted, CommitSent, Received, Sent, Round
  <2>5. ASSUME NEW m \in 1 .. Round
        PROVE  /\ AckedProposal(m)' = AckedProposal(m)
                    \cup (IF m = n /\ a.for = "proposal" THEN {a.from} ELSE {})
               /\ AckedCommit(m)' = AckedCommit(m)
                    \cup (IF m = n /\ a.for = "commit" THEN {a.from} ELSE {})
    <3>1. a.from \in IF a.for = "proposal" THEN Accepted(n) ELSE CommitSent(n)
      BY DEF AcksCounted
    <3>2. AckedProposal(m)' = AckedProposal(m)
            \cup (IF m = n /\ a.for = "proposal" THEN {a.from} ELSE {})
      BY <2>1, <2>2, <2>4, <3>1 DEF AckedProposal, Ack
    <3>3. AckedCommit(m)' = AckedCommit(m)
            \cup (IF m = n /\ a.for = "commit" THEN {a.from} ELSE {})
      BY <2>1, <2>2, <2>4, <3>1 DEF AckedCommit, Ack
    <3>4. QED BY <3>2, <3>3
  <2>6. /\ a.for = "proposal" => a.from \notin AckedProposal(n)
        /\ a.for = "commit" => a.from \notin AckedCommit(n)
    BY <2>2 DEF AckedProposal, AckedCommit
  <2>7. \A m : AckedProposal(m) \in SUBSET Follower /\ AckedCommit(m) \in SUBSET Follower
    BY DEF AckedProposal, AckedCommit, Accepted, CommitSent
  <2>8. \A m : /\ IsFiniteSet(AckedProposal(m)) /\ Cardinality(AckedProposal(m)) \in Nat
               /\ IsFiniteSet(AckedCommit(m)) /\ Cardinality(AckedCommit(m)) \in Nat
    BY <2>7, FollowersAreFinite
  <2> HIDE DEF n
  <2>9. ASSUME NEW m \in 1 .. Round
        PROVE  acks'[m] = 1 + Cardinality(AckedProposal(m)') + Cardinality(AckedCommit(m)')
    <3>1. acks[m] = 1 + Cardinality(AckedProposal(m)) + Cardinality(AckedCommit(m))
      BY DEF AcksCounted
    <3>2. CASE m # n
      <4>1. AckedProposal(m)' = AckedProposal(m) /\ AckedCommit(m)' = AckedCommit(m)
        BY <2>5, <3>2
      <4>2. acks'[m] = acks[m]
        BY <2>1, <2>3, <3>2
      <4>3. QED BY <3>1, <4>1, <4>2
    <3>3. CASE m = n /\ a.for = "proposal"
      <4>1. AckedProposal(m)' = AckedProposal(m) \cup {a.from} /\ AckedCommit(m)' = AckedCommit(m)
        BY <2>5, <3>3
      <4>2. Cardinality(AckedProposal(m)') = Cardinality(AckedProposal(m)) + 1
        BY <4>1, <2>6, <2>8, <3>3, FS_AddElement
      <4>3. acks'[m] = acks[m] + 1
        BY <2>1, <2>3, <3>3
      <4>4. QED BY <3>1, <4>1, <4>2, <4>3, <2>8
    <3>4. CASE m = n /\ a.for = "commit"
      <4>1. AckedCommit(m)' = AckedCommit(m) \cup {a.from} /\ AckedProposal(m)' = AckedProposal(m)
        BY <2>5, <3>4
      <4>2. Cardinality(AckedCommit(m)') = Cardinality(AckedCommit(m)) + 1
        BY <4>1, <2>6, <2>8, <3>4, FS_AddElement
      <4>3. acks'[m] = acks[m] + 1
        BY <2>1, <2>3, <3>4
      <4>4. QED BY <3>1, <4>1, <4>2, <4>3, <2>8
    <3>5. QED BY <2>2, <3>2, <3>3, <3>4
  <2>10. QED BY <2>1, <2>3, <2>4, <2>9 DEF AcksCounted
<1>6. \/ /\ UNCHANGED <<acks, ackNet, proposals>>
         /\ \A f \in Follower : ~ SendCommit(f) /\ ~ AcceptProposal(f)
      \/ Propose
      \/ \E f \in Follower : SendCommit(f) \/ AcceptProposal(f)
      \/ \E a \in ackNet : DeliverAck(a)
  BY DEF Next, LeaderStep, FollowerStep, HandleAppend, SendProposal, ProposalSent, QuorumReached,
         LeaderCommits, FollowerCommits, Stop, vars, leaderVars, netVars
<1>7. QED BY <1>1, <1>2, <1>3, <1>4, <1>5, <1>6

----------------------------------------------------------------------------
(***************************************************************************)
(* Quorums.                                                                *)
(***************************************************************************)
\* Whatever was decided was accepted by a majority, the leader included.
DecidedOnQuorum == \A n \in 1 .. Decided : IsMajority(Accepted(n) \cup {Leader})

LEMMA QuorumIsMajority ==
  ASSUME NEW S \in SUBSET Participant, Cardinality(S) >= Quorum
  PROVE  IsMajority(S)
<1>1. Cardinality(Participant) \in Nat /\ Cardinality(S) \in Nat
  BY Paxos2Assumption, FS_Subset, FS_CardinalityType
<1>2. \A m, n \in Nat : m >= n \div 2 + 1 => 2 * m > n
  OBVIOUS
<1>3. QED BY <1>1, <1>2 DEF Quorum, IsMajority

\* A counter that reaches the quorum in its round holds acks of that
\* proposal only: no commit has been sent that could be acked.
LEMMA CountedIsQuorum ==
  ASSUME Types, Streams, AcksCounted, QuorumReached
  PROVE  IsMajority(Accepted(Round) \cup {Leader})
<1>1. Round \in 1 .. Round /\ pc = "collecting" /\ acks[Round] >= Quorum
  BY DEF Types, QuorumReached, Round
<1>2. CommitSent(Round) = {}
  BY <1>1 DEF CommitSent, Sent
<1>3. Cardinality(AckedCommit(Round)) = 0
  BY <1>2, FS_EmptySet DEF AckedCommit
<1>4. AckedProposal(Round) \subseteq Accepted(Round) /\ Accepted(Round) \subseteq Follower
  BY DEF AckedProposal, Accepted
<1>5. /\ Cardinality(AckedProposal(Round)) <= Cardinality(Accepted(Round))
      /\ Cardinality(AckedProposal(Round)) \in Nat /\ Cardinality(Accepted(Round)) \in Nat
      /\ Cardinality(Accepted(Round) \cup {Leader}) = Cardinality(Accepted(Round)) + 1
  <2>1. AckedProposal(Round) \in SUBSET Follower /\ Accepted(Round) \in SUBSET Follower
    BY <1>4
  <2>2. QED BY <1>4, <2>1, FollowersAreFinite, FS_Subset
<1>6. acks[Round] = 1 + Cardinality(AckedProposal(Round))
  BY <1>1, <1>3, <1>5 DEF AcksCounted
<1>7. Quorum \in Int
  <2>1. Cardinality(Participant) \in Nat
    BY <1>4, FollowersAreFinite
  <2>2. QED BY <2>1 DEF Quorum
<1>8. Cardinality(Accepted(Round) \cup {Leader}) >= Quorum
  BY <1>1, <1>5, <1>6, <1>7
<1>9. Accepted(Round) \cup {Leader} \in SUBSET Participant
  BY <1>4, Paxos2Assumption DEF Follower
<1>10. QED BY <1>8, <1>9, QuorumIsMajority

LEMMA InitQuorum == Init => DecidedOnQuorum
BY DEF Init, DecidedOnQuorum, Decided, Round

\* What was decided stays decided, and only QuorumReached decides.
LEMMA DecidedAdvances ==
  ASSUME Types, Streams, [Next]_vars
  PROVE  /\ Decided \in Nat /\ Decided <= Round
         /\ Decided' = Decided \/ (QuorumReached /\ Decided' = Decided + 1 /\ Decided' = Round)
<1>1. Round \in Nat /\ (pc # "idle" => Round >= 1) /\ proposals \in Seq(Entry)
  BY DEF Types, Round
<1>2. Decided \in Nat /\ Decided <= Round
  BY <1>1 DEF Decided, Types
<1>3. CASE UNCHANGED <<pc, proposals>>
  BY <1>2, <1>3 DEF Decided, Round
<1>4. CASE Propose
  <2>1. Round' = Round + 1 /\ pc = "idle" /\ pc' = "proposing"
    BY <1>1, <1>4 DEF Propose, Round
  <2>2. QED BY <1>1, <1>2, <2>1 DEF Decided
<1>5. CASE ProposalSent \/ LeaderCommits
  BY <1>2, <1>5 DEF ProposalSent, LeaderCommits, Decided, Round
<1>6. CASE QuorumReached
  BY <1>1, <1>2, <1>6 DEF QuorumReached, Decided, Round
<1>7. UNCHANGED <<pc, proposals>> \/ Propose \/ ProposalSent \/ LeaderCommits \/ QuorumReached
  BY DEF Next, LeaderStep, FollowerStep, HandleAppend, SendProposal, SendCommit, DeliverAck,
         AcceptProposal, FollowerCommits, Stop, vars, leaderVars
<1>8. QED BY <1>3, <1>4, <1>5, <1>6, <1>7

LEMMA QuorumInv ==
  Types /\ Streams /\ AcksCounted /\ DecidedOnQuorum /\ [Next]_vars => DecidedOnQuorum'
<1> SUFFICES ASSUME Types, Streams, AcksCounted, DecidedOnQuorum, [Next]_vars,
                    NEW n \in 1 .. Decided'
             PROVE  IsMajority(Accepted(n)' \cup {Leader})
  BY DEF DecidedOnQuorum, IsMajority
<1>1. n \in Nat /\ IsMajority(Accepted(n) \cup {Leader})
  <2>1. CASE n \in 1 .. Decided
    BY <2>1 DEF DecidedOnQuorum
  <2>2. CASE n \notin 1 .. Decided
    <3>1. QuorumReached /\ Decided' = Decided + 1 /\ Decided' = Round /\ Decided \in Nat
      BY <2>2, DecidedAdvances
    <3>2. n = Round
      BY <2>2, <3>1
    <3>3. QED BY <3>1, <3>2, CountedIsQuorum
  <2>3. QED BY <2>1, <2>2
<1>2. Accepted(n) \subseteq Accepted(n)'
  <2> SUFFICES ASSUME NEW f \in Follower, Received(f) >= 2 * n - 1 PROVE Received(f)' >= 2 * n - 1
    BY DEF Accepted
  <2>1. Received(f) \in Nat /\ (Received(f)' = Received(f) \/ Received(f)' = Received(f) + 1)
    BY CountsAreNat, StreamsAdvance
  <2>2. QED BY <1>1, <2>1
<1>3. Accepted(n) \in SUBSET Follower /\ Accepted(n)' \in SUBSET Follower
  BY DEF Accepted
<1>4. /\ Cardinality(Accepted(n) \cup {Leader}) \in Nat
      /\ Cardinality(Accepted(n)' \cup {Leader}) \in Nat
      /\ Cardinality(Accepted(n) \cup {Leader}) <= Cardinality(Accepted(n)' \cup {Leader})
  <2>1. IsFiniteSet(Accepted(n) \cup {Leader}) /\ IsFiniteSet(Accepted(n)' \cup {Leader})
    BY <1>3, FollowersAreFinite
  <2>2. QED BY <1>2, <2>1, FS_Subset, FS_CardinalityType
<1>5. Cardinality(Participant) \in Nat
  BY <1>3, FollowersAreFinite
<1>6. QED BY <1>1, <1>4, <1>5 DEF IsMajority

----------------------------------------------------------------------------
(***************************************************************************)
(* Versions and requests.                                                  *)
(***************************************************************************)
\* Versions grow, and a request is in one batch only.
Batches ==
  /\ \A i \in DOMAIN proposals : proposals[i].version < nextVersion
  /\ \A i, j \in DOMAIN proposals : i < j => proposals[i].version < proposals[j].version
  /\ Range(sequence) \subseteq submitted
  /\ \A i \in DOMAIN proposals :
       /\ Range(proposals[i].pairs) \subseteq submitted
       /\ Range(proposals[i].pairs) \cap Range(sequence) = {}
  /\ \A i, j \in DOMAIN proposals :
       i < j => Range(proposals[i].pairs) \cap Range(proposals[j].pairs) = {}

LEMMA InitBatches == Init => Batches
BY DEF Init, Batches, Range

LEMMA BatchesInv == Types /\ Batches /\ [Next]_vars => Batches'
<1> SUFFICES ASSUME Types, Batches, [Next]_vars PROVE Batches'
  OBVIOUS
<1>1. CASE UNCHANGED <<submitted, sequence, nextVersion, proposals>>
  BY <1>1 DEF Batches
<1>2. ASSUME NEW r \in Request, HandleAppend(r) PROVE Batches'
  <2>1. /\ sequence' = Append(sequence, r) /\ submitted' = submitted \cup {r} /\ r \notin submitted
        /\ UNCHANGED <<nextVersion, proposals>> /\ sequence \in Seq(Request)
    BY <1>2 DEF HandleAppend, Types
  <2>2. Range(sequence') = Range(sequence) \cup {r}
    <3>1. /\ DOMAIN sequence' = 1 .. (Len(sequence) + 1) /\ DOMAIN sequence = 1 .. Len(sequence)
          /\ sequence'[Len(sequence) + 1] = r /\ Len(sequence) \in Nat
          /\ \A i \in 1 .. Len(sequence) : sequence'[i] = sequence[i]
      BY <2>1, AppendFacts
    <3>2. \A i \in DOMAIN sequence' : i = Len(sequence) + 1 \/ i \in DOMAIN sequence
      BY <3>1
    <3>3. DOMAIN sequence \subseteq DOMAIN sequence' /\ Len(sequence) + 1 \in DOMAIN sequence'
      BY <3>1
    <3>4. QED BY <3>1, <3>2, <3>3 DEF Range
  <2>3. QED BY <2>1, <2>2 DEF Batches
<1>3. CASE Propose
  <2> DEFINE e == [version |-> nextVersion, pairs |-> sequence]
             n == Len(proposals)
  <2>1. /\ proposals' = Append(proposals, e) /\ sequence' = << >> /\ submitted' = submitted
        /\ nextVersion' = nextVersion + count /\ count # 0
        /\ nextVersion \in Nat /\ count \in Nat /\ proposals \in Seq(Entry)
    BY <1>3 DEF Propose, Types
  <2>2. e.version = nextVersion /\ e.pairs = sequence
    OBVIOUS
  <2> HIDE DEF e
  <2>3. /\ DOMAIN proposals' = 1 .. (n + 1) /\ DOMAIN proposals = 1 .. n /\ n \in Nat
        /\ proposals'[n + 1] = e /\ \A i \in 1 .. n : proposals'[i] = proposals[i]
    BY <2>1, AppendFacts
  <2> HIDE DEF n
  <2>4. \A i \in DOMAIN proposals' : i = n + 1 \/ (i \in DOMAIN proposals /\ i < n + 1)
    BY <2>3
  <2>5. nextVersion < nextVersion'
    BY <2>1
  <2>6. \A i \in DOMAIN proposals : proposals[i].version \in Nat
    <3>1. \A i \in DOMAIN proposals : proposals[i] \in Entry
      BY <2>1
    <3>2. QED BY <3>1 DEF Entry
  <2>7. ASSUME NEW i \in DOMAIN proposals'
        PROVE  /\ proposals'[i].version < nextVersion'
               /\ Range(proposals'[i].pairs) \subseteq submitted'
    <3>1. CASE i = n + 1
      BY <3>1, <2>1, <2>2, <2>3, <2>5 DEF Batches
    <3>2. CASE i \in DOMAIN proposals
      <4>1. proposals'[i] = proposals[i]
        BY <3>2, <2>3
      <4>2. proposals[i].version < nextVersion
        BY <3>2 DEF Batches
      <4>3. proposals[i].version < nextVersion'
        BY <3>2, <4>2, <2>1, <2>6
      <4>4. QED BY <3>2, <4>1, <4>3, <2>1 DEF Batches
    <3>3. QED BY <3>1, <3>2, <2>4
  <2>8. ASSUME NEW i \in DOMAIN proposals', NEW j \in DOMAIN proposals', i < j
        PROVE  /\ proposals'[i].version < proposals'[j].version
               /\ Range(proposals'[i].pairs) \cap Range(proposals'[j].pairs) = {}
    <3>1. i \in DOMAIN proposals
      BY <2>3, <2>8
    <3>2. CASE j = n + 1
      BY <3>1, <3>2, <2>2, <2>3 DEF Batches
    <3>3. CASE j \in DOMAIN proposals
      BY <3>1, <3>3, <2>3, <2>8 DEF Batches
    <3>4. QED BY <3>2, <3>3, <2>4
  <2>9. Range(sequence') = {}
    BY <2>1 DEF Range
  <2>10. QED BY <2>7, <2>8, <2>9 DEF Batches
<1>4. UNCHANGED <<submitted, sequence, nextVersion, proposals>>
      \/ (\E r \in Request : HandleAppend(r)) \/ Propose
  BY DEF Next, LeaderStep, FollowerStep, SendProposal, SendCommit, ProposalSent, QuorumReached,
         LeaderCommits, DeliverAck, AcceptProposal, FollowerCommits, Stop, vars, leaderVars
<1>5. QED BY <1>1, <1>2, <1>3, <1>4

\* count_ is the number of actions in the batch being collected, and versions
\* number the actions of the batches one after the other.
Numbered ==
  /\ IsFiniteSet(Actions(sequence)) /\ count = Cardinality(Actions(sequence))
  /\ \A n \in DOMAIN proposals :
       /\ n = 1 => proposals[n].version = 1
       /\ n # 1 => proposals[n].version = proposals[n - 1].version + ActionsIn(proposals[n - 1])
  /\ proposals = << >> => nextVersion = 1
  /\ proposals # << >> => nextVersion = Current.version + ActionsIn(Current)

LEMMA NoActions == Actions(<< >>) = {} /\ IsFiniteSet(Actions(<< >>)) /\ Cardinality(Actions(<< >>)) = 0
<1>1. Actions(<< >>) = {}
  BY DEF Actions
<1>2. QED BY <1>1, FS_EmptySet

\* Another request adds its own actions.
LEMMA ActionsOfAppend ==
  ASSUME NEW s \in Seq(Request), NEW r \in Request, IsFiniteSet(Actions(s))
  PROVE  /\ IsFiniteSet(Actions(Append(s, r)))
         /\ Cardinality(Actions(Append(s, r))) = Cardinality(Actions(s)) + CountOf[r]
<1> DEFINE n == Len(s)  new == {n + 1} \X (1 .. CountOf[r])
<1>1. /\ DOMAIN Append(s, r) = 1 .. (n + 1) /\ DOMAIN s = 1 .. n /\ n \in Nat
      /\ Append(s, r)[n + 1] = r /\ \A i \in 1 .. n : Append(s, r)[i] = s[i]
  BY AppendFacts
<1>2. CountOf[r] \in Nat
  BY Paxos2Assumption
<1> HIDE DEF n
<1>3. Actions(Append(s, r)) = Actions(s) \cup new
  <2>1. \A i : i \in DOMAIN Append(s, r) <=> i \in DOMAIN s \/ i = n + 1
    BY <1>1
  <2>2. QED BY <1>1, <2>1 DEF Actions
<1>4. Actions(s) \cap new = {}
  <2>1. n + 1 \notin DOMAIN s
    BY <1>1
  <2>2. QED BY <2>1 DEF Actions
<1>5. IsFiniteSet(new) /\ Cardinality(new) = CountOf[r]
  <2>1. IsFiniteSet({n + 1}) /\ Cardinality({n + 1}) = 1
    BY FS_Singleton
  <2>2. IsFiniteSet(1 .. CountOf[r]) /\ Cardinality(1 .. CountOf[r]) = CountOf[r]
    <3>1. 1 \in Int /\ CountOf[r] \in Int /\ CountOf[r] - 1 + 1 = CountOf[r]
          /\ (1 > CountOf[r] => CountOf[r] = 0)
      BY <1>2
    <3>2. QED BY <3>1, FS_Interval
  <2>3. IsFiniteSet(new) /\ Cardinality(new) = Cardinality({n + 1}) * Cardinality(1 .. CountOf[r])
    BY <2>1, <2>2, FS_Product
  <2>4. QED BY <1>2, <2>1, <2>2, <2>3
<1>6. Cardinality(Actions(s) \cap new) = 0
  BY <1>4, FS_EmptySet
<1>7. /\ IsFiniteSet(Actions(s) \cup new)
      /\ Cardinality(Actions(s) \cup new) =
           Cardinality(Actions(s)) + Cardinality(new) - Cardinality(Actions(s) \cap new)
  BY <1>5, FS_Union
<1>8. Cardinality(Actions(s)) \in Nat
  BY FS_CardinalityType
<1>9. QED BY <1>2, <1>3, <1>5, <1>6, <1>7, <1>8

LEMMA InitNumbered == Init => Numbered
BY NoActions DEF Init, Numbered

LEMMA NumberedInv == Types /\ Numbered /\ [Next]_vars => Numbered'
<1> SUFFICES ASSUME Types, Numbered, [Next]_vars PROVE Numbered'
  OBVIOUS
<1>1. CASE UNCHANGED <<sequence, count, nextVersion, proposals>>
  BY <1>1 DEF Numbered, Actions, ActionsIn, Current, Round
<1>2. ASSUME NEW r \in Request, HandleAppend(r) PROVE Numbered'
  <2>1. /\ sequence' = Append(sequence, r) /\ count' = count + CountOf[r]
        /\ UNCHANGED <<nextVersion, proposals>> /\ sequence \in Seq(Request)
    BY <1>2 DEF HandleAppend, Types
  <2>2. /\ IsFiniteSet(Actions(sequence')) /\ count' = Cardinality(Actions(sequence'))
    BY <2>1, ActionsOfAppend DEF Numbered
  <2>3. Current' = Current
    BY <2>1 DEF Current, Round
  <2>4. /\ \A n \in DOMAIN proposals :
             /\ n = 1 => proposals[n].version = 1
             /\ n # 1 => proposals[n].version = proposals[n - 1].version + ActionsIn(proposals[n - 1])
        /\ proposals = << >> => nextVersion = 1
        /\ proposals # << >> => nextVersion = Current.version + ActionsIn(Current)
    BY DEF Numbered
  <2>5. QED BY <2>1, <2>2, <2>3, <2>4 DEF Numbered
<1>3. CASE Propose
  <2> DEFINE e == [version |-> nextVersion, pairs |-> sequence]
             n == Len(proposals)
  <2>1. /\ proposals' = Append(proposals, e) /\ sequence' = << >> /\ count' = 0
        /\ nextVersion' = nextVersion + count /\ proposals \in Seq(Entry)
    BY <1>3 DEF Propose, Types
  <2>2. e.version = nextVersion /\ ActionsIn(e) = count
    BY DEF Numbered, ActionsIn
  <2> HIDE DEF e
  <2>3. /\ DOMAIN proposals' = 1 .. (n + 1) /\ DOMAIN proposals = 1 .. n /\ n \in Nat
        /\ Len(proposals') = n + 1
        /\ proposals'[n + 1] = e /\ \A i \in 1 .. n : proposals'[i] = proposals[i]
    BY <2>1, AppendFacts
  <2>4. proposals = << >> <=> n = 0
    BY <2>1
  <2>5. n # 0 => Current = proposals[n]
    BY DEF Current, Round
  <2>6. Current' = e /\ proposals' # << >>
    BY <2>3 DEF Current, Round
  <2> HIDE DEF n
  <2>7. ASSUME NEW i \in DOMAIN proposals'
        PROVE  /\ i = 1 => proposals'[i].version = 1
               /\ i # 1 => proposals'[i].version = proposals'[i - 1].version + ActionsIn(proposals'[i - 1])
    <3>1. CASE i = n + 1
      <4>1. CASE n = 0
        BY <3>1, <4>1, <2>2, <2>3, <2>4 DEF Numbered
      <4>2. CASE n # 0
        <5>1. i # 1 /\ i - 1 = n /\ n \in 1 .. n /\ proposals'[n] = proposals[n]
          BY <3>1, <4>2, <2>3
        <5>2. proposals'[i].version = nextVersion
          BY <3>1, <2>2, <2>3
        <5>3. nextVersion = proposals[n].version + ActionsIn(proposals[n])
          BY <4>2, <2>4, <2>5 DEF Numbered
        <5>4. QED BY <5>1, <5>2, <5>3
      <4>3. QED BY <4>1, <4>2
    <3>2. CASE i \in DOMAIN proposals
      <4>1. proposals'[i] = proposals[i] /\ (i # 1 => proposals'[i - 1] = proposals[i - 1])
        BY <3>2, <2>3
      <4>2. QED BY <3>2, <4>1 DEF Numbered
    <3>3. QED BY <2>3, <3>1, <3>2
  <2>8. \A x : ActionsIn(x)' = ActionsIn(x)
    BY DEF ActionsIn, Actions
  <2>9. IsFiniteSet(Actions(sequence')) /\ count' = Cardinality(Actions(sequence'))
    BY <2>1, NoActions
  <2>10. nextVersion' = Current'.version + ActionsIn(Current')
    BY <2>1, <2>2, <2>6
  <2>11. QED BY <2>6, <2>7, <2>9, <2>10 DEF Numbered
<1>4. UNCHANGED <<sequence, count, nextVersion, proposals>>
      \/ (\E r \in Request : HandleAppend(r)) \/ Propose
  BY DEF Next, LeaderStep, FollowerStep, SendProposal, SendCommit, ProposalSent, QuorumReached,
         LeaderCommits, DeliverAck, AcceptProposal, FollowerCommits, Stop, vars, leaderVars
<1>5. QED BY <1>1, <1>2, <1>3, <1>4

----------------------------------------------------------------------------
(***************************************************************************)
(* The theorems.                                                           *)
(***************************************************************************)
IInv == Types /\ Streams /\ AcksCounted /\ DecidedOnQuorum /\ Batches /\ Numbered

\* The inductive invariant holds in every reachable state.
THEOREM Invariance == Spec => []IInv
<1>1. Init => IInv
  BY InitStreams, InitAcks, InitQuorum, InitBatches, InitNumbered DEF IInv
<1>2. IInv /\ [Next]_vars => IInv'
  BY TypesInv, StreamsInv, AcksInv, QuorumInv, BatchesInv, NumberedInv DEF IInv
<1>3. QED BY <1>1, <1>2, PTL DEF Spec

\* Every variable keeps its type; a counter never exceeds two acks of every
\* participant, the late acks of commits included.
THEOREM TypeCorrect == Spec => []TypeOK
<1>1. ASSUME IInv PROVE TypeOK
  <2>1. Types /\ Streams /\ AcksCounted
    BY <1>1 DEF IInv
  <2>2. acks \in [1 .. Round -> 0 .. 2 * Cardinality(Participant)]
    <3>1. DOMAIN acks = 1 .. Round /\ acks \in Seq(Nat)
      BY <2>1 DEF Types, Round
    <3>2. ASSUME NEW n \in 1 .. Round PROVE acks[n] \in 0 .. 2 * Cardinality(Participant)
      <4>1. acks[n] = 1 + Cardinality(AckedProposal(n)) + Cardinality(AckedCommit(n))
        BY <2>1 DEF AcksCounted
      <4>2. AckedProposal(n) \in SUBSET Follower /\ AckedCommit(n) \in SUBSET Follower
        BY DEF AckedProposal, AckedCommit, Accepted, CommitSent
      <4>3. /\ Cardinality(AckedProposal(n)) \in Nat /\ Cardinality(AckedCommit(n)) \in Nat
            /\ Cardinality(Participant) \in Nat
            /\ Cardinality(AckedProposal(n)) + 1 <= Cardinality(Participant)
            /\ Cardinality(AckedCommit(n)) + 1 <= Cardinality(Participant)
        BY <4>2, FollowersAreFinite
      <4>4. QED BY <4>1, <4>3
    <3>3. QED BY <3>1, <3>2
  <2>3. ASSUME NEW f \in Follower
        PROVE  /\ \A i \in DOMAIN channel[f] :
                    channel[f][i] \in {Proposal(proposals[n], n) : n \in 1 .. Round}
                                      \cup {CommitFor(n) : n \in 1 .. Round}
               /\ uncommitted[f] \in Seq(Entry)
    <3>1. \A i \in DOMAIN channel[f] : InStream(channel[f][i], Received(f) + i)
      BY <2>1 DEF Streams, FollowsStream
    <3>2. QED BY <3>1, <2>1 DEF InStream, Types
  <2>4. QED BY <2>1, <2>2, <2>3 DEF Types, TypeOK
<1>2. QED BY Invariance, <1>1, PTL

\* A commit always finds its proposal, and no follower has two open.
THEOREM CommitsFindProposals == Spec => []CommitFindsProposal
<1>1. ASSUME IInv PROVE CommitFindsProposal
  <2> SUFFICES ASSUME NEW f \in Follower
               PROVE  /\ Len(uncommitted[f]) <= 1
                      /\ channel[f] # << >> =>
                           (Head(channel[f]).type = "commit" <=> uncommitted[f] # << >>)
    BY DEF CommitFindsProposal
  <2>1. Types /\ Streams
    BY <1>1 DEF IInv
  <2>2. Len(uncommitted[f]) <= 1
    BY <2>1 DEF Streams, FollowsStream
  <2>3. ASSUME channel[f] # << >> PROVE Head(channel[f]).type = "commit" <=> uncommitted[f] # << >>
    <3>1. Head(channel[f]).type \in {"proposal", "commit"}
      <4>1. InStream(Head(channel[f]), Received(f) + 1)
        BY <2>1, <2>3, NextMessage
      <4>2. QED BY <4>1 DEF InStream, Proposal, CommitFor
    <3>2. CASE Head(channel[f]).type = "proposal"
      <4>1. uncommitted[f] = << >>
        BY <2>1, <2>3, <3>2, NextMessage
      <4>2. QED BY <3>2, <4>1
    <3>3. CASE Head(channel[f]).type = "commit"
      <4>1. Len(uncommitted[f]) = 1
        BY <2>1, <2>3, <3>3, NextMessage
      <4>2. uncommitted[f] # << >>
        BY <4>1
      <4>3. QED BY <3>3, <4>2
    <3>4. QED BY <3>1, <3>2, <3>3
  <2>4. QED BY <2>2, <2>3
<1>2. QED BY Invariance, <1>1, PTL

\* What a log holds was decided.
LEMMA LogIsDecided ==
  ASSUME IInv, NEW p \in Participant
  PROVE  /\ Len(log[p]) \in Nat /\ DOMAIN log[p] = 1 .. Len(log[p]) /\ Len(log[p]) <= Decided
         /\ \A n \in DOMAIN log[p] : log[p][n] = proposals[n]
<1>1. /\ Types /\ Streams /\ Round \in Nat /\ log[p] \in Seq(Entry)
      /\ (pc # "idle" => Round > 0)
      /\ pc \in {"idle", "proposing", "collecting", "committing"}
  BY DEF IInv, Types, Round
<1>2. Len(log[p]) \in Nat /\ DOMAIN log[p] = 1 .. Len(log[p])
  BY <1>1
<1>3. CASE p = Leader
  BY <1>1, <1>2, <1>3 DEF Streams, LeaderFollows, Decided
<1>4. CASE p # Leader
  <2>1. p \in Follower /\ FollowsStream(p)
    BY <1>1, <1>4 DEF Follower, Streams
  <2>2. \A n \in DOMAIN log[p] : log[p][n] = proposals[n]
    BY <2>1 DEF FollowsStream
  <2>3. Received(p) <= Sent(p) /\ Received(p) \in Nat
    BY <1>1, <2>1, CountsAreNat
  <2>4. Len(uncommitted[p]) \in Nat
    BY <1>1, <2>1 DEF Types
  <2>5. Sent(p) <= 2 * Decided + 1 /\ Decided \in Nat /\ Sent(p) \in Nat
    <3>1. Sent(p) <= 2 * Decided + 1 /\ Decided \in Nat
      BY <1>1 DEF Sent, Decided
    <3>2. QED BY <1>1, <2>1, <3>1, CountsAreNat
  <2>6. Received(p) <= 2 * Decided + 1
    BY <2>3, <2>5
  <2>7. Len(log[p]) <= Decided
    BY <1>2, <2>4, <2>5, <2>6, Halves DEF Received
  <2>8. QED BY <1>2, <2>2, <2>7
<1>5. QED BY <1>3, <1>4

\* The entries of every log number the actions of their blocks without a gap
\* and without an overlap, the types included (paxos2.cc:114-135).
THEOREM ConsistentHolds == Spec => []Consistent
<1>1. ASSUME IInv PROVE VersionsAreContiguous
  <2> SUFFICES ASSUME NEW p \in Participant, NEW n \in DOMAIN log[p]
               PROVE  log[p][n].version = IF n = 1 THEN 1
                                          ELSE log[p][n - 1].version + ActionsIn(log[p][n - 1])
    BY DEF VersionsAreContiguous
  <2>1. /\ Len(log[p]) \in Nat /\ DOMAIN log[p] = 1 .. Len(log[p]) /\ Len(log[p]) <= Decided
        /\ \A k \in DOMAIN log[p] : log[p][k] = proposals[k]
    BY <1>1, LogIsDecided
  <2>2. Decided <= Round /\ Decided \in Nat /\ Round \in Nat /\ DOMAIN proposals = 1 .. Round
    BY <1>1 DEF IInv, Types, Round, Decided
  <2>3. n \in DOMAIN proposals /\ (n # 1 => n - 1 \in DOMAIN log[p])
    BY <2>1, <2>2
  <2>4. log[p][n] = proposals[n] /\ (n # 1 => log[p][n - 1] = proposals[n - 1])
    BY <2>1, <2>3
  <2>5. QED BY <1>1, <2>3, <2>4 DEF IInv, Numbered
<1>2. Spec => []VersionsAreContiguous
  BY Invariance, <1>1, PTL
<1>3. QED BY <1>2, TypeCorrect, PTL DEF Consistent

\* What is in any log is known to a majority of the participants.
THEOREM CommittedCorrect == Spec => []CommittedIsOnQuorum
<1>1. ASSUME IInv PROVE CommittedIsOnQuorum
  <2> SUFFICES ASSUME NEW p \in Participant, NEW n \in DOMAIN log[p]
               PROVE  /\ log[p][n] = proposals[n]
                      /\ IsMajority({q \in Participant : Knows(q, n)})
    BY DEF CommittedIsOnQuorum
  <2>1. Types /\ Streams /\ DecidedOnQuorum
    BY <1>1 DEF IInv
  <2>2. log[p][n] = proposals[n] /\ n \in 1 .. Decided /\ n <= Round /\ n \in Nat
    <3>1. Decided <= Round /\ Decided \in Nat /\ Round \in Nat
      BY <2>1 DEF Decided, Types, Round
    <3>2. QED BY <1>1, <3>1, LogIsDecided
  <2>3. \A q \in Accepted(n) \cup {Leader} : q \in Participant /\ Knows(q, n)
    <3>1. Leader \in Participant /\ Knows(Leader, n)
      BY <2>2, Paxos2Assumption DEF Knows
    <3>2. ASSUME NEW q \in Accepted(n) PROVE q \in Participant /\ Knows(q, n)
      <4>1. /\ q \in Follower /\ q \in Participant /\ q # Leader /\ Received(q) >= 2 * n - 1
            /\ FollowsStream(q)
        BY <2>1 DEF Accepted, Follower, Streams
      <4>2. /\ log[q] \in Seq(Entry) /\ uncommitted[q] \in Seq(Entry)
            /\ Len(uncommitted[q]) <= 1
        BY <2>1, <4>1 DEF Types, FollowsStream
      <4>3. Len(log[q]) \in Nat /\ Len(uncommitted[q]) \in Nat /\ DOMAIN log[q] = 1 .. Len(log[q])
            /\ DOMAIN uncommitted[q] = 1 .. Len(uncommitted[q])
        BY <4>2
      <4>4. CASE n <= Len(log[q])
        BY <2>2, <4>1, <4>3, <4>4 DEF Knows
      <4>5. CASE n > Len(log[q])
        <5>1. n = Len(log[q]) + 1 /\ Len(uncommitted[q]) = 1
          BY <2>2, <4>1, <4>2, <4>3, <4>5, Halves DEF Received
        <5>2. 1 \in DOMAIN uncommitted[q] /\ uncommitted[q][1] = proposals[n]
          BY <4>1, <4>3, <5>1 DEF FollowsStream
        <5>3. QED BY <4>1, <5>2 DEF Knows
      <4>6. QED BY <2>2, <4>3, <4>4, <4>5
    <3>3. QED BY <3>1, <3>2
  <2>4. Accepted(n) \cup {Leader} \subseteq {q \in Participant : Knows(q, n)}
    BY <2>3
  <2>5. IsMajority(Accepted(n) \cup {Leader})
    BY <2>1, <2>2 DEF DecidedOnQuorum
  <2>6. /\ Cardinality(Accepted(n) \cup {Leader}) <= Cardinality({q \in Participant : Knows(q, n)})
        /\ Cardinality(Accepted(n) \cup {Leader}) \in Nat
        /\ Cardinality({q \in Participant : Knows(q, n)}) \in Nat
        /\ Cardinality(Participant) \in Nat
    <3>1. {q \in Participant : Knows(q, n)} \subseteq Participant
      OBVIOUS
    <3>2. IsFiniteSet({q \in Participant : Knows(q, n)}) /\ IsFiniteSet(Participant)
      BY <3>1, Paxos2Assumption, FS_Subset
    <3>3. QED BY <2>4, <3>2, FS_Subset, FS_CardinalityType
  <2>7. QED BY <2>2, <2>5, <2>6 DEF IsMajority
<1>2. QED BY Invariance, <1>1, PTL

\* The metalog implements one growing sequence of entries of which every
\* participant learns a prefix.
THEOREM Implements == Spec => IsSequencedLog
<1> DEFINE chosen    == SubSeq(proposals, 1, Decided)
           learned   == [p \in Participant |-> Len(log[p])]
           IsDecided == \A p \in Participant : Len(log[p]) \in Nat /\ Len(log[p]) <= Decided
<1>1. Init => Metalog!AbsInit
  BY Paxos2Assumption DEF Init, Metalog!AbsInit, Decided, Round
<1>2. IInv => IsDecided
  BY LogIsDecided
<1>3. ASSUME IInv, IsDecided, IsDecided', [Next]_vars
      PROVE  [Metalog!AbsNext]_(Metalog!absVars)
  <2>1. /\ Types /\ Streams /\ Batches /\ proposals \in Seq(Entry)
        /\ Decided \in Nat /\ Decided <= Round
        /\ Round = Len(proposals) /\ Round \in Nat
    BY <1>3, DecidedAdvances DEF IInv, Types, Round
  <2>2. /\ chosen \in Seq(Entry) /\ Len(chosen) = Decided
        /\ \A i \in 1 .. Decided : chosen[i] = proposals[i]
    BY <2>1, PrefixFacts
  <2>3. CASE QuorumReached
    <3>1. /\ Decided' = Decided + 1 /\ Decided + 1 = Round /\ UNCHANGED <<proposals, log>>
      BY <2>1, <2>3, <1>3, DecidedAdvances DEF QuorumReached, Decided, Round
    <3> DEFINE e == proposals[Round]
    <3>2. chosen' = Append(chosen, e) /\ e \in Entry
      BY <2>1, <3>1, PrefixFacts
    <3>3. ASSUME NEW i \in DOMAIN chosen
          PROVE  /\ chosen[i].version < e.version
                 /\ \A j \in DOMAIN e.pairs : ~ Metalog!InEntry(chosen[i], e.pairs[j])
      <4>1. i \in 1 .. Decided /\ i \in DOMAIN proposals /\ Round \in DOMAIN proposals /\ i < Round
        BY <2>1, <2>2, <3>1
      <4>2. /\ proposals[i].version < e.version
            /\ Range(proposals[i].pairs) \cap Range(e.pairs) = {}
        BY <2>1, <4>1 DEF Batches
      <4>3. chosen[i] = proposals[i]
        BY <2>2, <4>1
      <4>4. QED BY <4>2, <4>3 DEF Metalog!InEntry, Range
    <3>4. learned' = learned
      BY <3>1
    <3> HIDE DEF chosen, learned, e
    <3>5. e \in Metalog!Entry
      BY <3>2 DEF Entry, Metalog!Entry
    <3>6. Len(chosen') = Len(chosen) + 1 /\ chosen'[Len(chosen')] = e
      BY <2>2, <3>2, AppendFacts
    <3> USE DEF chosen, learned
    <3>7. Metalog!Choose(e)
      BY <3>2, <3>3, <3>4, <3>5 DEF Metalog!Choose
    <3>8. QED BY <3>6, <3>7 DEF Metalog!AbsNext
  <2>4. ASSUME NEW p \in Participant, UNCHANGED proposals, Decided' = Decided,
               log' = [log EXCEPT ![p] = Append(@, log'[p][Len(log[p]) + 1])]
        PROVE  Metalog!AbsNext
    <3>1. log[p] \in Seq(Entry) /\ Len(log'[p]) = Len(log[p]) + 1
      BY <2>1, <2>4, AppendFacts DEF Types
    <3>2. learned' = [learned EXCEPT ![p] = @ + 1] /\ chosen' = chosen
      BY <2>1, <2>4, <3>1 DEF Types
    <3>3. learned[p] < Len(chosen)
      BY <1>3, <2>1, <2>2, <2>4, <3>1
    <3>4. Metalog!Learn(p)
      BY <3>2, <3>3 DEF Metalog!Learn
    <3>5. QED BY <3>4 DEF Metalog!AbsNext
  <2>5. CASE LeaderCommits
    <3>1. Decided' = Decided
      BY <1>3, <2>1, <2>5, DecidedAdvances DEF LeaderCommits, QuorumReached
    <3>2. /\ Leader \in Participant /\ log[Leader] \in Seq(Entry) /\ UNCHANGED proposals
          /\ log' = [log EXCEPT ![Leader] = Append(@, Current)]
      BY <2>1, <2>5, Paxos2Assumption DEF LeaderCommits, Types
    <3>3. Current = log'[Leader][Len(log[Leader]) + 1]
      BY <2>1, <3>2, AppendFacts DEF Types
    <3>4. QED BY <2>4, <3>1, <3>2, <3>3
  <2>6. ASSUME NEW f \in Follower, FollowerCommits(f) PROVE Metalog!AbsNext
    <3>1. Decided' = Decided
      BY <2>6 DEF FollowerCommits, leaderVars, Decided, Round
    <3>2. /\ f \in Participant /\ log[f] \in Seq(Entry) /\ UNCHANGED proposals
          /\ log' = [log EXCEPT ![f] = Append(@, Head(uncommitted[f]))]
      BY <2>1, <2>6 DEF FollowerCommits, leaderVars, Types, Follower
    <3>3. Head(uncommitted[f]) = log'[f][Len(log[f]) + 1]
      BY <2>1, <3>2, AppendFacts DEF Types
    <3>4. QED BY <2>4, <3>1, <3>2, <3>3
  <2>7. CASE UNCHANGED log /\ ~ QuorumReached
    <3>1. Decided' = Decided
      BY <1>3, <2>1, <2>7, DecidedAdvances
    <3>2. UNCHANGED proposals \/ proposals' = Append(proposals, proposals'[Round + 1])
      <4>1. CASE Propose
        BY <2>1, <4>1, AppendFacts DEF Propose
      <4>2. CASE ~ Propose
        BY <1>3, <4>2 DEF Next, LeaderStep, FollowerStep, HandleAppend, SendProposal, SendCommit,
             ProposalSent, QuorumReached, LeaderCommits, DeliverAck, AcceptProposal,
             FollowerCommits, Stop, vars, leaderVars
      <4>3. QED BY <4>1, <4>2
    <3>3. chosen' = chosen
      BY <2>1, <3>1, <3>2, PrefixFacts
    <3>4. QED BY <2>7, <3>3 DEF Metalog!absVars
  <2>8. QuorumReached \/ LeaderCommits \/ (\E f \in Follower : FollowerCommits(f))
        \/ (UNCHANGED log /\ ~ QuorumReached)
    BY <1>3 DEF Next, LeaderStep, FollowerStep, HandleAppend, Propose, SendProposal, SendCommit,
         ProposalSent, DeliverAck, AcceptProposal, Stop, vars, leaderVars
  <2>9. QED BY <2>3, <2>5, <2>6, <2>7, <2>8
<1>4. IInv /\ IsDecided /\ IsDecided' /\ [Next]_vars => [Metalog!AbsNext]_(Metalog!absVars)
  BY <1>3
<1>5. QED BY <1>1, <1>2, <1>4, Invariance, PTL DEF Spec, IsSequencedLog, Metalog!AbsSpec
=============================================================================
