--------------------------- MODULE BlockLogProofs ---------------------------
(***************************************************************************)
(* Proofs about BlockLog: type correctness, that vote counters and used    *)
(* sub-batches are given back, that a block in the metalog is stored by a  *)
(* majority of replicas, that the metalog is used as SequencedLog has it,  *)
(* and that the readers are handed one log, ActionLog.                     *)
(*                                                                         *)
(* The inductive invariant says where everything is: an action is in one   *)
(* queue or block, a replica's vote for a block is a message or is counted,*)
(* a reader's sub-batch of a block is not made yet, on its way, received   *)
(* or used up, and what a reader has handed over is what concerns it of    *)
(* the metalog up to its place there.                                      *)
(***************************************************************************)
EXTENDS BlockLog, FiniteSetTheorems, FunctionTheorems, SequenceTheorems, WellFoundedInduction, TLAPS

----------------------------------------------------------------------------
(***************************************************************************)
(* Sequences, sets of numbers, and the machines.                           *)
(***************************************************************************)
LEMMA TailFacts ==
  ASSUME NEW S, NEW s \in Seq(S), s # << >>
  PROVE  /\ Tail(s) \in Seq(S) /\ Len(s) \in Nat \ {0} /\ Len(Tail(s)) = Len(s) - 1
         /\ Head(s) = s[1] /\ Head(s) \in S
         /\ DOMAIN s = 1 .. Len(s) /\ DOMAIN Tail(s) = 1 .. (Len(s) - 1)
         /\ \A k \in DOMAIN Tail(s) : k \in Nat /\ k + 1 \in DOMAIN s /\ Tail(s)[k] = s[k + 1]
OBVIOUS

LEMMA AppendFacts ==
  ASSUME NEW S, NEW s \in Seq(S), NEW e \in S
  PROVE  /\ Append(s, e) \in Seq(S) /\ Len(Append(s, e)) = Len(s) + 1 /\ Len(s) \in Nat
         /\ DOMAIN Append(s, e) = 1 .. (Len(s) + 1) /\ DOMAIN s = 1 .. Len(s)
         /\ Append(s, e)[Len(s) + 1] = e
         /\ \A i \in 1 .. Len(s) : Append(s, e)[i] = s[i]
OBVIOUS

LEMMA NatSetHasLeast ==
  ASSUME NEW S \in SUBSET Nat, S # {}
  PROVE  \E v \in S : \A w \in S : v <= w
<1> DEFINE R == OpToRel(<, Nat)
<1>1. IsWellFoundedOn(R, Nat)
  BY NatLessThanWellFounded
<1>2. \A x, y \in Nat : <<y, x>> \in R <=> y < x
  BY DEF OpToRel
<1> HIDE DEF R
<1>3. PICK x \in S : \A y \in S : ~ (<<y, x>> \in R)
  BY <1>1, WFMin
<1>4. ASSUME NEW w \in S PROVE x <= w
  <2>1. x \in Nat /\ w \in Nat
    OBVIOUS
  <2>2. ~ (w < x)
    BY <1>2, <1>3, <2>1
  <2>3. QED BY <2>1, <2>2
<1>5. QED BY <1>4

IncreasingFrom(n, S) == {f \in [1 .. n -> S] : \A i, j \in 1 .. n : i < j => f[i] < f[j]}

\* A finite set of numbers can be put in order: its least number first, then
\* the others, which are fewer.
LEMMA OrderExists ==
  ASSUME NEW S \in SUBSET Nat, IsFiniteSet(S)
  PROVE  IncreasingFrom(Cardinality(S), S) # {}
<1> DEFINE Bad == {n \in Nat : \E T \in SUBSET Nat : /\ IsFiniteSet(T) /\ Cardinality(T) = n
                                                    /\ IncreasingFrom(n, T) = {}}
<1>1. SUFFICES Bad = {}
  <2>1. Cardinality(S) \in Nat
    BY FS_CardinalityType
  <2>2. QED BY <1>1, <2>1
<1>2. SUFFICES ASSUME Bad # {} PROVE FALSE
  OBVIOUS
<1>3. PICK n \in Bad : \A k \in Bad : n <= k
  <2>1. Bad \in SUBSET Nat
    OBVIOUS
  <2> HIDE DEF Bad
  <2>2. QED BY <1>2, <2>1, NatSetHasLeast
<1>4. PICK T \in SUBSET Nat : IsFiniteSet(T) /\ Cardinality(T) = n /\ IncreasingFrom(n, T) = {}
  OBVIOUS
<1>5. n \in Nat
  OBVIOUS
<1>6. CASE n = 0
  <2>1. [i \in 1 .. 0 |-> 0] \in IncreasingFrom(0, T)
    BY DEF IncreasingFrom
  <2>2. QED BY <1>4, <1>6, <2>1
<1>7. CASE n # 0
  <2>1. T # {}
    BY <1>4, <1>7, FS_EmptySet
  <2>2. PICK l \in T : \A x \in T : l <= x
    BY <2>1, NatSetHasLeast
  <2>3. /\ T \ {l} \in SUBSET Nat /\ IsFiniteSet(T \ {l})
        /\ Cardinality(T \ {l}) = n - 1 /\ n - 1 \in Nat
    BY <1>4, <1>5, <1>7, FS_RemoveElement
  <2>4. n - 1 \notin Bad
    <3> HIDE DEF Bad
    <3>1. ~ (n <= n - 1)
      BY <1>5
    <3>2. QED BY <1>3, <3>1
  <2>5. PICK f : f \in IncreasingFrom(n - 1, T \ {l})
    BY <2>3, <2>4
  <2> DEFINE g == [i \in 1 .. n |-> IF i = 1 THEN l ELSE f[i - 1]]
  <2>6. /\ f \in [1 .. (n - 1) -> T \ {l}]
        /\ \A i, j \in 1 .. (n - 1) : i < j => f[i] < f[j]
    BY <2>5 DEF IncreasingFrom
  <2>7. \A i \in 1 .. n : i # 1 => i - 1 \in 1 .. (n - 1) /\ f[i - 1] \in T /\ f[i - 1] # l
    <3>1. \A i \in 1 .. n : i # 1 => i - 1 \in 1 .. (n - 1)
      BY <1>5
    <3>2. QED BY <2>6, <3>1
  <2>8. g \in [1 .. n -> T]
    BY <2>7
  <2>9. ASSUME NEW i \in 1 .. n, NEW j \in 1 .. n, i < j PROVE g[i] < g[j]
    <3>1. j # 1 /\ g[j] = f[j - 1] /\ j - 1 \in 1 .. (n - 1) /\ f[j - 1] \in T /\ f[j - 1] # l
      BY <1>5, <2>7, <2>9
    <3>2. CASE i = 1
      <4>1. g[i] = l /\ l <= f[j - 1] /\ l \in Nat /\ f[j - 1] \in Nat
        BY <2>2, <3>1, <3>2
      <4>2. QED BY <3>1, <4>1
    <3>3. CASE i # 1
      <4>1. g[i] = f[i - 1] /\ i - 1 \in 1 .. (n - 1) /\ i - 1 < j - 1
        BY <1>5, <2>7, <2>9, <3>3
      <4>2. QED BY <2>6, <3>1, <4>1
    <3>4. QED BY <3>2, <3>3
  <2>10. g \in IncreasingFrom(n, T)
    BY <2>8, <2>9 DEF IncreasingFrom
  <2>11. QED BY <1>4, <2>10
<1>8. QED BY <1>6, <1>7

LEMMA InOrderFacts ==
  ASSUME NEW S \in SUBSET Nat, IsFiniteSet(S)
  PROVE  /\ InOrder(S) \in [1 .. Cardinality(S) -> S] /\ Cardinality(S) \in Nat
         /\ \A i, j \in 1 .. Cardinality(S) : i < j => InOrder(S)[i] < InOrder(S)[j]
         /\ \A x \in S : \E i \in 1 .. Cardinality(S) : InOrder(S)[i] = x
<1> DEFINE n == Cardinality(S)  f == InOrder(S)
<1>1. n \in Nat
  BY FS_CardinalityType
<1>2. \E g \in [1 .. n -> S] : \A i, j \in DOMAIN g : i < j => g[i] < g[j]
  BY OrderExists DEF IncreasingFrom
<1>3. f \in [1 .. n -> S] /\ \A i, j \in DOMAIN f : i < j => f[i] < f[j]
  BY <1>2 DEF InOrder
<1> HIDE DEF f, n
<1>4. f \in Injection(1 .. n, S)
  <2>1. ASSUME NEW i \in 1 .. n, NEW j \in 1 .. n, f[i] = f[j] PROVE i = j
    <3>1. i \in Int /\ j \in Int
      BY <1>1
    <3>2. f[i] \in S /\ f[j] \in S
      BY <1>3
    <3>3. f[i] \in Nat /\ f[j] \in Nat
      BY <3>2
    <3>4. ~ (i < j) /\ ~ (j < i)
      BY <1>3, <2>1, <3>3
    <3>5. QED BY <3>1, <3>4
  <2>2. QED BY <1>3, <2>1 DEF Injection, IsInjective
<1>5. IsFiniteSet(1 .. n) /\ Cardinality(1 .. n) = n
  <2>1. 1 \in Int /\ n \in Int /\ n - 1 + 1 = n /\ (1 > n => n = 0)
    BY <1>1
  <2>2. QED BY <2>1, FS_Interval
<1>6. f \in Surjection(1 .. n, S)
  BY <1>4, <1>5, FS_Injection DEF n
<1>7. \A x \in S : \E i \in 1 .. n : f[i] = x
  BY <1>6 DEF Surjection
<1>8. QED BY <1>1, <1>3, <1>7 DEF f, n

LEMMA Machines ==
  /\ IsFiniteSet(Replica) /\ Cardinality(Replica) \in Nat \ {0} /\ IsFiniteSet(Machine)
  /\ Leader \in Machine
  /\ \A m \in Machine : ReplicaOf[m] \in Replica
  /\ \A r \in Replica : \A m \in MetadataMachines(r) : m \in Reader /\ ReplicaOf[m] = r
  /\ \A m \in Reader : m \in Machine /\ m \in MetadataMachines(ReplicaOf[m])
  /\ Scheduled \subseteq Reader
  /\ \A r \in Replica, b \in Blucket : BlucketMachine[b][r] \in Machine /\ ReplicaOf[BlucketMachine[b][r]] = r
<1>1. \A m \in Machine : ReplicaOf[m] \in Replica
  BY BlockLogAssumption
<1>2. \A r \in Replica : \A m \in MetadataMachines(r) : m \in Machine /\ m \in Reader /\ ReplicaOf[m] = r
  BY BlockLogAssumption DEF MetadataMachines, Reader
<1>3. \A m \in Reader : m \in Machine /\ m \in MetadataMachines(ReplicaOf[m])
  BY <1>2 DEF Reader
<1>4. Scheduled \subseteq Reader
  <2>1. ASSUME NEW m \in Scheduled PROVE m \in Reader
    <3>1. m \in Machine /\ ReplicaOf[m] \in Replica
      BY <1>1, BlockLogAssumption
    <3>2. m \in MetadataMachines(ReplicaOf[m])
      BY BlockLogAssumption DEF MetadataMachines
    <3>3. QED BY <1>2, <3>1, <3>2
  <2>2. QED BY <2>1
<1>5. Cardinality(Replica) \in Nat \ {0}
  <2>1. Replica # {} /\ IsFiniteSet(Replica)
    BY <1>1, BlockLogAssumption
  <2>2. QED BY <2>1, FS_EmptySet, FS_CardinalityType
<1>6. QED BY <1>1, <1>2, <1>3, <1>4, <1>5, BlockLogAssumption

\* A version below the limit survives the conversions.
LEMMA Conversions ==
  ASSUME NEW n \in Nat, n < IntLimit
  PROVE  AsInt(n) = n /\ AsUint(n) = n
<1>1. \A a, k \in Nat : a < k => a % k = a
  OBVIOUS
<1>2. /\ IntLimit \in Nat /\ 2 * IntLimit \in Nat /\ UintLimit \in Nat
      /\ n < 2 * IntLimit /\ n < UintLimit
  BY BlockLogAssumption
<1>3. n % (2 * IntLimit) = n /\ n % UintLimit = n
  BY <1>1, <1>2
<1>4. QED BY <1>3 DEF AsInt, AsUint

LEMMA ConversionTypes ==
  ASSUME NEW n \in Int
  PROVE  AsInt(n) \in Int /\ AsUint(n) \in Nat
<1>1. \A a \in Int, k \in Nat \ {0} : a % k \in Nat
  OBVIOUS
<1>2. IntLimit \in Nat \ {0} /\ 2 * IntLimit \in Nat \ {0} /\ UintLimit \in Nat \ {0}
  BY BlockLogAssumption
<1>3. n % (2 * IntLimit) \in Nat /\ n % UintLimit \in Nat
  BY <1>1, <1>2
<1>4. QED BY <1>2, <1>3 DEF AsInt, AsUint

----------------------------------------------------------------------------
(***************************************************************************)
(* The invariant.                                                          *)
(***************************************************************************)
AppTypes ==
  /\ status \in [Machine -> {"starting", "running", "stopped"}]
  /\ queue \in [Machine -> Seq(Action)]

BlockTypes ==
  /\ DOMAIN block \subseteq BlockId
  /\ \A id \in DOMAIN block : block[id] \in Seq(Action) /\ block[id] # << >>

IsMessage(x) ==
  /\ x.to \in Machine /\ x.id \in DOMAIN block
  /\ \/ x.type = "BATCH" /\ x = Batch(x.to, x.id)
     \/ x.type = "VOTE" /\ x = Vote(x.from, x.id, Len(block[x.id])) /\ x.from \in Machine
     \/ x.type = "SUBBATCH" /\ x = Subbatch(x.to, x.id, x.items) /\ x.to \in Reader
        /\ x.items \in Seq(Item)

NetTypes == \A x \in net : IsMessage(x)

StoreTypes ==
  /\ stored \in [Machine -> SUBSET DOMAIN block]
  /\ DOMAIN votes \subseteq DOMAIN block
  /\ \A id \in DOMAIN votes : votes[id] \in 1 .. Cardinality(Replica) - 1

LogTypes ==
  /\ requested \in Seq(Pair) /\ versions \in Seq(Nat)
  /\ chosen \in Seq([version : Nat, pairs : Seq(Pair)])
  /\ learned \in [Replica -> 0 .. Len(chosen)]

ReaderTypes ==
  /\ source \in [Reader -> [entries : Nat, next : Nat, offset : Int]]
  /\ subbatches \in [Reader -> SUBSET [id : DOMAIN block, items : Seq(Item)]]
  /\ current \in [Reader -> [id : BlockId \cup {NoBlock}, version : Nat]]
  /\ subbatch \in [Reader -> Seq(Item)]
  /\ handed \in [Reader -> Seq([action : Action, version : Nat])]

\* The ids a machine gave are numbered, so the next one is new.
IdsOf(m) == {id \in DOMAIN block : id[1] = m}

IdsCounted ==
  \A m \in Machine : /\ IsFiniteSet(IdsOf(m))
                     /\ \A id \in IdsOf(m) : id[2] <= Cardinality(IdsOf(m))

\* An action is in one place: a queue or a block.
ActionsOnce ==
  /\ \A m, n \in Machine : \A i \in DOMAIN queue[m], j \in DOMAIN queue[n] :
       queue[m][i] = queue[n][j] => m = n /\ i = j
  /\ \A d, e \in DOMAIN block : \A i \in DOMAIN block[d], j \in DOMAIN block[e] :
       block[d][i] = block[e][j] => d = e /\ i = j
  /\ \A m \in Machine, d \in DOMAIN block : \A i \in DOMAIN queue[m], j \in DOMAIN block[d] :
       queue[m][i] # block[d][j]

\* A replica's vote is on its way from the time the block is sent to it.
Voting(x)   == x.type \in {"BATCH", "VOTE"}
From(x)     == ReplicaOf[IF x.type = "BATCH" THEN x.to ELSE x.from]
Awaited(id) == {r \in Replica : \E x \in net : Voting(x) /\ x.id = id /\ From(x) = r}
Holders(id) == {ReplicaOf[m] : m \in {n \in Machine : id \in stored[n]}}
Counted(id) == IF id \in DOMAIN votes THEN votes[id] ELSE 0
NoStop      == \A m \in Machine : status[m] # "stopped"

IsRequested(id) == \E i \in DOMAIN requested : requested[i].id = id

\* Votes are counted once, from replicas that hold the block, and a counter
\* is forgotten when no vote for it can come any more.
OneVoteEach ==
  /\ \A x, y \in net : Voting(x) /\ Voting(y) /\ x.id = y.id /\ From(x) = From(y) => x = y
  /\ \A x \in net : x.type = "VOTE" => x.id \in stored[x.from]

VotesOf(id) ==
  /\ Counted(id) <= Cardinality(Holders(id) \ Awaited(id))
  /\ NoStop /\ id \in DOMAIN votes => votes[id] + Cardinality(Awaited(id)) = Cardinality(Replica)
  /\ NoStop /\ id \notin DOMAIN votes /\ Awaited(id) # {} => Awaited(id) = Replica
  /\ IsRequested(id) =>
       /\ 2 * Cardinality(Holders(id)) > Cardinality(Replica)
       /\ id \in DOMAIN votes => votes[id] >= MajorityVote
       /\ id \notin DOMAIN votes => Awaited(id) = {}

VotesInv == OneVoteEach /\ \A id \in DOMAIN block : VotesOf(id)

\* The metalog numbers the actions of the blocks appended to it, each once.
Numbered ==
  /\ Len(versions) = Len(requested)
  /\ \A i \in DOMAIN requested : /\ requested[i].id \in DOMAIN block
                                 /\ requested[i].count = Len(block[requested[i].id])
                                 /\ versions[i] > 0
  /\ \A i, j \in DOMAIN requested : i < j =>
       requested[i].id # requested[j].id /\ versions[i] + requested[i].count <= versions[j]

\* Its entries are consecutive parts of what was requested.
Begins(n) == CHOOSE i \in DOMAIN versions : versions[i] = chosen[n].version
Ends(n)   == Begins(n) + Len(chosen[n].pairs) - 1

EntriesInv ==
  \A n \in DOMAIN chosen :
    /\ Begins(n) \in DOMAIN versions /\ versions[Begins(n)] = chosen[n].version
    /\ Begins(n) <= Ends(n) /\ Ends(n) <= Len(requested)
    /\ \A k \in DOMAIN chosen[n].pairs : chosen[n].pairs[k] = requested[Begins(n) + k - 1]
    /\ n = 1 => Begins(n) = 1
    /\ n > 1 => Begins(n) = Ends(n - 1) + 1
    /\ \A k \in DOMAIN chosen : k < n => Ends(k) < Begins(n)

\* How many blocks a reader has taken from the metalog, and has done with.
Taken(m) ==
  IF source[m].next # 0 THEN Begins(source[m].entries) + source[m].next - 2
  ELSE IF source[m].entries = 0 THEN 0 ELSE Ends(source[m].entries)

Done(m) == IF current[m] = Idle THEN Taken(m) ELSE Taken(m) - 1

Passed(m, id) == \E i \in DOMAIN requested : i <= Done(m) /\ requested[i].id = id

\* s lists what reader m gets of a block, from an offset on, in order.
Concerned(m, a) == m \in Recipients(a, ReplicaOf[m])

Rest(s, id, m, o) ==
  /\ \A k \in DOMAIN s : /\ s[k].offset >= o /\ s[k].offset + 1 \in DOMAIN block[id]
                         /\ s[k].action = block[id][s[k].offset + 1]
                         /\ Concerned(m, s[k].action)
  /\ \A i \in DOMAIN block[id] : i > o /\ Concerned(m, block[id][i]) => \E k \in DOMAIN s : s[k].offset = i - 1
  /\ \A j, k \in DOMAIN s : j < k => s[j].offset < s[k].offset

ReadingOf(m) ==
  /\ source[m].entries <= learned[ReplicaOf[m]]
  /\ source[m].next # 0 => /\ source[m].entries > 0
                           /\ source[m].next \in 2 .. Len(chosen[source[m].entries].pairs)
  /\ current[m] # Idle => Taken(m) > 0 /\ current[m].id = requested[Taken(m)].id
  /\ subbatch[m] # << >> =>
       /\ current[m] # Idle
       /\ \E s \in subbatches[m] : s.id = current[m].id
       /\ Rest(subbatch[m], current[m].id, m, Head(subbatch[m]).offset)

Reading == \A m \in Reader : ReadingOf(m)

\* A reader's sub-batch of a block is in one place: not made yet, on its way,
\* received, or used up.
Received(m, id) == \E s \in subbatches[m] : s.id = id
OnItsWay(m, id) == \E x \in net : x.type = "SUBBATCH" /\ x.to = m /\ x.id = id
NotMade(m, id)  == \E x \in net : x.type = "BATCH" /\ ReplicaOf[x.to] = ReplicaOf[m] /\ x.id = id

OnePlace(m, id) ==
  /\ Received(m, id) => ~ Passed(m, id)
  /\ OnItsWay(m, id) => ~ Passed(m, id) /\ ~ Received(m, id)
  /\ NotMade(m, id) => ~ Passed(m, id) /\ ~ Received(m, id) /\ ~ OnItsWay(m, id)

Subbatches ==
  /\ \A x \in net : x.type = "SUBBATCH" => Rest(x.items, x.id, x.to, 0)
  /\ \A x, y \in net :
       x.type = "SUBBATCH" /\ y.type = "SUBBATCH" /\ x.to = y.to /\ x.id = y.id => x = y
  /\ \A m \in Reader : \A s \in subbatches[m] : Rest(s.items, s.id, m, 0)
  /\ \A m \in Reader, id \in DOMAIN block : OnePlace(m, id)

\* A reader has handed over the actions of the blocks it has done with and
\* the first ones of the current block.
Reached(m) == IF subbatch[m] = << >> THEN 0 ELSE Head(subbatch[m]).offset

WasHanded(m, i, j) == i <= Done(m) \/ (i = Done(m) + 1 /\ j <= Reached(m))

HandedInv ==
  \A m \in Reader :
    /\ \A k \in DOMAIN handed[m] :
         \E i \in DOMAIN requested : \E j \in DOMAIN block[requested[i].id] :
            /\ handed[m][k].action = block[requested[i].id][j]
            /\ WasHanded(m, i, j)
    /\ \A i \in DOMAIN requested : \A j \in DOMAIN block[requested[i].id] :
         Concerned(m, block[requested[i].id][j]) /\ WasHanded(m, i, j)
           => HandedTo(m, block[requested[i].id][j])

Types == AppTypes /\ BlockTypes /\ NetTypes /\ StoreTypes /\ LogTypes /\ ReaderTypes

LogInv == Numbered /\ EntriesInv

IInv == Types /\ IdsCounted /\ ActionsOnce /\ VotesInv /\ LogInv /\ Reading /\ Subbatches /\ HandedInv

----------------------------------------------------------------------------
(***************************************************************************)
(* Steps.                                                                  *)
(***************************************************************************)
LEMMA Messages ==
  /\ \A m, id : /\ Batch(m, id).type = "BATCH" /\ Batch(m, id).to = m /\ Batch(m, id).id = id
                /\ Voting(Batch(m, id)) /\ From(Batch(m, id)) = ReplicaOf[m]
  /\ \A m, id, n : /\ Vote(m, id, n).type = "VOTE" /\ Vote(m, id, n).to = Leader
                   /\ Vote(m, id, n).from = m /\ Vote(m, id, n).id = id /\ Vote(m, id, n).count = n
                   /\ Voting(Vote(m, id, n)) /\ From(Vote(m, id, n)) = ReplicaOf[m]
  /\ \A m, id, s : /\ Subbatch(m, id, s).type = "SUBBATCH" /\ Subbatch(m, id, s).to = m
                   /\ Subbatch(m, id, s).id = id /\ Subbatch(m, id, s).items = s
                   /\ ~ Voting(Subbatch(m, id, s))
  /\ \A x : IsMessage(x) => (Voting(x) <=> x.type # "SUBBATCH")
<1>1. \A x : IsMessage(x) => (Voting(x) <=> x.type # "SUBBATCH")
  <2>1. \A x : IsMessage(x) => x.type = "BATCH" \/ x.type = "VOTE" \/ x.type = "SUBBATCH"
    BY DEF IsMessage
  <2>2. QED BY <2>1 DEF Voting
<1>2. QED BY <1>1 DEF Batch, Vote, Subbatch, Voting, From

Stops     == \E m \in Machine : Stop(m)
Cuts      == \E m \in Machine, b \in Blucket : CutBlock(m, b)
Batches   == \E msg \in net : HandleBatch(msg)
Counts    == \E msg \in net : HandleVote(msg)
Receives  == \E msg \in net : HandleSubbatch(msg)
Drops     == \E msg \in net : Drop(msg)
TakesNext == \E m \in Reader : NextBlock(m)
Finds     == \E m \in Reader : FindSubbatch(m)
GoesOn    == \E m \in Reader : NextItem(m)

\* Which actions change which variables.
LEMMA Changes ==
  ASSUME [Next]_vars
  PROVE  /\ status' = status \/ \E m \in Machine : Start(m) \/ Stop(m)
         /\ queue' = queue \/ Cuts \/ \E m \in Machine, a \in Action : AppendAction(m, a)
         /\ block' = block \/ Cuts
         /\ net' = net \/ Cuts \/ Batches \/ Counts \/ Receives \/ Drops \/ Stops
         /\ stored' = stored \/ Batches
         /\ votes' = votes \/ Counts
         /\ UNCHANGED <<requested, versions>> \/ Counts
         /\ chosen' = chosen \/ \E n \in DOMAIN requested : ChooseEntry(n)
         /\ learned' = learned \/ \E r \in Replica : LearnEntry(r)
         /\ source' = source \/ TakesNext
         /\ subbatches' = subbatches \/ Receives \/ Finds \/ GoesOn
         /\ current' = current \/ TakesNext \/ Finds \/ GoesOn
         /\ UNCHANGED <<subbatch, handed>> \/ Finds \/ GoesOn
<1> USE DEF vars, clientVars, metalogVars, readerVars
<1>1. CASE \E m \in Machine : Start(m) \/ Stop(m)
  <2>1. PICK m \in Machine : Start(m) \/ Stop(m)
    BY <1>1
  <2>2. UNCHANGED <<clientVars, stored, votes, metalogVars, subbatches, readerVars>>
    BY <2>1 DEF Start, Stop
  <2>3. net' = net \/ Stops
    BY <2>1 DEF Start, Stops
  <2>4. QED BY <1>1, <2>2, <2>3
<1>2. CASE \E m \in Machine : MainLoop(m)
  <2>1. PICK m \in Machine, b \in Blucket : CutBlock(m, b)
    BY <1>2 DEF MainLoop
  <2>2. UNCHANGED <<status, stored, votes, metalogVars, subbatches, readerVars>>
    BY <2>1 DEF CutBlock
  <2>3. QED BY <2>1, <2>2 DEF Cuts
<1>3. CASE \E a \in Action : \E m \in Client[a] : AppendAction(m, a)
  <2>1. PICK a \in Action, m \in Machine : AppendAction(m, a)
    BY <1>3, BlockLogAssumption
  <2>2. UNCHANGED <<status, block, net, stored, votes, metalogVars, subbatches, readerVars>>
    BY <2>1 DEF AppendAction
  <2>3. QED BY <2>1, <2>2
<1>4. CASE \E msg \in Deliverable : Handler(msg)
  <2>1. PICK msg \in net : HandleBatch(msg) \/ HandleVote(msg) \/ HandleSubbatch(msg) \/ Drop(msg)
    BY <1>4 DEF Deliverable, Handler
  <2>2. CASE HandleBatch(msg)
    <3>1. UNCHANGED <<status, clientVars, votes, metalogVars, subbatches, readerVars>>
      BY <2>2 DEF HandleBatch
    <3>2. QED BY <2>2, <3>1 DEF Batches
  <2>3. CASE HandleVote(msg)
    <3>1. UNCHANGED <<status, clientVars, stored, chosen, learned, subbatches, readerVars>>
      BY <2>3 DEF HandleVote
    <3>2. QED BY <2>3, <3>1 DEF Counts
  <2>4. CASE HandleSubbatch(msg)
    <3>1. UNCHANGED <<status, clientVars, stored, votes, metalogVars, readerVars>>
      BY <2>4 DEF HandleSubbatch
    <3>2. QED BY <2>4, <3>1 DEF Receives
  <2>5. CASE Drop(msg)
    <3>1. UNCHANGED <<status, clientVars, stored, votes, metalogVars, subbatches, readerVars>>
      BY <2>5 DEF Drop
    <3>2. QED BY <2>5, <3>1 DEF Drops
  <2>6. QED BY <2>1, <2>2, <2>3, <2>4, <2>5
<1>5. CASE \E n \in DOMAIN requested : ChooseEntry(n)
  <2>1. UNCHANGED <<status, clientVars, net, stored, votes, requested, versions, learned, subbatches, readerVars>>
    BY <1>5 DEF ChooseEntry
  <2>2. QED BY <1>5, <2>1
<1>6. CASE \E m \in Scheduled : LearnEntry(ReplicaOf[m])
  <2>1. PICK r \in Replica : LearnEntry(r)
    BY <1>6, Machines
  <2>2. UNCHANGED <<status, clientVars, net, stored, votes, requested, versions, chosen, subbatches, readerVars>>
    BY <2>1 DEF LearnEntry
  <2>3. QED BY <2>1, <2>2
<1>7. CASE \E m \in Scheduled : Get(m)
  <2>1. PICK m \in Reader : NextBlock(m) \/ FindSubbatch(m) \/ NextItem(m)
    BY <1>7, Machines DEF Get
  <2>2. CASE NextBlock(m)
    <3>1. UNCHANGED <<status, clientVars, net, stored, votes, metalogVars, subbatches, subbatch, handed>>
      BY <2>2 DEF NextBlock
    <3>2. QED BY <2>2, <3>1 DEF TakesNext
  <2>3. CASE FindSubbatch(m)
    <3>1. UNCHANGED <<status, clientVars, net, stored, votes, metalogVars, source>>
      BY <2>3 DEF FindSubbatch
    <3>2. QED BY <2>3, <3>1 DEF Finds
  <2>4. CASE NextItem(m)
    <3>1. UNCHANGED <<status, clientVars, net, stored, votes, metalogVars, source>>
      BY <2>4 DEF NextItem
    <3>2. QED BY <2>4, <3>1 DEF GoesOn
  <2>5. QED BY <2>1, <2>2, <2>3, <2>4
<1>8. CASE UNCHANGED vars
  BY <1>8
<1>9. QED BY <1>1, <1>2, <1>3, <1>4, <1>5, <1>6, <1>7, <1>8 DEF Next

----------------------------------------------------------------------------
(***************************************************************************)
(* Blocks and ids.                                                         *)
(***************************************************************************)
LEMMA NewIdIsNew ==
  ASSUME BlockTypes, IdsCounted, NEW m \in Machine
  PROVE  /\ NewId(m) \in BlockId /\ NewId(m) \notin DOMAIN block
         /\ NewId(m) = <<m, Cardinality(IdsOf(m)) + 1>> /\ Cardinality(IdsOf(m)) \in Nat
<1>1. NewId(m) = <<m, Cardinality(IdsOf(m)) + 1>>
  BY DEF NewId, IdsOf
<1>2. Cardinality(IdsOf(m)) \in Nat
  BY FS_CardinalityType DEF IdsCounted
<1> DEFINE c == Cardinality(IdsOf(m))
<1>3. c + 1 \in Nat \ {0}
  BY <1>2
<1>4. NewId(m) \in BlockId /\ NewId(m)[1] = m /\ NewId(m)[2] = c + 1
  BY <1>1, <1>3 DEF BlockId
<1>5. ASSUME NewId(m) \in DOMAIN block PROVE FALSE
  <2>1. NewId(m) \in IdsOf(m)
    BY <1>4, <1>5 DEF IdsOf
  <2>2. NewId(m)[2] <= c
    BY <2>1 DEF IdsCounted
  <2> HIDE DEF c
  <2>3. QED BY <1>2, <1>3, <1>4, <2>2 DEF c
<1>6. QED BY <1>1, <1>2, <1>4, <1>5

LEMMA CutFacts ==
  ASSUME BlockTypes, IdsCounted, NEW m \in Machine, NEW b \in Blucket, CutBlock(m, b)
  PROVE  /\ NewId(m) \notin DOMAIN block /\ NewId(m) \in BlockId
         /\ DOMAIN block' = DOMAIN block \cup {NewId(m)}
         /\ block'[NewId(m)] = queue[m]
         /\ \A id \in DOMAIN block : block'[id] = block[id]
<1>1. NewId(m) \notin DOMAIN block /\ NewId(m) \in BlockId
  BY NewIdIsNew
<1>2. block' = Put(block, NewId(m), queue[m])
  BY DEF CutBlock
<1>3. /\ DOMAIN Put(block, NewId(m), queue[m]) = DOMAIN block \cup {NewId(m)}
      /\ Put(block, NewId(m), queue[m])[NewId(m)] = queue[m]
      /\ \A id \in DOMAIN block : id # NewId(m) => Put(block, NewId(m), queue[m])[id] = block[id]
  BY DEF Put
<1>4. QED BY <1>1, <1>2, <1>3

\* What is cut stays as it is.
BlockGrows ==
  DOMAIN block \subseteq DOMAIN block' /\ \A id \in DOMAIN block : block'[id] = block[id]

LEMMA BlocksGrow ==
  ASSUME BlockTypes, IdsCounted, [Next]_vars
  PROVE  BlockGrows
<1>1. CASE block' = block
  BY <1>1 DEF BlockGrows
<1>2. CASE Cuts
  BY <1>2, CutFacts DEF BlockGrows, Cuts
<1>3. QED BY <1>1, <1>2, Changes

LEMMA AppInv ==
  ASSUME AppTypes, [Next]_vars
  PROVE  AppTypes'
<1>1. status' \in [Machine -> {"starting", "running", "stopped"}]
  <2>1. CASE status' = status
    BY <2>1 DEF AppTypes
  <2>2. CASE \E m \in Machine : Start(m) \/ Stop(m)
    BY <2>2 DEF AppTypes, Start, Stop
  <2>3. QED BY <2>1, <2>2, Changes
<1>2. queue' \in [Machine -> Seq(Action)]
  <2>1. CASE queue' = queue
    BY <2>1 DEF AppTypes
  <2>2. CASE Cuts
    BY <2>2 DEF AppTypes, Cuts, CutBlock
  <2>3. CASE \E m \in Machine, a \in Action : AppendAction(m, a)
    <3>1. PICK m \in Machine, a \in Action : AppendAction(m, a)
      BY <2>3
    <3>2. queue' = [queue EXCEPT ![m] = Append(@, a)]
      BY <3>1 DEF AppendAction
    <3>3. queue[m] \in Seq(Action)
      BY DEF AppTypes
    <3>4. Append(queue[m], a) \in Seq(Action)
      BY <3>3, AppendFacts
    <3>5. QED BY <3>2, <3>4 DEF AppTypes
  <2>4. QED BY <2>1, <2>2, <2>3, Changes
<1>3. QED BY <1>1, <1>2 DEF AppTypes

LEMMA BlockInv ==
  ASSUME AppTypes, BlockTypes, IdsCounted, [Next]_vars
  PROVE  BlockTypes' /\ IdsCounted'
<1>1. CASE block' = block
  BY <1>1 DEF BlockTypes, IdsCounted, IdsOf
<1>2. CASE Cuts
  <2>1. PICK m \in Machine, b \in Blucket : CutBlock(m, b)
    BY <1>2 DEF Cuts
  <2>2. /\ NewId(m) \notin DOMAIN block /\ NewId(m) \in BlockId
        /\ DOMAIN block' = DOMAIN block \cup {NewId(m)}
        /\ block'[NewId(m)] = queue[m]
        /\ \A id \in DOMAIN block : block'[id] = block[id]
    BY <2>1, CutFacts
  <2>3. queue[m] \in Seq(Action) /\ queue[m] # << >>
    BY <2>1 DEF AppTypes, CutBlock
  <2>4. BlockTypes'
    BY <2>2, <2>3 DEF BlockTypes
  <2>5. /\ NewId(m) = <<m, Cardinality(IdsOf(m)) + 1>> /\ Cardinality(IdsOf(m)) \in Nat
    BY NewIdIsNew
  <2>6. ASSUME NEW n \in Machine
        PROVE  IsFiniteSet(IdsOf(n)') /\ \A id \in IdsOf(n)' : id[2] <= Cardinality(IdsOf(n)')
    <3>1. CASE n = m
      <4>1. IdsOf(m)' = IdsOf(m) \cup {NewId(m)} /\ NewId(m) \notin IdsOf(m)
        BY <2>2, <2>5 DEF IdsOf
      <4>2. IsFiniteSet(IdsOf(m)') /\ Cardinality(IdsOf(m)') = Cardinality(IdsOf(m)) + 1
        BY <4>1, FS_AddElement DEF IdsCounted
      <4>3. ASSUME NEW id \in IdsOf(m) PROVE id[2] <= Cardinality(IdsOf(m)) + 1
        <5>1. id \in BlockId /\ id[2] <= Cardinality(IdsOf(m))
          BY DEF IdsCounted, IdsOf, BlockTypes
        <5>2. id[2] \in Nat
          BY <5>1 DEF BlockId
        <5>3. QED BY <2>5, <5>1, <5>2
      <4>4. NewId(m)[2] <= Cardinality(IdsOf(m)) + 1
        BY <2>5
      <4>5. QED BY <3>1, <4>1, <4>2, <4>3, <4>4
    <3>2. CASE n # m
      <4>1. IdsOf(n)' = IdsOf(n)
        BY <2>2, <2>5, <3>2 DEF IdsOf
      <4>2. QED BY <4>1 DEF IdsCounted
    <3>3. QED BY <3>1, <3>2
  <2>7. IdsCounted'
    BY <2>6 DEF IdsCounted
  <2>8. QED BY <2>4, <2>7
<1>3. QED BY <1>1, <1>2, Changes

----------------------------------------------------------------------------
(***************************************************************************)
(* An action is in one place.                                              *)
(***************************************************************************)
LEMMA ActionsInv ==
  ASSUME AppTypes, BlockTypes, IdsCounted, ActionsOnce, [Next]_vars
  PROVE  ActionsOnce'
<1>1. CASE UNCHANGED <<queue, block>>
  BY <1>1 DEF ActionsOnce
<1>2. CASE Cuts
  <2>1. PICK m \in Machine, b \in Blucket : CutBlock(m, b)
    BY <1>2 DEF Cuts
  <2>2. /\ NewId(m) \notin DOMAIN block
        /\ DOMAIN block' = DOMAIN block \cup {NewId(m)}
        /\ block'[NewId(m)] = queue[m]
        /\ \A id \in DOMAIN block : block'[id] = block[id]
    BY <2>1, CutFacts
  <2>3. queue'[m] = << >> /\ \A n \in Machine : n # m => queue'[n] = queue[n]
    BY <2>1 DEF CutBlock, AppTypes
  <2>4. ASSUME NEW n \in Machine, NEW p \in Machine, NEW i \in DOMAIN queue'[n], NEW j \in DOMAIN queue'[p],
               queue'[n][i] = queue'[p][j]
        PROVE  n = p /\ i = j
    BY <2>3, <2>4 DEF ActionsOnce
  <2>5. ASSUME NEW d \in DOMAIN block', NEW e \in DOMAIN block', NEW i \in DOMAIN block'[d],
               NEW j \in DOMAIN block'[e], block'[d][i] = block'[e][j]
        PROVE  d = e /\ i = j
    BY <2>2, <2>5 DEF ActionsOnce
  <2>6. ASSUME NEW n \in Machine, NEW d \in DOMAIN block', NEW i \in DOMAIN queue'[n], NEW j \in DOMAIN block'[d]
        PROVE  queue'[n][i] # block'[d][j]
    <3>1. n # m /\ queue'[n] = queue[n]
      BY <2>3
    <3>2. QED BY <2>2, <3>1 DEF ActionsOnce
  <2>7. QED BY <2>4, <2>5, <2>6 DEF ActionsOnce
<1>3. CASE \E m \in Machine, a \in Action : AppendAction(m, a)
  <2>1. PICK m \in Machine, a \in Action : AppendAction(m, a)
    BY <1>3
  <2>2. queue' = [queue EXCEPT ![m] = Append(@, a)] /\ block' = block
    BY <2>1 DEF AppendAction
  <2>3. \A n \in Machine : queue[n] \in Seq(Action)
    BY DEF AppTypes
  <2>4. /\ \A n \in Machine : \A i \in DOMAIN queue[n] : queue[n][i] # a
        /\ \A d \in DOMAIN block : \A i \in DOMAIN block[d] : block[d][i] # a
    <3>1. a \notin Appended
      BY <2>1 DEF AppendAction
    <3>2. \A n \in Machine : \A i \in DOMAIN queue[n] : queue[n][i] \in Appended
      <4>1. \A n \in Machine : \A i \in DOMAIN queue[n] : queue[n][i] \in ToSet(queue[n])
        BY DEF ToSet
      <4>2. QED BY <4>1 DEF Appended
    <3>3. \A d \in DOMAIN block : \A i \in DOMAIN block[d] : block[d][i] \in Appended
      <4>1. \A d \in DOMAIN block : \A i \in DOMAIN block[d] : block[d][i] \in ToSet(block[d])
        BY DEF ToSet
      <4>2. UNION {ToSet(block[id]) : id \in DOMAIN block} \subseteq Appended
        BY DEF Appended
      <4>3. \A d \in DOMAIN block : ToSet(block[d]) \subseteq UNION {ToSet(block[id]) : id \in DOMAIN block}
        OBVIOUS
      <4>4. QED BY ONLY <4>1, <4>2, <4>3
    <3>4. QED BY <3>1, <3>2, <3>3
  <2>5. /\ \A n \in Machine : n # m => queue'[n] = queue[n]
        /\ queue'[m] = Append(queue[m], a)
    BY <2>2 DEF AppTypes
  <2>6. \A i \in DOMAIN queue'[m] : \/ i \in DOMAIN queue[m] /\ queue'[m][i] = queue[m][i]
                                    \/ i = Len(queue[m]) + 1 /\ queue'[m][i] = a
    <3>1. DOMAIN queue'[m] = 1 .. (Len(queue[m]) + 1) /\ DOMAIN queue[m] = 1 .. Len(queue[m]) /\ Len(queue[m]) \in Nat
          /\ queue'[m][Len(queue[m]) + 1] = a /\ \A i \in 1 .. Len(queue[m]) : queue'[m][i] = queue[m][i]
      BY <2>3, <2>5, AppendFacts
    <3>2. QED BY <3>1
  <2>7. ASSUME NEW n \in Machine, NEW p \in Machine, NEW i \in DOMAIN queue'[n], NEW j \in DOMAIN queue'[p],
               queue'[n][i] = queue'[p][j]
        PROVE  n = p /\ i = j
    <3>1. \/ i \in DOMAIN queue[n] /\ queue'[n][i] = queue[n][i]
          \/ n = m /\ i = Len(queue[m]) + 1 /\ queue'[n][i] = a
      BY <2>5, <2>6
    <3>2. \/ j \in DOMAIN queue[p] /\ queue'[p][j] = queue[p][j]
          \/ p = m /\ j = Len(queue[m]) + 1 /\ queue'[p][j] = a
      BY <2>5, <2>6
    <3>3. QED BY ONLY <2>4, <2>7, <3>1, <3>2, ActionsOnce, n \in Machine, p \in Machine DEF ActionsOnce
  <2>8. ASSUME NEW n \in Machine, NEW d \in DOMAIN block, NEW i \in DOMAIN queue'[n], NEW j \in DOMAIN block[d]
        PROVE  queue'[n][i] # block[d][j]
    <3>1. \/ i \in DOMAIN queue[n] /\ queue'[n][i] = queue[n][i]
          \/ queue'[n][i] = a
      BY <2>5, <2>6
    <3>2. QED BY <2>4, <3>1 DEF ActionsOnce
  <2>9. QED BY <2>2, <2>7, <2>8 DEF ActionsOnce
<1>4. QED
  <2>1. /\ (queue' = queue \/ Cuts \/ \E m \in Machine, a \in Action : AppendAction(m, a))
        /\ (block' = block \/ Cuts)
    BY Changes
  <2>2. QED BY <1>1, <1>2, <1>3, <2>1

----------------------------------------------------------------------------
(***************************************************************************)
(* The metalog.                                                            *)
(***************************************************************************)
LEMMA SubSeqFacts ==
  ASSUME NEW S, NEW s \in Seq(S), NEW a \in 1 .. Len(s), NEW b \in a .. Len(s)
  PROVE  /\ SubSeq(s, a, b) \in Seq(S) /\ Len(SubSeq(s, a, b)) = b - a + 1
         /\ DOMAIN SubSeq(s, a, b) = 1 .. (b - a + 1)
         /\ \A k \in 1 .. (b - a + 1) : SubSeq(s, a, b)[k] = s[a + k - 1]
OBVIOUS

\* In an increasing sequence a value has one place.
LEMMA PlaceOf ==
  ASSUME NEW s \in Seq(Nat), \A i, j \in DOMAIN s : i < j => s[i] < s[j], NEW k \in DOMAIN s
  PROVE  (CHOOSE i \in DOMAIN s : s[i] = s[k]) = k
<1>1. PICK c \in DOMAIN s : c = (CHOOSE i \in DOMAIN s : s[i] = s[k]) /\ s[c] = s[k]
  OBVIOUS
<1>2. c \in Nat /\ k \in Nat /\ s[c] \in Nat /\ s[k] \in Nat
  OBVIOUS
<1>3. ~ (c < k) /\ ~ (k < c)
  BY <1>1, <1>2
<1>4. QED BY <1>1, <1>2, <1>3

\* A block has an action, so versions increase.
LEMMA VersionsIncrease ==
  ASSUME BlockTypes, LogTypes, Numbered
  PROVE  /\ DOMAIN versions = 1 .. Len(requested) /\ DOMAIN requested = 1 .. Len(requested)
         /\ Len(requested) \in Nat
         /\ \A i \in DOMAIN versions : versions[i] \in Nat
         /\ \A i \in DOMAIN requested :
              /\ requested[i] \in Pair /\ requested[i].id \in BlockId
              /\ requested[i].count \in Nat /\ requested[i].count > 0
         /\ \A i, j \in DOMAIN versions : i < j => versions[i] < versions[j]
<1>1. /\ DOMAIN versions = 1 .. Len(requested) /\ DOMAIN requested = 1 .. Len(requested)
      /\ Len(requested) \in Nat
  BY DEF LogTypes, Numbered
<1>2. \A i \in DOMAIN versions : versions[i] \in Nat
  BY DEF LogTypes
<1>3. \A i \in DOMAIN requested : requested[i] \in Pair
  BY DEF LogTypes
<1>4. ASSUME NEW i \in DOMAIN requested
      PROVE  requested[i].id \in BlockId /\ requested[i].count \in Nat /\ requested[i].count > 0
  <2>1. requested[i].id \in DOMAIN block /\ requested[i].count = Len(block[requested[i].id])
    BY DEF Numbered
  <2>2. /\ block[requested[i].id] \in Seq(Action) /\ block[requested[i].id] # << >>
        /\ requested[i].id \in BlockId
    BY <2>1 DEF BlockTypes
  <2>3. Len(block[requested[i].id]) \in Nat \ {0}
    BY <2>2, TailFacts
  <2>4. QED BY <2>1, <2>2, <2>3
<1>5. ASSUME NEW i \in DOMAIN versions, NEW j \in DOMAIN versions, i < j PROVE versions[i] < versions[j]
  <2>1. versions[i] + requested[i].count <= versions[j]
    BY <1>1, <1>5 DEF Numbered
  <2>2. /\ requested[i].count \in Nat /\ requested[i].count > 0 /\ versions[i] \in Nat
        /\ versions[j] \in Nat
    BY <1>1, <1>2, <1>4
  <2>3. QED BY <2>1, <2>2
<1>6. QED BY <1>1, <1>2, <1>3, <1>4, <1>5

LEMMA BeginsIs ==
  ASSUME BlockTypes, LogTypes, Numbered, NEW n \in DOMAIN chosen, NEW i \in DOMAIN versions,
         versions[i] = chosen[n].version
  PROVE  Begins(n) = i
BY VersionsIncrease, PlaceOf DEF Begins, LogTypes

\* Where the entries of the metalog lie in it.
LEMMA EntryFacts ==
  ASSUME BlockTypes, LogTypes, LogInv, NEW n \in DOMAIN chosen
  PROVE  /\ n \in 1 .. Len(chosen) /\ Len(chosen) \in Nat
         /\ chosen[n] \in [version : Nat, pairs : Seq(Pair)]
         /\ Begins(n) \in 1 .. Len(requested) /\ Ends(n) \in Begins(n) .. Len(requested)
         /\ Len(chosen[n].pairs) \in Nat /\ Len(chosen[n].pairs) = Ends(n) - Begins(n) + 1
         /\ DOMAIN chosen[n].pairs = 1 .. Len(chosen[n].pairs)
<1>1. /\ n \in 1 .. Len(chosen) /\ Len(chosen) \in Nat
      /\ chosen[n] \in [version : Nat, pairs : Seq(Pair)]
  <2> DEFINE E == [version : Nat, pairs : Seq(Pair)]
  <2>1. chosen \in Seq(E)
    BY DEF LogTypes
  <2> HIDE DEF E
  <2>2. DOMAIN chosen = 1 .. Len(chosen) /\ Len(chosen) \in Nat /\ chosen[n] \in E
    BY <2>1
  <2>3. QED BY <2>2 DEF E
<1>2. chosen[n].pairs \in Seq(Pair)
  BY <1>1
<1>3. Len(chosen[n].pairs) \in Nat /\ DOMAIN chosen[n].pairs = 1 .. Len(chosen[n].pairs)
  BY <1>2
<1>4. Begins(n) \in DOMAIN versions /\ Begins(n) <= Ends(n) /\ Ends(n) <= Len(requested)
  BY DEF LogInv, EntriesInv
<1>5. DOMAIN versions = 1 .. Len(requested) /\ Len(requested) \in Nat
  BY VersionsIncrease DEF LogInv
<1>6. QED BY <1>1, <1>3, <1>4, <1>5 DEF Ends

\* How much of it is sequenced.
LEMMA SequencedFacts ==
  ASSUME BlockTypes, LogTypes, LogInv
  PROVE  /\ Sequenced \in 0 .. Len(requested) /\ Len(requested) \in Nat
         /\ chosen = << >> => Sequenced = 0
         /\ chosen # << >> => Len(chosen) \in DOMAIN chosen /\ Sequenced = Ends(Len(chosen))
         /\ \A n \in DOMAIN chosen : Ends(n) <= Sequenced
<1>1. CASE chosen = << >>
  BY <1>1, VersionsIncrease DEF Sequenced, LogInv
<1>2. CASE chosen # << >>
  <2> DEFINE N == Len(chosen)
  <2>1. N \in DOMAIN chosen /\ Last(chosen) = chosen[N]
    BY <1>2 DEF Last, LogTypes
  <2>2. Sequenced = Ends(N)
    BY <1>2, <2>1 DEF Sequenced, Ends, Begins
  <2>3. /\ Begins(N) \in 1 .. Len(requested) /\ Ends(N) \in Begins(N) .. Len(requested)
        /\ Len(requested) \in Nat
    BY <2>1, EntryFacts, VersionsIncrease DEF LogInv
  <2>4. ASSUME NEW n \in DOMAIN chosen PROVE Ends(n) <= Ends(N)
    <3>1. /\ n \in 1 .. N /\ N \in Nat /\ Ends(n) \in Begins(n) .. Len(requested)
          /\ Begins(n) \in 1 .. Len(requested)
      BY EntryFacts
    <3>2. CASE n = N
      BY <3>1, <3>2
    <3>3. CASE n # N
      <4>1. n < N
        BY <3>1, <3>3
      <4>2. Ends(n) < Begins(N)
        BY <2>1, <4>1 DEF LogInv, EntriesInv
      <4>3. QED BY <2>3, <3>1, <4>2
    <3>4. QED BY <3>2, <3>3
  <2>5. QED BY <1>2, <2>1, <2>2, <2>3, <2>4
<1>3. QED BY <1>1, <1>2

----------------------------------------------------------------------------
(***************************************************************************)
(* The metalog grows.                                                      *)
(***************************************************************************)
LEMMA Majorities ==
  /\ MajorityVote \in Nat \ {0} /\ MajorityVote <= Cardinality(Replica)
  /\ 2 * MajorityVote > Cardinality(Replica)
<1>1. \A n \in Nat \ {0} : n \div 2 + 1 \in Nat \ {0} /\ n \div 2 + 1 <= n /\ 2 * (n \div 2 + 1) > n
  OBVIOUS
<1>2. QED BY <1>1, Machines DEF MajorityVote

LEMMA CountFacts ==
  ASSUME BlockTypes, NetTypes, StoreTypes, VotesInv, NEW msg \in net, HandleVote(msg)
  PROVE  /\ msg.id \in DOMAIN block /\ msg.count = Len(block[msg.id]) /\ msg.from \in Machine
         /\ Voting(msg) /\ From(msg) \in Awaited(msg.id) /\ From(msg) = ReplicaOf[msg.from]
         /\ msg.id \in stored[msg.from] /\ VotesOf(msg.id)
         /\ Counted(msg.id) \in Nat /\ Votes(msg.id) = Counted(msg.id) + 1
         /\ Votes(msg.id) # MajorityVote => UNCHANGED <<requested, versions>>
         /\ Votes(msg.id) = MajorityVote =>
              /\ requested' = Append(requested, [id |-> msg.id, count |-> msg.count])
              /\ versions' = Append(versions, NextVersion)
              /\ ~ IsRequested(msg.id)
<1> DEFINE id == msg.id
<1>1. msg.type = "VOTE" /\ IsMessage(msg)
  BY DEF HandleVote, Handling, NetTypes
<1>2. id \in DOMAIN block /\ msg = Vote(msg.from, id, Len(block[id])) /\ msg.from \in Machine
  BY <1>1 DEF IsMessage
<1>3. msg.count = Len(block[id])
  BY <1>2, Messages
<1>4. Voting(msg) /\ From(msg) = ReplicaOf[msg.from] /\ ReplicaOf[msg.from] \in Replica
  BY <1>1, <1>2, Machines DEF Voting, From
<1>5. From(msg) \in Awaited(id)
  BY <1>4 DEF Awaited
<1>6. id \in stored[msg.from] /\ VotesOf(id)
  BY <1>1, <1>2 DEF VotesInv, OneVoteEach
<1>7. /\ Counted(id) \in Nat /\ Votes(id) = Counted(id) + 1
      /\ (id \in DOMAIN votes => Counted(id) = votes[id])
  <2>1. Cardinality(Replica) \in Nat
    BY Machines
  <2>2. CASE id \in DOMAIN votes
    <3>1. votes[id] \in 1 .. Cardinality(Replica) - 1
      BY <2>2 DEF StoreTypes
    <3>2. QED BY <2>1, <2>2, <3>1 DEF Counted, Votes
  <2>3. CASE id \notin DOMAIN votes
    BY <2>3 DEF Counted, Votes
  <2>4. QED BY <2>2, <2>3
<1>8. Votes(id) # MajorityVote => UNCHANGED <<requested, versions>>
  BY DEF HandleVote
<1>9. ASSUME Votes(id) = MajorityVote
      PROVE  /\ requested' = Append(requested, [id |-> id, count |-> msg.count])
             /\ versions' = Append(versions, NextVersion)
             /\ ~ IsRequested(id)
  <2>1. /\ requested' = Append(requested, [id |-> id, count |-> msg.count])
        /\ versions' = Append(versions, NextVersion)
    BY <1>9 DEF HandleVote, AppendPair
  <2>2. ASSUME IsRequested(id) PROVE FALSE
    <3>1. id \in DOMAIN votes /\ votes[id] >= MajorityVote
      BY <1>5, <1>6, <2>2 DEF VotesOf
    <3>2. MajorityVote \in Nat
      BY Majorities
    <3>3. QED BY <1>7, <1>9, <3>1, <3>2
  <2>3. QED BY <2>1, <2>2
<1>10. QED BY <1>2, <1>3, <1>4, <1>5, <1>6, <1>7, <1>8, <1>9

RequestsGrow ==
  /\ DOMAIN requested \subseteq DOMAIN requested' /\ Len(requested) <= Len(requested')
  /\ \A i \in DOMAIN requested : requested'[i] = requested[i] /\ versions'[i] = versions[i]

\* The version of the next request is above every one given.
LEMMA NextVersionFacts ==
  ASSUME BlockTypes, LogTypes, Numbered
  PROVE  /\ NextVersion \in Nat \ {0}
         /\ \A i \in DOMAIN requested : versions[i] + requested[i].count <= NextVersion
<1>1. CASE requested = << >>
  BY <1>1 DEF NextVersion
<1>2. CASE requested # << >>
  <2> DEFINE N == Len(requested)
  <2>1. /\ DOMAIN versions = 1 .. N /\ DOMAIN requested = 1 .. N /\ N \in Nat
        /\ \A i \in DOMAIN requested : requested[i].count \in Nat /\ requested[i].count > 0
        /\ \A i \in DOMAIN versions : versions[i] \in Nat
    BY VersionsIncrease
  <2>2. N # 0 /\ N \in DOMAIN requested /\ Len(versions) = N
    BY <1>2, <2>1 DEF LogTypes, Numbered
  <2>3. NextVersion = versions[N] + requested[N].count
    BY <1>2, <2>2 DEF NextVersion, Last
  <2>4. NextVersion \in Nat \ {0}
    BY <2>1, <2>2, <2>3
  <2>5. ASSUME NEW i \in DOMAIN requested PROVE versions[i] + requested[i].count <= NextVersion
    <3>1. i \in Nat /\ (i = N \/ i < N) /\ requested[i].count \in Nat /\ versions[i] \in Nat
          /\ requested[N].count \in Nat /\ versions[N] \in Nat
      BY <2>1, <2>2
    <3>2. CASE i = N
      BY <2>3, <3>1, <3>2
    <3>3. CASE i < N
      <4>1. versions[i] + requested[i].count <= versions[N]
        BY <2>2, <3>3 DEF Numbered
      <4>2. QED BY <2>3, <3>1, <4>1
    <3>4. QED BY <3>1, <3>2, <3>3
  <2>6. QED BY <2>4, <2>5
<1>3. QED BY <1>1, <1>2

LEMMA RequestsInv ==
  ASSUME Types, IdsCounted, VotesInv, Numbered, [Next]_vars
  PROVE  /\ RequestsGrow /\ Numbered'
         /\ requested' \in Seq(Pair) /\ versions' \in Seq(Nat)
<1>0. BlockTypes /\ NetTypes /\ StoreTypes /\ LogTypes
  BY DEF Types
<1>1. /\ DOMAIN versions = 1 .. Len(requested) /\ DOMAIN requested = 1 .. Len(requested)
      /\ Len(requested) \in Nat /\ Len(versions) = Len(requested)
      /\ requested \in Seq(Pair) /\ versions \in Seq(Nat)
  BY <1>0, VersionsIncrease DEF LogTypes, Numbered
<1>2. BlockGrows
  BY <1>0, BlocksGrow
<1>3. CASE UNCHANGED <<requested, versions>>
  <2>1. RequestsGrow
    BY <1>1, <1>3 DEF RequestsGrow
  <2>2. \A i \in DOMAIN requested : block'[requested[i].id] = block[requested[i].id] /\ requested[i].id \in DOMAIN block'
    BY <1>2 DEF Numbered, BlockGrows
  <2>3. Numbered'
    BY <1>3, <2>2 DEF Numbered
  <2>4. QED BY <1>1, <1>3, <2>1, <2>3
<1>4. CASE Counts /\ ~ UNCHANGED <<requested, versions>>
  <2>1. PICK msg \in net : HandleVote(msg)
    BY <1>4 DEF Counts
  <2> DEFINE pair == [id |-> msg.id, count |-> msg.count]  N == Len(requested)
  <2>2. msg.id \in DOMAIN block /\ msg.count = Len(block[msg.id])
    BY <1>0, <2>1, CountFacts
  <2>3. /\ requested' = Append(requested, pair)
        /\ versions' = Append(versions, NextVersion) /\ ~ IsRequested(msg.id)
    BY <1>0, <1>4, <2>1, CountFacts
  <2>4. pair \in Pair
    <3>1. msg.id \in BlockId /\ Len(block[msg.id]) \in Nat
      BY <1>0, <2>2 DEF BlockTypes
    <3>2. QED BY <2>2, <3>1 DEF Pair
  <2>5. NextVersion \in Nat \ {0} /\ \A i \in DOMAIN requested : versions[i] + requested[i].count <= NextVersion
    BY <1>0, NextVersionFacts
  <2>6. /\ requested' \in Seq(Pair) /\ Len(requested') = N + 1 /\ DOMAIN requested' = 1 .. (N + 1)
        /\ requested'[N + 1] = pair /\ \A i \in 1 .. N : requested'[i] = requested[i]
    BY <1>1, <2>3, <2>4, AppendFacts
  <2>7. /\ versions' \in Seq(Nat) /\ Len(versions') = N + 1
        /\ versions'[N + 1] = NextVersion /\ \A i \in 1 .. N : versions'[i] = versions[i]
    BY <1>1, <2>3, <2>5, AppendFacts
  <2>8. RequestsGrow
    BY <1>1, <2>6, <2>7 DEF RequestsGrow
  <2>9. \A i \in DOMAIN requested' : i \in 1 .. N \/ i = N + 1
    BY <1>1, <2>6
  <2>10. block' = block
    BY <2>1 DEF HandleVote, clientVars
  <2>11. ASSUME NEW i \in DOMAIN requested'
         PROVE  /\ requested'[i].id \in DOMAIN block'
                /\ requested'[i].count = Len(block'[requested'[i].id])
                /\ versions'[i] > 0
    <3>1. CASE i \in 1 .. N
      BY <1>1, <2>6, <2>7, <2>10, <3>1 DEF Numbered
    <3>2. CASE i = N + 1
      BY <2>2, <2>5, <2>6, <2>7, <2>10, <3>2
    <3>3. QED BY <2>9, <3>1, <3>2
  <2>12. ASSUME NEW i \in DOMAIN requested', NEW j \in DOMAIN requested', i < j
         PROVE  /\ requested'[i].id # requested'[j].id
                /\ versions'[i] + requested'[i].count <= versions'[j]
    <3>1. i \in 1 .. N /\ (j \in 1 .. N \/ j = N + 1)
      BY <1>1, <2>6, <2>12
    <3>2. CASE j \in 1 .. N
      BY <1>1, <2>6, <2>7, <2>12, <3>1, <3>2 DEF Numbered
    <3>3. CASE j = N + 1
      <4>1. requested[i].id # msg.id
        BY <1>1, <2>3, <3>1 DEF IsRequested
      <4>2. QED BY <1>1, <2>5, <2>6, <2>7, <3>1, <3>3, <4>1
    <3>4. QED BY <3>1, <3>2, <3>3
  <2>13. Numbered'
    BY <2>6, <2>7, <2>11, <2>12 DEF Numbered
  <2>14. QED BY <2>6, <2>7, <2>8, <2>13
<1>5. QED BY <1>3, <1>4, Changes

EntriesGrow ==
  /\ DOMAIN chosen \subseteq DOMAIN chosen' /\ Len(chosen) <= Len(chosen')
  /\ \A n \in DOMAIN chosen : chosen'[n] = chosen[n]

----------------------------------------------------------------------------
\* The entry that is chosen begins after the last one.
LEMMA ChooseFacts ==
  ASSUME BlockTypes, LogTypes, LogInv, NEW k \in DOMAIN requested, ChooseEntry(k)
  PROVE  LET e == [version |-> versions[Sequenced + 1], pairs |-> SubSeq(requested, Sequenced + 1, k)] IN
         /\ e \in [version : Nat, pairs : Seq(Pair)]
         /\ Sequenced + 1 \in 1 .. k /\ k \in 1 .. Len(requested) /\ k \in DOMAIN versions
         /\ chosen' = Append(chosen, e) /\ chosen' \in Seq([version : Nat, pairs : Seq(Pair)])
         /\ Len(chosen') = Len(chosen) + 1 /\ DOMAIN chosen' = 1 .. (Len(chosen) + 1)
         /\ Len(chosen) \in Nat /\ DOMAIN chosen = 1 .. Len(chosen)
         /\ chosen'[Len(chosen) + 1] = e
         /\ \A n \in 1 .. Len(chosen) : chosen'[n] = chosen[n]
         /\ Len(e.pairs) = k - Sequenced /\ DOMAIN e.pairs = 1 .. (k - Sequenced)
         /\ \A j \in DOMAIN e.pairs : e.pairs[j] = requested[Sequenced + j]
<1> DEFINE e == [version |-> versions[Sequenced + 1], pairs |-> SubSeq(requested, Sequenced + 1, k)]
           E == [version : Nat, pairs : Seq(Pair)]
<1>1. /\ Sequenced \in 0 .. Len(requested) /\ DOMAIN versions = 1 .. Len(requested)
      /\ DOMAIN requested = 1 .. Len(requested) /\ Len(requested) \in Nat
      /\ requested \in Seq(Pair) /\ \A i \in DOMAIN versions : versions[i] \in Nat
  BY SequencedFacts, VersionsIncrease DEF LogInv, LogTypes
<1>2. chosen' = Append(chosen, e) /\ k > Sequenced
  BY DEF ChooseEntry
<1>3. Sequenced + 1 \in 1 .. k /\ k \in 1 .. Len(requested) /\ Sequenced + 1 \in 1 .. Len(requested)
      /\ k \in (Sequenced + 1) .. Len(requested) /\ k \in DOMAIN versions
  BY <1>1, <1>2
<1> DEFINE p == SubSeq(requested, Sequenced + 1, k)
<1>4. /\ p \in Seq(Pair) /\ Len(p) = k - (Sequenced + 1) + 1 /\ DOMAIN p = 1 .. (k - (Sequenced + 1) + 1)
      /\ \A j \in 1 .. (k - (Sequenced + 1) + 1) : p[j] = requested[Sequenced + 1 + j - 1]
  BY <1>1, <1>3, SubSeqFacts
<1> HIDE DEF p
<1>5. k - (Sequenced + 1) + 1 = k - Sequenced
      /\ \A j \in 1 .. (k - Sequenced) : Sequenced + 1 + j - 1 = Sequenced + j
  BY <1>1, <1>3
<1>6. Len(p) = k - Sequenced /\ DOMAIN p = 1 .. (k - Sequenced)
      /\ \A j \in 1 .. (k - Sequenced) : p[j] = requested[Sequenced + j]
  BY <1>4, <1>5
<1>7. e \in E /\ e.pairs = p
  BY <1>1, <1>3, <1>4 DEF p
<1> HIDE DEF e
<1>8. chosen \in Seq(E)
  BY DEF LogTypes
<1> HIDE DEF E
<1>9. /\ chosen' \in Seq(E) /\ Len(chosen') = Len(chosen) + 1 /\ DOMAIN chosen' = 1 .. (Len(chosen) + 1)
      /\ Len(chosen) \in Nat /\ DOMAIN chosen = 1 .. Len(chosen)
      /\ chosen'[Len(chosen) + 1] = e /\ \A n \in 1 .. Len(chosen) : chosen'[n] = chosen[n]
  BY <1>2, <1>7, <1>8, AppendFacts
<1>10. QED BY <1>2, <1>3, <1>6, <1>7, <1>9 DEF e, E

LEMMA EntriesGrowInv ==
  ASSUME Types, LogInv, [Next]_vars
  PROVE  EntriesGrow /\ chosen' \in Seq([version : Nat, pairs : Seq(Pair)])
<1>0. BlockTypes /\ LogTypes
  BY DEF Types
<1>1. CASE chosen' = chosen
  <2>1. Len(chosen) \in Nat
    BY <1>0 DEF LogTypes
  <2>2. QED BY <1>0, <1>1, <2>1 DEF EntriesGrow, LogTypes
<1>2. CASE \E k \in DOMAIN requested : ChooseEntry(k)
  <2>1. PICK k \in DOMAIN requested : ChooseEntry(k)
    BY <1>2
  <2>2. /\ chosen' \in Seq([version : Nat, pairs : Seq(Pair)])
        /\ Len(chosen') = Len(chosen) + 1 /\ DOMAIN chosen' = 1 .. (Len(chosen) + 1)
        /\ Len(chosen) \in Nat /\ DOMAIN chosen = 1 .. Len(chosen)
        /\ \A n \in 1 .. Len(chosen) : chosen'[n] = chosen[n]
    BY <1>0, <2>1, ChooseFacts
  <2>3. QED BY <2>2 DEF EntriesGrow
<1>3. QED BY <1>1, <1>2, Changes

\* An entry stays where it is.
LEMMA EntriesStay ==
  ASSUME Types, IdsCounted, VotesInv, LogInv, [Next]_vars, NEW n \in DOMAIN chosen
  PROVE  Begins(n)' = Begins(n) /\ Ends(n)' = Ends(n)
<1>0. BlockTypes /\ LogTypes /\ Numbered
  BY DEF Types, LogInv
<1>1. RequestsGrow /\ Numbered' /\ requested' \in Seq(Pair) /\ versions' \in Seq(Nat) /\ BlockTypes'
  BY RequestsInv, BlockInv DEF LogInv, Types
<1>2. EntriesGrow
  BY EntriesGrowInv
<1>3. /\ Begins(n) \in 1 .. Len(requested) /\ versions[Begins(n)] = chosen[n].version
      /\ DOMAIN requested = 1 .. Len(requested)
  BY <1>0, EntryFacts, VersionsIncrease DEF LogInv, EntriesInv
<1> DEFINE b == Begins(n)
<1>4. versions'[b] = chosen'[n].version /\ b \in DOMAIN versions'
  <2>1. versions'[b] = versions[b] /\ b \in DOMAIN requested'
    BY <1>1, <1>3 DEF RequestsGrow
  <2>2. DOMAIN versions' = DOMAIN requested'
    BY <1>1 DEF Numbered
  <2>3. QED BY <1>2, <1>3, <2>1, <2>2 DEF EntriesGrow
<1>5. \A i, j \in DOMAIN versions' : i < j => versions'[i] < versions'[j]
  <2>1. DOMAIN versions' = DOMAIN requested' /\ \A i \in DOMAIN versions' : versions'[i] \in Nat
    BY <1>1 DEF Numbered
  <2>2. \A i \in DOMAIN requested' : requested'[i].count \in Nat \ {0}
    <3>1. ASSUME NEW i \in DOMAIN requested' PROVE requested'[i].count \in Nat \ {0}
      <4>1. /\ requested'[i].id \in DOMAIN block'
            /\ requested'[i].count = Len(block'[requested'[i].id])
        BY <1>1 DEF Numbered
      <4>2. block'[requested'[i].id] \in Seq(Action) /\ block'[requested'[i].id] # << >>
        BY <1>1, <4>1 DEF BlockTypes
      <4>3. QED BY <4>1, <4>2, TailFacts
    <3>2. QED BY <3>1
  <2>3. ASSUME NEW i \in DOMAIN versions', NEW j \in DOMAIN versions', i < j PROVE versions'[i] < versions'[j]
    <3>1. versions'[i] + requested'[i].count <= versions'[j]
      BY <1>1, <2>1, <2>3 DEF Numbered
    <3>2. versions'[i] \in Nat /\ versions'[j] \in Nat /\ requested'[i].count \in Nat \ {0}
      BY <2>1, <2>2
    <3>3. QED BY <3>1, <3>2
  <2>4. QED BY <2>3
<1>6. (CHOOSE i \in DOMAIN versions' : versions'[i] = versions'[b]) = b
  <2> HIDE DEF b
  <2>1. QED BY <1>1, <1>4, <1>5, PlaceOf
<1>7. Begins(n)' = b
  BY <1>4, <1>6 DEF Begins
<1>8. QED BY <1>2, <1>7 DEF Ends, EntriesGrow

LEMMA EntriesStep ==
  ASSUME Types, IdsCounted, VotesInv, LogInv, [Next]_vars
  PROVE  EntriesInv'
<1>0. BlockTypes /\ LogTypes /\ Numbered /\ EntriesInv
  BY DEF Types, LogInv
<1>1. RequestsGrow /\ Numbered' /\ requested' \in Seq(Pair) /\ versions' \in Seq(Nat)
  BY RequestsInv DEF LogInv
<1>2. EntriesGrow
  BY EntriesGrowInv
<1>3. \A n \in DOMAIN chosen : Begins(n)' = Begins(n) /\ Ends(n)' = Ends(n)
  BY EntriesStay
<1>4. /\ DOMAIN versions' = DOMAIN requested' /\ DOMAIN versions = 1 .. Len(requested)
      /\ DOMAIN requested = 1 .. Len(requested) /\ Len(requested) \in Nat /\ Len(requested') \in Nat
  BY <1>0, <1>1, VersionsIncrease DEF Numbered
<1>5. ASSUME NEW n \in DOMAIN chosen
      PROVE  /\ Begins(n)' \in DOMAIN versions' /\ versions'[Begins(n)'] = chosen'[n].version
             /\ Begins(n)' <= Ends(n)' /\ Ends(n)' <= Len(requested')
             /\ \A k \in DOMAIN chosen'[n].pairs : chosen'[n].pairs[k] = requested'[Begins(n)' + k - 1]
             /\ n = 1 => Begins(n)' = 1
             /\ n > 1 => Begins(n)' = Ends(n - 1)' + 1
             /\ \A k \in DOMAIN chosen : k < n => Ends(k)' < Begins(n)'
  <2>1. /\ n \in 1 .. Len(chosen) /\ Begins(n) \in 1 .. Len(requested) /\ Ends(n) \in Begins(n) .. Len(requested)
        /\ Len(chosen[n].pairs) = Ends(n) - Begins(n) + 1 /\ DOMAIN chosen[n].pairs = 1 .. Len(chosen[n].pairs)
        /\ Len(chosen) \in Nat /\ DOMAIN chosen = 1 .. Len(chosen)
    BY <1>0, EntryFacts DEF LogInv, LogTypes
  <2>2. chosen'[n] = chosen[n]
    BY <1>2 DEF EntriesGrow
  <2>3. Begins(n) \in DOMAIN versions' /\ versions'[Begins(n)] = chosen'[n].version
    BY <1>0, <1>1, <1>4, <2>1, <2>2 DEF RequestsGrow, EntriesInv
  <2>4. Begins(n) <= Ends(n) /\ Ends(n) <= Len(requested')
    BY <1>1, <1>4, <2>1 DEF RequestsGrow
  <2>5. ASSUME NEW k \in DOMAIN chosen[n].pairs PROVE chosen[n].pairs[k] = requested'[Begins(n) + k - 1]
    <3>1. Begins(n) + k - 1 \in DOMAIN requested
      BY <1>4, <2>1
    <3>2. chosen[n].pairs[k] = requested[Begins(n) + k - 1]
      BY <1>0 DEF EntriesInv
    <3>3. QED BY <1>1, <3>1, <3>2 DEF RequestsGrow
  <2>6. /\ (n = 1 => Begins(n) = 1)
        /\ (n > 1 => Begins(n) = Ends(n - 1) + 1 /\ n - 1 \in DOMAIN chosen)
    BY <1>0, <2>1 DEF EntriesInv
  <2>7. \A k \in DOMAIN chosen : k < n => Ends(k) < Begins(n)
    BY <1>0 DEF EntriesInv
  <2>8. QED BY <1>3, <2>2, <2>3, <2>4, <2>5, <2>6, <2>7
<1>6. CASE chosen' = chosen
  BY <1>5, <1>6 DEF EntriesInv
<1>7. CASE \E k \in DOMAIN requested : ChooseEntry(k)
  <2>1. PICK k \in DOMAIN requested : ChooseEntry(k)
    BY <1>7
  <2>0. PICK N, s : N = Len(chosen) /\ s = Sequenced
    OBVIOUS
  <2> DEFINE e == [version |-> versions[s + 1], pairs |-> SubSeq(requested, s + 1, k)]
  <2>02. /\ s + 1 \in 1 .. k /\ k \in 1 .. Len(requested) /\ k \in DOMAIN versions
         /\ N \in Nat /\ DOMAIN chosen' = 1 .. (N + 1) /\ DOMAIN chosen = 1 .. N
         /\ chosen'[N + 1] = e
         /\ Len(e.pairs) = k - s /\ DOMAIN e.pairs = 1 .. (k - s)
         /\ \A j \in DOMAIN e.pairs : e.pairs[j] = requested[s + j]
    BY <1>0, <2>0, <2>1, ChooseFacts DEF LogInv
  <2>2. /\ s + 1 \in 1 .. k /\ k \in 1 .. Len(requested) /\ k \in DOMAIN versions
        /\ N \in Nat /\ DOMAIN chosen' = 1 .. (N + 1) /\ DOMAIN chosen = 1 .. N
        /\ chosen'[N + 1].version = versions[s + 1]
        /\ Len(chosen'[N + 1].pairs) = k - s /\ DOMAIN chosen'[N + 1].pairs = 1 .. (k - s)
        /\ \A j \in 1 .. (k - s) : chosen'[N + 1].pairs[j] = requested[s + j]
    <3>1. e.version = versions[s + 1]
      OBVIOUS
    <3> HIDE DEF e
    <3>2. QED BY ONLY <2>02, <3>1
  <2>3. versions' = versions /\ requested' = requested
    BY <2>1 DEF ChooseEntry
  <2>4. s \in 0 .. Len(requested) /\ (chosen = << >> => s = 0)
        /\ (chosen # << >> => N \in DOMAIN chosen /\ s = Ends(N))
        /\ \A n \in DOMAIN chosen : Ends(n) <= s
    BY <1>0, <2>0, SequencedFacts DEF LogInv
  <2>5. s + 1 \in DOMAIN versions
    BY <1>4, <2>2
  <2>6. (CHOOSE i \in DOMAIN versions : versions[i] = versions[s + 1]) = s + 1
    <3>1. versions \in Seq(Nat) /\ \A i, j \in DOMAIN versions : i < j => versions[i] < versions[j]
      BY <1>0, VersionsIncrease DEF LogTypes
    <3>2. QED BY <2>5, <3>1, PlaceOf
  <2>7. Begins(N + 1)' = s + 1
    BY <2>2, <2>3, <2>6 DEF Begins
  <2>8. Ends(N + 1)' = k
    <3>1. Ends(N + 1)' = s + 1 + (k - s) - 1
      BY <2>2, <2>7 DEF Ends
    <3>2. QED BY <2>2, <2>4, <3>1
  <2>9. /\ s + 1 \in DOMAIN versions' /\ versions'[s + 1] = chosen'[N + 1].version
        /\ s + 1 <= k /\ k <= Len(requested')
        /\ \A j \in DOMAIN chosen'[N + 1].pairs : chosen'[N + 1].pairs[j] = requested'[s + 1 + j - 1]
    <3>1. \A j \in 1 .. (k - s) : s + 1 + j - 1 = s + j
      BY <2>2, <2>4
    <3>2. s + 1 <= k /\ k <= Len(requested')
      BY <1>4, <2>2, <2>3, <2>4
    <3>3. QED BY <2>2, <2>3, <2>5, <3>1, <3>2
  <2>10. (N + 1 = 1 => s + 1 = 1) /\ (N + 1 > 1 => s + 1 = Ends(N + 1 - 1)' + 1)
    <3>1. CASE N = 0
      <4>1. chosen = << >>
        <5> DEFINE E == [version : Nat, pairs : Seq(Pair)]
        <5>1. chosen \in Seq(E)
          BY <1>0 DEF LogTypes
        <5> HIDE DEF E
        <5>2. QED BY <2>0, <3>1, <5>1, EmptySeq
      <4>2. QED BY <2>4, <3>1, <4>1
    <3>2. CASE N # 0
      <4>1. chosen # << >> /\ N + 1 - 1 = N /\ N + 1 # 1
        BY <2>0, <2>2, <3>2
      <4>2. Ends(N)' = Ends(N)
        BY <1>3, <2>4, <4>1
      <4>3. QED BY <2>4, <4>1, <4>2
    <3>3. QED BY <3>1, <3>2
  <2>11. \A n \in DOMAIN chosen : Ends(n)' < s + 1
    <3>1. ASSUME NEW n \in DOMAIN chosen PROVE Ends(n) < s + 1
      <4>1. Ends(n) \in Begins(n) .. Len(requested) /\ Begins(n) \in 1 .. Len(requested)
        BY <1>0, EntryFacts DEF LogInv
      <4>2. QED BY <1>4, <2>4, <4>1
    <3>2. QED BY <1>3, <3>1
  <2>12. ASSUME NEW n \in DOMAIN chosen'
         PROVE  /\ Begins(n)' \in DOMAIN versions' /\ versions'[Begins(n)'] = chosen'[n].version
                /\ Begins(n)' <= Ends(n)' /\ Ends(n)' <= Len(requested')
                /\ \A j \in DOMAIN chosen'[n].pairs : chosen'[n].pairs[j] = requested'[Begins(n)' + j - 1]
                /\ n = 1 => Begins(n)' = 1
                /\ n > 1 => Begins(n)' = Ends(n - 1)' + 1
                /\ \A j \in DOMAIN chosen' : j < n => Ends(j)' < Begins(n)'
    <3>1. CASE n = N + 1
      <4>1. \A j \in DOMAIN chosen' : j < N + 1 => j \in DOMAIN chosen
        BY <2>2
      <4>2. Begins(n)' = s + 1 /\ Ends(n)' = k
        BY <2>7, <2>8, <3>1
      <4>3. (n = 1 => s + 1 = 1) /\ (n > 1 => s + 1 = Ends(n - 1)' + 1)
        <5>1. n - 1 = N /\ N + 1 - 1 = N
          BY <2>2, <3>1
        <5>2. Ends(n - 1)' = Ends(N)' /\ Ends(N + 1 - 1)' = Ends(N)'
          BY <5>1
        <5>3. QED BY <2>10, <3>1, <5>2
      <4>4. \A j \in DOMAIN chosen' : j < n => Ends(j)' < s + 1
        BY <2>11, <3>1, <4>1
      <4>5. QED BY <2>9, <3>1, <4>2, <4>3, <4>4
    <3>2. CASE n # N + 1
      <4>1. n \in DOMAIN chosen /\ \A j \in DOMAIN chosen' : j < n => j \in DOMAIN chosen
        BY <2>2, <3>2
      <4>2. QED BY <1>5, <4>1
    <3>3. QED BY <3>1, <3>2
  <2>13. QED BY <2>12 DEF EntriesInv
<1>8. QED BY <1>6, <1>7, Changes

----------------------------------------------------------------------------
(***************************************************************************)
(* Messages.                                                               *)
(***************************************************************************)

\* What a machine sends to a metadata machine lists that one's actions.
LEMMA PartFacts ==
  ASSUME BlockTypes, NEW id \in DOMAIN block, NEW m \in Reader
  PROVE  /\ Part(id, m, ReplicaOf[m]) \in Seq(Item)
         /\ Rest(Part(id, m, ReplicaOf[m]), id, m, 0)
<1> DEFINE S == {i \in DOMAIN block[id] : m \in Recipients(block[id][i], ReplicaOf[m])}
           places == InOrder(S)
           n == Cardinality(S)
<1>1. block[id] \in Seq(Action)
  BY DEF BlockTypes
<1>2. DOMAIN block[id] = 1 .. Len(block[id]) /\ Len(block[id]) \in Nat
      /\ \A i \in DOMAIN block[id] : block[id][i] \in Action
  BY <1>1
<1>3. S \in SUBSET Nat /\ IsFiniteSet(S)
  <2>1. IsFiniteSet(1 .. Len(block[id]))
    <3>1. 1 \in Int /\ Len(block[id]) \in Int
      BY <1>2
    <3>2. QED BY <3>1, FS_Interval
  <2>2. S \subseteq 1 .. Len(block[id])
    BY <1>2
  <2>3. QED BY <1>2, <2>1, <2>2, FS_Subset
<1>4. /\ places \in [1 .. n -> S] /\ n \in Nat
      /\ \A i, j \in 1 .. n : i < j => places[i] < places[j]
      /\ \A x \in S : \E i \in 1 .. n : places[i] = x
  <2> HIDE DEF S
  <2>1. QED BY <1>3, InOrderFacts
<1>5. Part(id, m, ReplicaOf[m]) = [k \in DOMAIN places |-> ItemAt(id, places[k])]
  BY DEF Part
<1> DEFINE P == [k \in 1 .. n |-> ItemAt(id, places[k])]
<1>6. Part(id, m, ReplicaOf[m]) = P
  <2>1. DOMAIN places = 1 .. n
    BY <1>4
  <2>2. QED BY <1>5, <2>1
<1>7. \A k \in 1 .. n : /\ places[k] \in DOMAIN block[id] /\ places[k] \in Nat /\ places[k] > 0
                        /\ Concerned(m, block[id][places[k]])
  <2>1. \A i \in S : i \in DOMAIN block[id] /\ i \in Nat /\ i > 0 /\ Concerned(m, block[id][i])
    BY <1>2 DEF Concerned
  <2>2. \A k \in 1 .. n : places[k] \in S
    <3> HIDE DEF S, places, n
    <3>1. QED BY <1>4
  <2> HIDE DEF S, places, n
  <2>3. QED BY <2>1, <2>2
<1>8. \A i \in DOMAIN block[id] : Concerned(m, block[id][i]) => \E k \in 1 .. n : places[k] = i
  <2>1. \A i \in DOMAIN block[id] : Concerned(m, block[id][i]) => i \in S
    BY DEF Concerned
  <2> HIDE DEF S, places, n
  <2>2. QED BY <1>4, <2>1
<1> HIDE DEF S, places, n
<1>9. \A k \in 1 .. n : P[k] = ItemAt(id, places[k]) /\ P[k] \in Item
                        /\ P[k].offset = places[k] - 1 /\ P[k].action = block[id][places[k]]
  <2>1. ASSUME NEW k \in 1 .. n
        PROVE  ItemAt(id, places[k]) \in Item /\ ItemAt(id, places[k]).offset = places[k] - 1
               /\ ItemAt(id, places[k]).action = block[id][places[k]]
    <3>1. places[k] - 1 \in Nat /\ block[id][places[k]] \in Action
      BY <1>2, <1>7
    <3>2. QED BY <3>1 DEF ItemAt, Item
  <2>2. QED BY <2>1
<1>10. DOMAIN P = 1 .. n
  OBVIOUS
<1> HIDE DEF P
<1>11. P \in Seq(Item)
  <2>1. \A T, f : f = [k \in 1 .. n |-> f[k]] /\ (\A k \in 1 .. n : f[k] \in T) => f \in Seq(T)
    BY <1>4
  <2>2. P = [k \in 1 .. n |-> P[k]]
    BY DEF P
  <2>3. QED BY <1>9, <2>1, <2>2
<1>12. Rest(P, id, m, 0)
  <2>1. ASSUME NEW k \in DOMAIN P
        PROVE  /\ P[k].offset >= 0 /\ P[k].offset + 1 \in DOMAIN block[id]
               /\ P[k].action = block[id][P[k].offset + 1]
               /\ Concerned(m, P[k].action)
    <3>1. k \in 1 .. n /\ P[k].offset = places[k] - 1 /\ P[k].action = block[id][places[k]]
          /\ places[k] \in DOMAIN block[id] /\ places[k] \in Nat /\ places[k] > 0
          /\ Concerned(m, block[id][places[k]])
      BY <1>7, <1>9, <1>10
    <3>2. P[k].offset >= 0 /\ P[k].offset + 1 = places[k]
      BY <3>1
    <3>3. QED BY <3>1, <3>2
  <2>2. ASSUME NEW i \in DOMAIN block[id], i > 0, Concerned(m, block[id][i])
        PROVE  \E k \in DOMAIN P : P[k].offset = i - 1
    BY <1>8, <1>9, <1>10, <2>2
  <2>3. ASSUME NEW j \in DOMAIN P, NEW k \in DOMAIN P, j < k
        PROVE  P[j].offset < P[k].offset
    <3>1. P[j].offset = places[j] - 1 /\ P[k].offset = places[k] - 1
          /\ places[j] \in Nat /\ places[k] \in Nat /\ places[j] < places[k]
      BY <1>4, <1>7, <1>9, <1>10, <2>3
    <3>2. QED BY <3>1
  <2>4. QED BY <2>1, <2>2, <2>3 DEF Rest
<1>13. QED BY <1>6, <1>11, <1>12

LEMMA RestStays ==
  ASSUME BlockGrows, NEW id \in DOMAIN block, NEW s, NEW m, NEW o, Rest(s, id, m, o)
  PROVE  Rest(s, id, m, o)'
<1>1. block'[id] = block[id]
  BY DEF BlockGrows
<1>2. QED BY <1>1 DEF Rest, Concerned, Recipients

\* What the first half of a machine's turn of a block does to the messages.
LEMMA BatchFacts ==
  ASSUME BlockTypes, NetTypes, NEW msg \in net, HandleBatch(msg)
  PROVE  /\ msg.id \in DOMAIN block /\ msg.to \in Machine /\ IsMessage(msg) /\ msg.type = "BATCH"
         /\ Voting(msg) /\ From(msg) = ReplicaOf[msg.to] /\ ReplicaOf[msg.to] \in Replica
         /\ \A x \in net : x # msg => x \in net'
         /\ Vote(msg.to, msg.id, Len(block[msg.id])) \in net'
         /\ \A x \in net' : \/ x \in net /\ x # msg
                            \/ x = Vote(msg.to, msg.id, Len(block[msg.id]))
                            \/ \E m \in Reader : /\ ReplicaOf[m] = ReplicaOf[msg.to]
                                                 /\ x = Subbatch(m, msg.id, Part(msg.id, m, ReplicaOf[m]))
         /\ block' = block /\ stored' = [stored EXCEPT ![msg.to] = @ \cup {msg.id}]
<1>1. IsMessage(msg) /\ msg.type = "BATCH"
  BY DEF HandleBatch, Handling, NetTypes
<1>2. msg.id \in DOMAIN block /\ msg.to \in Machine
  BY <1>1 DEF IsMessage
<1>3. Voting(msg) /\ From(msg) = ReplicaOf[msg.to] /\ ReplicaOf[msg.to] \in Replica
  BY <1>1, <1>2, Machines DEF Voting, From
<1> DEFINE r == ReplicaOf[msg.to]
<1>4. /\ net' = (net \ {msg}) \cup {Vote(msg.to, msg.id, Len(block[msg.id]))}
                   \cup {Subbatch(m, msg.id, Part(msg.id, m, r)) : m \in MetadataMachines(r)}
      /\ block' = block /\ stored' = [stored EXCEPT ![msg.to] = @ \cup {msg.id}]
  BY DEF HandleBatch, clientVars
<1>5. \A m \in MetadataMachines(r) : m \in Reader /\ ReplicaOf[m] = r
  BY <1>3, Machines
<1>6. QED BY <1>1, <1>2, <1>3, <1>4, <1>5

LEMMA NetInv ==
  ASSUME Types, IdsCounted, [Next]_vars
  PROVE  NetTypes'
<1>0. BlockTypes /\ NetTypes
  BY DEF Types
<1>1. ASSUME NEW x \in net PROVE IsMessage(x)'
  <2>1. IsMessage(x) /\ BlockGrows
    BY <1>0, BlocksGrow DEF NetTypes
  <2>2. x.id \in DOMAIN block' /\ block'[x.id] = block[x.id]
    BY <2>1 DEF IsMessage, BlockGrows
  <2>3. QED BY <2>1, <2>2 DEF IsMessage, Vote
<1>2. CASE net' = net
  BY <1>1, <1>2 DEF NetTypes
<1>3. CASE Cuts
  <2>1. PICK m \in Machine, b \in Blucket : CutBlock(m, b)
    BY <1>3 DEF Cuts
  <2>2. ASSUME NEW x \in net', x \notin net PROVE IsMessage(x)'
    <3>1. PICK r \in Replica : x = Batch(BlucketMachine[b][r], NewId(m))
      BY <2>1, <2>2 DEF CutBlock
    <3>2. NewId(m) \in DOMAIN block' /\ BlucketMachine[b][r] \in Machine
      BY <1>0, <2>1, CutFacts, Machines
    <3>3. x.id = NewId(m) /\ x.to = BlucketMachine[b][r] /\ x.type = "BATCH"
      BY <3>1, Messages
    <3>4. QED BY <3>1, <3>2, <3>3 DEF IsMessage, Batch
  <2>3. QED BY <1>1, <2>2 DEF NetTypes
<1>4. CASE Batches
  <2>1. PICK msg \in net : HandleBatch(msg)
    BY <1>4 DEF Batches
  <2>2. /\ msg.id \in DOMAIN block /\ msg.to \in Machine /\ block' = block
        /\ \A x \in net' : \/ x \in net /\ x # msg
                           \/ x = Vote(msg.to, msg.id, Len(block[msg.id]))
                           \/ \E m \in Reader : x = Subbatch(m, msg.id, Part(msg.id, m, ReplicaOf[m]))
    BY <1>0, <2>1, BatchFacts
  <2>3. ASSUME NEW x \in net', x = Vote(msg.to, msg.id, Len(block[msg.id])) PROVE IsMessage(x)'
    <3>1. x.id = msg.id /\ x.to = Leader /\ x.type = "VOTE" /\ x.from = msg.to
      BY <2>3, Messages
    <3>2. Leader \in Machine
      BY Machines
    <3>3. QED BY <2>2, <2>3, <3>1, <3>2 DEF IsMessage, Vote
  <2>4. ASSUME NEW x \in net', NEW m \in Reader, x = Subbatch(m, msg.id, Part(msg.id, m, ReplicaOf[m]))
        PROVE IsMessage(x)'
    <3>1. /\ x.id = msg.id /\ x.to = m /\ x.type = "SUBBATCH"
          /\ x.items = Part(msg.id, m, ReplicaOf[m])
      BY <2>4, Messages
    <3>2. m \in Machine /\ x.items \in Seq(Item)
      BY <1>0, <2>2, <3>1, Machines, PartFacts
    <3>3. QED BY <2>2, <2>4, <3>1, <3>2 DEF IsMessage, Subbatch
  <2>5. QED BY <1>1, <2>2, <2>3, <2>4 DEF NetTypes
<1>5. CASE Counts \/ Receives \/ Drops \/ Stops
  <2>1. net' \subseteq net
    BY <1>5 DEF Counts, Receives, Drops, Stops, HandleVote, HandleSubbatch, Drop, Stop
  <2>2. QED BY <1>1, <2>1 DEF NetTypes
<1>6. QED BY <1>2, <1>3, <1>4, <1>5, Changes

----------------------------------------------------------------------------
(***************************************************************************)
(* The votes.                                                              *)
(***************************************************************************)
LEMMA StoreInv ==
  ASSUME Types, IdsCounted, VotesInv, [Next]_vars
  PROVE  StoreTypes'
<1>0. BlockTypes /\ NetTypes /\ StoreTypes
  BY DEF Types
<1>1. DOMAIN block \subseteq DOMAIN block'
  BY <1>0, BlocksGrow DEF BlockGrows
<1>2. stored' \in [Machine -> SUBSET DOMAIN block']
  <2>1. CASE stored' = stored
    BY <1>0, <1>1, <2>1 DEF StoreTypes
  <2>2. CASE Batches
    <3>1. PICK msg \in net : HandleBatch(msg)
      BY <2>2 DEF Batches
    <3>2. /\ msg.id \in DOMAIN block /\ block' = block
          /\ stored' = [stored EXCEPT ![msg.to] = @ \cup {msg.id}]
      BY <1>0, <3>1, BatchFacts
    <3>3. QED BY <1>0, <3>2 DEF StoreTypes
  <2>3. QED BY <2>1, <2>2, Changes
<1>3. DOMAIN votes' \subseteq DOMAIN block' /\ \A id \in DOMAIN votes' : votes'[id] \in 1 .. Cardinality(Replica) - 1
  <2>1. CASE votes' = votes
    BY <1>0, <1>1, <2>1 DEF StoreTypes
  <2>2. CASE Counts
    <3>1. PICK msg \in net : HandleVote(msg)
      BY <2>2 DEF Counts
    <3> DEFINE id == msg.id  N == Cardinality(Replica)
    <3>2. id \in DOMAIN block /\ Counted(id) \in Nat /\ Votes(id) = Counted(id) + 1
      BY <1>0, <3>1, CountFacts
    <3>3. CountVote(id)
      BY <3>1 DEF HandleVote
    <3>4. N \in Nat \ {0} /\ Counted(id) <= N - 1
      <4>1. N \in Nat \ {0}
        BY Machines
      <4>2. CASE id \in DOMAIN votes
        BY <1>0, <4>1, <4>2 DEF StoreTypes, Counted
      <4>3. CASE id \notin DOMAIN votes
        BY <4>1, <4>3 DEF Counted
      <4>4. QED BY <4>1, <4>2, <4>3
    <3>5. CASE Votes(id) = N
      BY <1>0, <1>1, <3>3, <3>5 DEF StoreTypes, CountVote
    <3>6. CASE Votes(id) # N
      <4>1. votes' = Put(votes, id, Votes(id))
        BY <3>3, <3>6 DEF CountVote
      <4>2. Votes(id) \in 1 .. N - 1
        BY <3>2, <3>4, <3>6
      <4>3. DOMAIN votes' = DOMAIN votes \cup {id}
            /\ \A y \in DOMAIN votes' : votes'[y] = IF y = id THEN Votes(id) ELSE votes[y]
        BY <4>1 DEF Put
      <4>4. QED BY <1>0, <1>1, <3>2, <4>2, <4>3 DEF StoreTypes
    <3>7. QED BY <3>5, <3>6
  <2>3. QED BY <2>1, <2>2, Changes
<1>4. QED BY <1>2, <1>3 DEF StoreTypes

LEMMA HoldersFacts ==
  ASSUME NEW H \in SUBSET Replica, NEW A \in SUBSET Replica
  PROVE  /\ IsFiniteSet(H) /\ IsFiniteSet(A) /\ IsFiniteSet(H \ A)
         /\ Cardinality(H) \in Nat /\ Cardinality(A) \in Nat /\ Cardinality(H \ A) \in Nat
         /\ Cardinality(H) <= Cardinality(Replica) /\ Cardinality(H \ A) <= Cardinality(H)
         /\ Cardinality(H) = Cardinality(Replica) => H = Replica
<1>1. IsFiniteSet(Replica)
  BY Machines
<1>2. IsFiniteSet(H) /\ IsFiniteSet(A) /\ Cardinality(H) <= Cardinality(Replica)
      /\ (Cardinality(H) = Cardinality(Replica) => H = Replica)
  BY <1>1, FS_Subset
<1>3. H \ A \in SUBSET H
  OBVIOUS
<1>4. IsFiniteSet(H \ A) /\ Cardinality(H \ A) <= Cardinality(H)
  BY <1>2, <1>3, FS_Subset
<1>5. QED BY <1>2, <1>4, FS_CardinalityType

LEMMA VotingReplicas ==
  ASSUME StoreTypes, NEW id
  PROVE  Holders(id) \in SUBSET Replica /\ Awaited(id) \in SUBSET Replica
BY Machines DEF Holders, Awaited

\* Votes that are not counted now leave the count right.
LEMMA VotesKept ==
  ASSUME StoreTypes, StoreTypes', NEW id, VotesOf(id),
         Counted(id)' = Counted(id), id \in DOMAIN votes' <=> id \in DOMAIN votes,
         Awaited(id)' \subseteq Awaited(id), Holders(id) \subseteq Holders(id)',
         Awaited(id)' = Awaited(id) \/ ~ NoStop', NoStop' => NoStop,
         IsRequested(id)' => IsRequested(id)
  PROVE  VotesOf(id)'
<1> DEFINE H == Holders(id)  A == Awaited(id)
<1>1. PICK K, B : K = Holders(id)' /\ B = Awaited(id)'
  OBVIOUS
<1>2. H \in SUBSET Replica /\ A \in SUBSET Replica
  BY VotingReplicas
<1>3. K \in SUBSET Replica /\ B \in SUBSET Replica
  BY <1>1, Machines DEF Holders, Awaited, StoreTypes
<1>4. B \subseteq A /\ H \subseteq K
  BY <1>1
<1> HIDE DEF H, A
<1>5. Cardinality(H \ A) <= Cardinality(K \ B) /\ Cardinality(H) <= Cardinality(K)
  <2>1. IsFiniteSet(K \ B) /\ IsFiniteSet(K)
    BY <1>3, HoldersFacts
  <2>2. H \ A \in SUBSET (K \ B) /\ H \in SUBSET K
    BY <1>4
  <2>3. QED BY <2>1, <2>2, FS_Subset
<1>6. Cardinality(H \ A) \in Nat /\ Cardinality(K \ B) \in Nat /\ Cardinality(H) \in Nat /\ Cardinality(K) \in Nat
      /\ Cardinality(Replica) \in Nat
  BY <1>2, <1>3, HoldersFacts, Machines
<1>7. Counted(id) \in Nat
  <2>1. CASE id \in DOMAIN votes
    <3>1. votes[id] \in 1 .. Cardinality(Replica) - 1
      BY <2>1 DEF StoreTypes
    <3>2. QED BY <1>6, <2>1, <3>1 DEF Counted
  <2>2. CASE id \notin DOMAIN votes
    BY <2>2 DEF Counted
  <2>3. QED BY <2>1, <2>2
<1>8. Counted(id)' <= Cardinality(K \ B)
  <2>1. Counted(id) <= Cardinality(H \ A)
    BY DEF VotesOf, H, A
  <2>2. QED BY <1>5, <1>6, <1>7, <2>1
<1>9. id \in DOMAIN votes' => votes'[id] = votes[id]
  BY DEF Counted
<1>10. NoStop' /\ id \in DOMAIN votes' => votes'[id] + Cardinality(B) = Cardinality(Replica)
  BY <1>1, <1>9 DEF VotesOf
<1>11. NoStop' /\ id \notin DOMAIN votes' /\ B # {} => B = Replica
  BY <1>1 DEF VotesOf
<1>12. ASSUME IsRequested(id)'
       PROVE  /\ 2 * Cardinality(K) > Cardinality(Replica)
              /\ id \in DOMAIN votes' => votes'[id] >= MajorityVote
              /\ id \notin DOMAIN votes' => B = {}
  <2>1. 2 * Cardinality(H) > Cardinality(Replica)
    BY <1>12 DEF VotesOf, H
  <2>2. 2 * Cardinality(K) > Cardinality(Replica)
    BY <1>5, <1>6, <2>1
  <2>3. id \in DOMAIN votes' => votes'[id] >= MajorityVote
    BY <1>9, <1>12 DEF VotesOf
  <2>4. id \notin DOMAIN votes' => B = {}
    BY <1>4, <1>12 DEF VotesOf, A
  <2>5. QED BY <2>2, <2>3, <2>4
<1>13. MajorityVote' = MajorityVote
  BY DEF MajorityVote
<1>14. QED BY <1>1, <1>8, <1>10, <1>11, <1>12, <1>13 DEF VotesOf

LEMMA VotesAfterCut ==
  ASSUME Types, IdsCounted, VotesInv, Numbered, [Next]_vars, Cuts
  PROVE  VotesInv'
<1>0. BlockTypes /\ NetTypes /\ StoreTypes /\ LogTypes /\ OneVoteEach /\ \A x \in net : IsMessage(x) /\ x.id \in DOMAIN block
  BY DEF Types, VotesInv, NetTypes, IsMessage
<1>00. StoreTypes'
  BY StoreInv
<1>1. PICK m \in Machine, b \in Blucket : CutBlock(m, b)
  BY DEF Cuts
<1>2. PICK id : id = NewId(m)
  OBVIOUS
<1>3. id \notin DOMAIN block /\ DOMAIN block' = DOMAIN block \cup {id}
  BY <1>0, <1>1, <1>2, CutFacts
<1>4. UNCHANGED <<status, stored, votes, requested>>
  BY <1>1 DEF CutBlock, metalogVars
<1>5. /\ \A x \in net' : x \in net \/ \E r \in Replica : x = Batch(BlucketMachine[b][r], id)
      /\ \A x \in net : x \in net'
      /\ \A r \in Replica : Batch(BlucketMachine[b][r], id) \in net'
  BY <1>1, <1>2 DEF CutBlock
<1>6. \A r \in Replica : LET x == Batch(BlucketMachine[b][r], id) IN
        x.id = id /\ x.type = "BATCH" /\ Voting(x) /\ From(x) = r
  BY Messages, Machines
<1>7. \A x \in net' : /\ x.id # id => x \in net
                      /\ x.id = id => /\ x.type = "BATCH" /\ From(x) \in Replica
                                      /\ x = Batch(BlucketMachine[b][From(x)], id)
  BY <1>0, <1>3, <1>5, <1>6
<1>8. OneVoteEach'
  <2>1. ASSUME NEW x \in net', NEW y \in net', Voting(x), Voting(y), x.id = y.id, From(x) = From(y)
        PROVE  x = y
    <3>1. CASE x.id = id
      BY <1>7, <2>1, <3>1
    <3>2. CASE x.id # id
      <4>1. x \in net /\ y \in net
        BY <1>7, <2>1, <3>2
      <4>2. QED BY <1>0, <2>1, <4>1 DEF OneVoteEach
    <3>3. QED BY <3>1, <3>2
  <2>2. ASSUME NEW x \in net', x.type = "VOTE" PROVE x.id \in stored'[x.from]
    <3>1. x \in net
      BY <1>7, <2>2
    <3>2. QED BY <1>0, <1>4, <2>2, <3>1 DEF OneVoteEach
  <2>3. QED BY <2>1, <2>2 DEF OneVoteEach, Voting, From
<1>9. ASSUME NEW d \in DOMAIN block PROVE VotesOf(d)'
  <2>1. d # id
    BY <1>3
  <2>2. Awaited(d)' = Awaited(d)
    BY <1>5, <1>7, <2>1 DEF Awaited, Voting, From
  <2>3. /\ Counted(d)' = Counted(d) /\ Holders(d)' = Holders(d) /\ (NoStop' <=> NoStop)
        /\ (IsRequested(d)' <=> IsRequested(d)) /\ VotesOf(d)
    BY <1>4 DEF Counted, Holders, NoStop, IsRequested, VotesInv
  <2>4. QED BY <1>0, <1>00, <1>4, <2>2, <2>3, VotesKept
<1>10. VotesOf(id)'
  <2>1. Awaited(id)' = Replica
    <3>1. ASSUME NEW r \in Replica PROVE \E x \in net' : Voting(x) /\ x.id = id /\ From(x) = r
      BY <1>5, <1>6
    <3>2. QED BY <3>1 DEF Awaited, Voting, From
  <2>2. id \notin DOMAIN votes' /\ Counted(id)' = 0
    BY <1>0, <1>3, <1>4 DEF StoreTypes, Counted
  <2>3. ~ IsRequested(id)'
    BY <1>3, <1>4 DEF IsRequested, Numbered
  <2>4. Holders(id)' \ Awaited(id)' = {} /\ Cardinality({}) = 0
    BY <1>00, <2>1, FS_EmptySet, Machines DEF Holders, StoreTypes
  <2>5. Counted(id)' <= Cardinality(Holders(id)' \ Awaited(id)')
    BY <2>2, <2>4
  <2>6. QED BY <2>1, <2>2, <2>3, <2>5 DEF VotesOf
<1>11. QED BY <1>3, <1>8, <1>9, <1>10 DEF VotesInv

LEMMA VotesAfterBatch ==
  ASSUME Types, IdsCounted, VotesInv, [Next]_vars, Batches
  PROVE  VotesInv'
<1>0. BlockTypes /\ NetTypes /\ StoreTypes /\ OneVoteEach /\ StoreTypes'
  BY StoreInv DEF Types, VotesInv
<1>1. PICK msg \in net : HandleBatch(msg)
  BY DEF Batches
<1>2. PICK v : v = Vote(msg.to, msg.id, Len(block[msg.id]))
  OBVIOUS
<1>3. /\ msg.id \in DOMAIN block /\ msg.to \in Machine /\ msg.type = "BATCH"
      /\ Voting(msg) /\ From(msg) = ReplicaOf[msg.to]
      /\ \A x \in net : x # msg => x \in net'
      /\ v \in net' /\ block' = block /\ stored' = [stored EXCEPT ![msg.to] = @ \cup {msg.id}]
  BY <1>0, <1>1, <1>2, BatchFacts
<1>4. \A x \in net' : \/ x \in net /\ x # msg
                      \/ x = v
                      \/ \E m \in Reader : x = Subbatch(m, msg.id, Part(msg.id, m, ReplicaOf[m]))
  BY <1>0, <1>1, <1>2, BatchFacts
<1>5. v.id = msg.id /\ v.type = "VOTE" /\ Voting(v) /\ From(v) = From(msg) /\ v.from = msg.to
  BY <1>2, <1>3, Messages
<1>6. \A x \in net' : Voting(x) => (x \in net /\ x # msg) \/ x = v
  BY <1>4, Messages
<1>7. UNCHANGED <<status, votes, requested>>
  BY <1>1 DEF HandleBatch, metalogVars
<1>8. /\ \A n \in Machine : stored[n] \subseteq stored'[n]
      /\ msg.id \in stored'[msg.to]
  BY <1>0, <1>3 DEF StoreTypes
<1>9. OneVoteEach'
  <2>1. ASSUME NEW x \in net', NEW y \in net', Voting(x), Voting(y), x.id = y.id, From(x) = From(y)
        PROVE  x = y
    <3>1. ((x \in net /\ x # msg) \/ x = v) /\ ((y \in net /\ y # msg) \/ y = v)
      BY <1>6, <2>1
    <3>2. \A z \in net : Voting(z) /\ z.id = msg.id /\ From(z) = From(msg) => z = msg
      BY <1>0, <1>3 DEF OneVoteEach
    <3>3. QED BY <1>0, <1>5, <2>1, <3>1, <3>2 DEF OneVoteEach
  <2>2. ASSUME NEW x \in net', x.type = "VOTE" PROVE x.id \in stored'[x.from]
    <3>1. Voting(x)
      BY <2>2 DEF Voting
    <3>2. CASE x = v
      BY <1>5, <1>8, <3>2
    <3>3. CASE x \in net
      <4>1. x.id \in stored[x.from] /\ x.from \in Machine
        BY <1>0, <2>2, <3>3 DEF OneVoteEach, NetTypes, IsMessage
      <4>2. QED BY <1>8, <4>1
    <3>4. QED BY <1>6, <3>1, <3>2, <3>3
  <2>3. QED BY <2>1, <2>2 DEF OneVoteEach, Voting, From
<1>10. ASSUME NEW d \in DOMAIN block PROVE VotesOf(d)'
  <2>1. Awaited(d)' = Awaited(d)
    <3>1. ASSUME NEW r
          PROVE  (\E x \in net' : Voting(x) /\ x.id = d /\ From(x) = r)
                   <=> (\E x \in net : Voting(x) /\ x.id = d /\ From(x) = r)
      BY <1>3, <1>5, <1>6
    <3>2. QED BY <3>1 DEF Awaited, Voting, From
  <2>2. Holders(d) \subseteq Holders(d)'
    BY <1>8 DEF Holders
  <2>3. /\ Counted(d)' = Counted(d) /\ (NoStop' <=> NoStop)
        /\ (IsRequested(d)' <=> IsRequested(d)) /\ VotesOf(d)
    BY <1>7 DEF Counted, NoStop, IsRequested, VotesInv
  <2>4. QED BY <1>0, <1>7, <2>1, <2>2, <2>3, VotesKept
<1>11. QED BY <1>3, <1>9, <1>10 DEF VotesInv

LEMMA FewerMessages ==
  ASSUME OneVoteEach, net' \subseteq net, stored' = stored
  PROVE  OneVoteEach' /\ \A d : Awaited(d)' \subseteq Awaited(d)
BY DEF OneVoteEach, Voting, From, Awaited

LEMMA VotesAfterReceive ==
  ASSUME Types, IdsCounted, VotesInv, [Next]_vars, Receives \/ Drops
  PROVE  VotesInv'
<1>0. NetTypes /\ StoreTypes /\ OneVoteEach /\ StoreTypes'
  BY StoreInv DEF Types, VotesInv
<1>1. PICK msg \in net : HandleSubbatch(msg) \/ Drop(msg)
  BY DEF Receives, Drops
<1>2. net' = net \ {msg} /\ UNCHANGED <<status, block, stored, votes, requested>>
  BY <1>1 DEF HandleSubbatch, Drop, clientVars, metalogVars
<1>3. OneVoteEach' /\ \A d : Awaited(d)' \subseteq Awaited(d)
  BY <1>0, <1>2, FewerMessages
<1>4. ASSUME NEW d \in DOMAIN block PROVE VotesOf(d)'
  <2>1. /\ Counted(d)' = Counted(d) /\ Holders(d)' = Holders(d) /\ (NoStop' <=> NoStop)
        /\ (IsRequested(d)' <=> IsRequested(d)) /\ VotesOf(d)
    BY <1>2 DEF Counted, Holders, NoStop, IsRequested, VotesInv
  <2>2. Awaited(d)' = Awaited(d) \/ ~ NoStop'
    <3>1. CASE HandleSubbatch(msg)
      <4>1. ~ Voting(msg)
        BY <3>1 DEF HandleSubbatch, Handling, Voting
      <4>2. QED BY <1>2, <4>1 DEF Awaited, Voting, From
    <3>2. CASE Drop(msg)
      <4>1. msg.to \in Machine /\ status[msg.to] = "stopped"
        BY <1>0, <3>2 DEF Drop, NetTypes, IsMessage
      <4>2. QED BY <1>2, <4>1 DEF NoStop
    <3>3. QED BY <1>1, <3>1, <3>2
  <2>3. QED BY <1>0, <1>2, <1>3, <2>1, <2>2, VotesKept
<1>5. QED BY <1>2, <1>3, <1>4 DEF VotesInv

LEMMA VotesAfterStop ==
  ASSUME Types, IdsCounted, VotesInv, [Next]_vars,
         net' = net \/ Stops, UNCHANGED <<block, stored, votes, requested>>
  PROVE  VotesInv'
<1>0. StoreTypes /\ OneVoteEach /\ StoreTypes' /\ AppTypes
  BY StoreInv DEF Types, VotesInv
<1>1. NoStop' => NoStop
  <2>1. CASE status' = status
    BY <2>1 DEF NoStop
  <2>2. CASE \E m \in Machine : Start(m) \/ Stop(m)
    <3>1. PICK m \in Machine : Start(m) \/ Stop(m)
      BY <2>2
    <3>2. CASE Start(m)
      <4>1. status[m] = "starting" /\ \A n \in Machine : n # m => status'[n] = status[n]
        BY <1>0, <3>2 DEF Start, AppTypes
      <4>2. QED BY <4>1 DEF NoStop
    <3>3. CASE Stop(m)
      <4>1. status'[m] = "stopped"
        BY <1>0, <3>3 DEF Stop, AppTypes
      <4>2. QED BY <4>1 DEF NoStop
    <3>4. QED BY <3>1, <3>2, <3>3
  <2>3. QED BY <2>1, <2>2, Changes
<1>2. net' \subseteq net /\ (net' = net \/ ~ NoStop')
  <2>1. CASE Stops
    <3>1. PICK m \in Machine : Stop(m)
      BY <2>1 DEF Stops
    <3>2. net' \subseteq net /\ status'[m] = "stopped"
      BY <1>0, <3>1 DEF Stop, AppTypes
    <3>3. QED BY <3>2 DEF NoStop
  <2>2. QED BY <2>1
<1>3. OneVoteEach' /\ \A d : Awaited(d)' \subseteq Awaited(d)
  BY <1>0, <1>2, FewerMessages
<1>4. ASSUME NEW d \in DOMAIN block PROVE VotesOf(d)'
  <2>1. /\ Counted(d)' = Counted(d) /\ Holders(d)' = Holders(d)
        /\ (IsRequested(d)' <=> IsRequested(d)) /\ VotesOf(d)
    BY DEF Counted, Holders, IsRequested, VotesInv
  <2>2. Awaited(d)' = Awaited(d) \/ ~ NoStop'
    BY <1>2 DEF Awaited, Voting, From
  <2>3. QED BY <1>0, <1>1, <1>3, <2>1, <2>2, VotesKept
<1>5. QED BY <1>3, <1>4 DEF VotesInv

LEMMA VotesAfterCount ==
  ASSUME Types, IdsCounted, VotesInv, Numbered, [Next]_vars, Counts
  PROVE  VotesInv'
<1>0. BlockTypes /\ NetTypes /\ StoreTypes /\ LogTypes /\ OneVoteEach /\ StoreTypes'
  BY StoreInv DEF Types, VotesInv
<1>1. PICK msg \in net : HandleVote(msg)
  BY DEF Counts
<1>2. PICK id, r, N : id = msg.id /\ r = From(msg) /\ N = Cardinality(Replica)
  OBVIOUS
<1>3. net' = net \ {msg} /\ UNCHANGED <<status, block, stored>>
  BY <1>1 DEF HandleVote, clientVars
<1>4. /\ id \in DOMAIN block /\ Voting(msg) /\ r \in Awaited(id) /\ id \in stored[msg.from]
      /\ r = ReplicaOf[msg.from] /\ msg.from \in Machine
      /\ VotesOf(id) /\ Counted(id) \in Nat /\ Votes(id) = Counted(id) + 1
      /\ N \in Nat \ {0}
  BY <1>0, <1>1, <1>2, CountFacts, Machines
<1>5. /\ Votes(id) # MajorityVote => UNCHANGED <<requested, versions>>
      /\ Votes(id) = MajorityVote =>
           /\ requested' = Append(requested, [id |-> id, count |-> msg.count])
           /\ ~ IsRequested(id)
  BY <1>0, <1>1, <1>2, CountFacts
<1>6. OneVoteEach'
  BY <1>0, <1>3, FewerMessages
<1>7. \A d : d # id => (IsRequested(d)' <=> IsRequested(d))
  <2>1. CASE Votes(id) # MajorityVote
    BY <1>5, <2>1 DEF IsRequested
  <2>2. CASE Votes(id) = MajorityVote
    <3>1. /\ requested' = Append(requested, [id |-> id, count |-> msg.count])
          /\ requested \in Seq(Pair)
      BY <1>0, <1>5, <2>2 DEF LogTypes
    <3>2. [id |-> id, count |-> msg.count] \in Pair
      <4>1. msg.count = Len(block[id]) /\ block[id] \in Seq(Action) /\ id \in BlockId
        BY <1>0, <1>1, <1>2, <1>4, CountFacts DEF BlockTypes
      <4>2. QED BY <4>1 DEF Pair
    <3>3. /\ DOMAIN requested' = 1 .. (Len(requested) + 1) /\ DOMAIN requested = 1 .. Len(requested)
          /\ Len(requested) \in Nat
          /\ requested'[Len(requested) + 1] = [id |-> id, count |-> msg.count]
          /\ \A i \in 1 .. Len(requested) : requested'[i] = requested[i]
      BY <3>1, <3>2, AppendFacts
    <3>4. requested'[Len(requested) + 1].id = id
      BY <3>3
    <3>5. \A i \in DOMAIN requested' : i \in DOMAIN requested \/ i = Len(requested) + 1
      BY <3>3
    <3>6. \A i \in DOMAIN requested : i \in DOMAIN requested' /\ requested'[i] = requested[i]
      BY <3>3
    <3>7. QED BY <3>4, <3>5, <3>6 DEF IsRequested
  <2>3. QED BY <2>1, <2>2
<1>8. CountVote(id)
  BY <1>1, <1>2 DEF HandleVote
<1>9. ASSUME NEW d \in DOMAIN block, d # id PROVE VotesOf(d)'
  <2>1. (d \in DOMAIN votes' <=> d \in DOMAIN votes) /\ (d \in DOMAIN votes => votes'[d] = votes[d])
    BY <1>8, <1>9 DEF CountVote, Put
  <2>2. Counted(d)' = Counted(d)
    BY <2>1 DEF Counted
  <2>3. Awaited(d)' = Awaited(d) /\ Holders(d)' = Holders(d) /\ (NoStop' <=> NoStop) /\ VotesOf(d)
    BY <1>2, <1>3, <1>9 DEF Awaited, Voting, From, Holders, NoStop, VotesInv
  <2>4. QED BY <1>0, <1>7, <1>9, <2>1, <2>2, <2>3, VotesKept
<1>10. VotesOf(id)'
  <2>1. PICK H, A : H = Holders(id) /\ A = Awaited(id)
    OBVIOUS
  <2>2. Awaited(id)' = A \ {r} /\ Holders(id)' = H /\ (NoStop' <=> NoStop)
    <3>1. \A x \in net : Voting(x) /\ x.id = id /\ From(x) = r => x = msg
      BY <1>0, <1>2, <1>4 DEF OneVoteEach
    <3>2. ASSUME NEW q PROVE (\E x \in net' : Voting(x) /\ x.id = id /\ From(x) = q)
                               <=> q # r /\ (\E x \in net : Voting(x) /\ x.id = id /\ From(x) = q)
      BY <1>2, <1>3, <3>1
    <3>3. Awaited(id)' = A \ {r}
      BY <2>1, <3>2 DEF Awaited, Voting, From
    <3>4. QED BY <1>3, <2>1, <3>3 DEF Holders, NoStop
  <2>3. H \in SUBSET Replica /\ A \in SUBSET Replica
    BY <1>0, <2>1, VotingReplicas
  <2>4. r \in H
    BY <1>4, <2>1 DEF Holders
  <2>5. H \ (A \ {r}) = (H \ A) \cup {r} /\ r \notin H \ A
    BY <1>4, <2>1, <2>4
  <2>6. Cardinality(H \ (A \ {r})) = Cardinality(H \ A) + 1 /\ Cardinality(A \ {r}) = Cardinality(A) - 1
        /\ Cardinality(H \ A) \in Nat /\ Cardinality(A) \in Nat \ {0} /\ Cardinality(H) \in Nat
        /\ Cardinality(H \ (A \ {r})) <= Cardinality(H) /\ Cardinality(H) <= N
    <3>1. IsFiniteSet(H \ A) /\ IsFiniteSet(A) /\ Cardinality(H) \in Nat /\ Cardinality(H) <= N
          /\ Cardinality(A) \in Nat /\ Cardinality(H \ A) \in Nat
      BY <1>2, <2>3, HoldersFacts
    <3>2. Cardinality(H \ (A \ {r})) = Cardinality(H \ A) + 1
      <4>1. Cardinality((H \ A) \cup {r}) = Cardinality(H \ A) + 1
        <5> DEFINE D == H \ A
        <5>1. IsFiniteSet(D) /\ r \notin D
          BY <2>5, <3>1
        <5> HIDE DEF D
        <5>2. Cardinality(D \cup {r}) = Cardinality(D) + 1
          BY <5>1, FS_AddElement
        <5>3. QED BY <5>2 DEF D
      <4>2. QED BY <2>5, <4>1
    <3>3. Cardinality(A \ {r}) = Cardinality(A) - 1
      <4>1. r \in A /\ IsFiniteSet(A)
        BY <1>4, <2>1, <3>1
      <4>2. QED BY ONLY <4>1, FS_RemoveElement
    <3>4. A # {}
      BY <1>4, <2>1
    <3>5. Cardinality(A) # 0
      BY <3>1, <3>4, FS_EmptySet
    <3>6. A \ {r} \in SUBSET Replica
      BY <2>3
    <3>7. Cardinality(H \ (A \ {r})) <= Cardinality(H)
      BY <2>3, <3>6, HoldersFacts
    <3>8. QED BY <3>1, <3>2, <3>3, <3>5, <3>7
  <2>7. Counted(id) <= Cardinality(H \ A)
    BY <1>4, <2>1 DEF VotesOf
  <2>8. Votes(id) \in Nat /\ Votes(id) <= Cardinality(H \ (A \ {r})) /\ Votes(id) <= N
    BY <1>4, <2>6, <2>7
  <2>9. /\ Votes(id) = N => id \notin DOMAIN votes'
        /\ Votes(id) # N => id \in DOMAIN votes' /\ votes'[id] = Votes(id)
    BY <1>2, <1>8 DEF CountVote, Put
  <2>10. Votes(id) = N => A \ {r} = {}
    <3>1. ASSUME Votes(id) = N PROVE A \ {r} = {}
      <4>1. H \ (A \ {r}) \in SUBSET Replica /\ A \ {r} \in SUBSET Replica
        BY <2>3
      <4>2. Cardinality(H \ (A \ {r})) = N
        <5>1. PICK c : c = Cardinality(H \ (A \ {r}))
          OBVIOUS
        <5>2. c \in Nat /\ c <= N /\ Votes(id) <= c
          <6>1. c = Cardinality(H \ A) + 1 /\ Cardinality(H \ A) \in Nat /\ c <= Cardinality(H)
                /\ Cardinality(H) \in Nat /\ Cardinality(H) <= N
            BY <2>6, <5>1
          <6>2. QED BY <1>4, <2>8, <5>1, <6>1
        <5>3. QED BY <1>4, <3>1, <5>1, <5>2
      <4>3. H \ (A \ {r}) = Replica
        BY <1>2, <4>1, <4>2, HoldersFacts
      <4>4. QED BY <4>1, <4>3
    <3>2. QED BY <3>1
  <2>11. Counted(id)' <= Cardinality(H \ (A \ {r}))
    <3>1. CASE Votes(id) = N
      <4>1. Counted(id)' = 0
        BY <2>9, <3>1 DEF Counted
      <4>2. QED BY <2>6, <4>1
    <3>2. CASE Votes(id) # N
      BY <2>8, <2>9, <3>2 DEF Counted
    <3>3. QED BY <3>1, <3>2
  <2>12. ASSUME NoStop, id \in DOMAIN votes' PROVE votes'[id] + Cardinality(A \ {r}) = N
    <3>1. Counted(id) + Cardinality(A) = N
      <4>1. CASE id \in DOMAIN votes
        BY <1>2, <1>4, <2>1, <2>12, <4>1 DEF VotesOf, Counted
      <4>2. CASE id \notin DOMAIN votes
        <5>1. A = Replica
          BY <1>4, <2>1, <2>12, <4>2 DEF VotesOf
        <5>2. QED BY <1>2, <1>4, <4>2, <5>1 DEF Counted
      <4>3. QED BY <4>1, <4>2
    <3>2. votes'[id] = Counted(id) + 1
      BY <1>4, <2>9, <2>12
    <3>3. QED BY <1>4, <2>6, <3>1, <3>2
  <2>13. id \notin DOMAIN votes' => A \ {r} = {}
    BY <2>9, <2>10
  <2>14. ASSUME IsRequested(id)'
         PROVE  2 * Cardinality(H) > N /\ (id \in DOMAIN votes' => votes'[id] >= MajorityVote)
    <3>1. MajorityVote \in Nat /\ 2 * MajorityVote > N
      BY <1>2, Majorities
    <3>2. Votes(id) >= MajorityVote
      <4>1. CASE Votes(id) # MajorityVote
        <5>1. IsRequested(id)
          BY <1>5, <2>14, <4>1 DEF IsRequested
        <5>2. id \in DOMAIN votes /\ votes[id] >= MajorityVote
          BY <1>4, <5>1 DEF VotesOf
        <5>3. QED BY <1>4, <3>1, <5>2 DEF Counted
      <4>2. CASE Votes(id) = MajorityVote
        BY <3>1, <4>2
      <4>3. QED BY <4>1, <4>2
    <3>3. Votes(id) <= Cardinality(H)
      <4>1. Cardinality(H \ (A \ {r})) \in Nat
        BY <2>6
      <4>2. QED BY <2>6, <2>8, <4>1
    <3>4. 2 * Cardinality(H) > N
      BY <1>4, <2>6, <2>8, <3>1, <3>2, <3>3
    <3>5. QED BY <2>9, <3>2, <3>4
  <2>15. MajorityVote' = MajorityVote
    BY DEF MajorityVote
  <2>16. QED
    BY <1>2, <2>2, <2>11, <2>12, <2>13, <2>14, <2>15 DEF VotesOf
<1>11. QED BY <1>3, <1>6, <1>9, <1>10 DEF VotesInv

LEMMA VotesStep ==
  ASSUME Types, IdsCounted, VotesInv, Numbered, [Next]_vars
  PROVE  VotesInv'
<1>1. CASE Cuts
  BY <1>1, VotesAfterCut
<1>2. CASE Batches
  BY <1>2, VotesAfterBatch
<1>3. CASE Counts
  BY <1>3, VotesAfterCount
<1>4. CASE Receives \/ Drops
  BY <1>4, VotesAfterReceive
<1>5. CASE ~ (Cuts \/ Batches \/ Counts \/ Receives \/ Drops)
  <2>1. (net' = net \/ Stops) /\ UNCHANGED <<block, stored, votes, requested>>
    BY <1>5, Changes
  <2>2. QED BY <2>1, VotesAfterStop
<1>6. QED BY <1>1, <1>2, <1>3, <1>4, <1>5

----------------------------------------------------------------------------
(***************************************************************************)
(* The readers of the metalog.                                             *)
(***************************************************************************)
\* How far a reader is.
LEMMA TakenFacts ==
  ASSUME Types, LogInv, NEW m \in Reader, ReadingOf(m)
  PROVE  /\ Taken(m) \in 0 .. Sequenced /\ Sequenced \in 0 .. Len(requested) /\ Len(requested) \in Nat
         /\ DOMAIN requested = 1 .. Len(requested)
         /\ source[m].entries \in 0 .. Len(chosen) /\ Len(chosen) \in Nat
         /\ DOMAIN chosen = 1 .. Len(chosen)
         /\ source[m].next \in Nat /\ learned[ReplicaOf[m]] \in 0 .. Len(chosen)
<1>0. BlockTypes /\ LogTypes /\ ReaderTypes
  BY DEF Types
<1>1. /\ Sequenced \in 0 .. Len(requested) /\ Len(requested) \in Nat
      /\ DOMAIN requested = 1 .. Len(requested) /\ \A n \in DOMAIN chosen : Ends(n) <= Sequenced
  BY <1>0, SequencedFacts, VersionsIncrease DEF LogInv
<1>2. Len(chosen) \in Nat /\ DOMAIN chosen = 1 .. Len(chosen)
  BY <1>0 DEF LogTypes
<1>3. learned[ReplicaOf[m]] \in 0 .. Len(chosen)
  BY <1>0, Machines DEF LogTypes
<1>4. source[m].entries \in Nat /\ source[m].next \in Nat
  BY <1>0 DEF ReaderTypes
<1>5. source[m].entries \in 0 .. Len(chosen)
  BY <1>2, <1>3, <1>4 DEF ReadingOf
<1>6. Taken(m) \in 0 .. Sequenced
  <2> DEFINE e == source[m].entries  k == source[m].next
  <2>1. CASE k # 0
    <3>1. e \in DOMAIN chosen /\ k \in 2 .. Len(chosen[e].pairs)
      BY <1>2, <1>5, <2>1 DEF ReadingOf
    <3> HIDE DEF e, k
    <3>2. /\ Begins(e) \in 1 .. Len(requested) /\ Ends(e) \in Begins(e) .. Len(requested)
          /\ Len(chosen[e].pairs) = Ends(e) - Begins(e) + 1
      BY <1>0, <3>1, EntryFacts
    <3>3. /\ Begins(e) + k - 2 >= 0 /\ Begins(e) + k - 2 <= Ends(e)
          /\ Begins(e) + k - 2 \in Int /\ Ends(e) <= Sequenced
      BY <1>1, <3>1, <3>2
    <3>4. Taken(m) = Begins(e) + k - 2
      BY <2>1 DEF Taken, e, k
    <3>5. Begins(e) + k - 2 \in 0 .. Sequenced
      BY <1>1, <3>2, <3>3
    <3>6. QED BY <3>4, <3>5
  <2>2. CASE k = 0 /\ e = 0
    BY <1>1, <2>2 DEF Taken
  <2>3. CASE k = 0 /\ e # 0
    <3>1. e \in DOMAIN chosen
      BY <1>2, <1>5, <2>3
    <3>2. Taken(m) = Ends(e)
      BY <2>3 DEF Taken
    <3> HIDE DEF e
    <3>3. /\ Begins(e) \in 1 .. Len(requested)
          /\ Ends(e) \in Begins(e) .. Len(requested) /\ Ends(e) <= Sequenced
      BY <1>0, <1>1, <3>1, EntryFacts
    <3>4. QED BY <1>1, <3>2, <3>3
  <2>4. QED BY <2>1, <2>2, <2>3
<1>7. QED BY <1>1, <1>2, <1>3, <1>4, <1>5, <1>6

\* It stays there unless it takes the next block.
LEMMA TakenStays ==
  ASSUME Types, IdsCounted, VotesInv, LogInv, [Next]_vars, NEW m \in Reader, ReadingOf(m),
         source'[m] = source[m]
  PROVE  Taken(m)' = Taken(m)
<1>1. /\ source[m].entries \in 0 .. Len(chosen) /\ DOMAIN chosen = 1 .. Len(chosen)
      /\ Len(chosen) \in Nat
  BY TakenFacts
<1>2. PICK e : e = source[m].entries
  OBVIOUS
<1>3. CASE e \in DOMAIN chosen
  <2>1. Begins(e)' = Begins(e) /\ Ends(e)' = Ends(e)
    BY <1>3, EntriesStay
  <2>2. QED BY <1>2, <2>1 DEF Taken
<1>4. CASE e \notin DOMAIN chosen
  <2>1. e = 0
    BY <1>1, <1>2, <1>4
  <2>2. source[m].next = 0
    BY <1>2, <2>1, TakenFacts DEF ReadingOf
  <2>3. QED BY <1>2, <2>1, <2>2 DEF Taken
<1>5. QED BY <1>3, <1>4

LEMMA IdleFacts ==
  /\ \A x \in BlockId : x # NoBlock
  /\ Idle.id = NoBlock /\ Idle \in [id : BlockId \cup {NoBlock}, version : Nat]
BY DEF Idle, BlockId, NoBlock

LEMMA NextBlockFacts ==
  ASSUME Types, LogInv, Reading, NEW m \in Reader, NextBlock(m)
  PROVE  LET t == Taken(m) IN
         /\ current[m] = Idle
         /\ t \in Nat /\ t + 1 \in DOMAIN requested
         /\ current'[m] \in [id : BlockId \cup {NoBlock}, version : Nat]
         /\ current'[m].id = requested[t + 1].id /\ current'[m] # Idle
         /\ \A n \in Reader \ {m} : current'[n] = current[n] /\ source'[n] = source[n]
         /\ current' = [current EXCEPT ![m] = current'[m]]
         /\ source' = [source EXCEPT ![m] = source'[m]]
         /\ source'[m] \in [entries : Nat, next : Nat, offset : Int]
         /\ \E e \in DOMAIN chosen, k \in Nat :
              /\ source'[m].entries = e /\ source'[m].next = k
              /\ e <= learned[ReplicaOf[m]]
              /\ k # 0 => k \in 2 .. Len(chosen[e].pairs)
              /\ t + 1 = IF k # 0 THEN Begins(e) + k - 2 ELSE Ends(e)
         /\ source'[m].next # 0 => t + 2 \in DOMAIN requested
         /\ \E o \in Int : /\ o = IF source[m].next = 0 THEN AsInt(versions[t + 1]) ELSE source[m].offset
                           /\ current'[m].version = AsUint(o)
                           /\ source'[m].offset = AsInt(o + requested[t + 1].count)
<1>0. BlockTypes /\ LogTypes /\ ReaderTypes /\ ReadingOf(m)
  BY DEF Types, Reading
<1>1. PICK number, index, offset, t :
        /\ number = source[m].entries + (IF source[m].next = 0 THEN 1 ELSE 0)
        /\ index = (IF source[m].next = 0 THEN 1 ELSE source[m].next)
        /\ offset = (IF source[m].next = 0 THEN AsInt(chosen[number].version) ELSE source[m].offset)
        /\ t = Taken(m)
  OBVIOUS
<1>2. PICK pair : pair = chosen[number].pairs[index]
  OBVIOUS
<1>3. /\ current[m] = Idle /\ number <= learned[ReplicaOf[m]]
      /\ current' = [current EXCEPT ![m] = [id |-> pair.id, version |-> AsUint(offset)]]
      /\ source' = [source EXCEPT ![m] =
           [entries |-> number,
            next |-> IF index = Len(chosen[number].pairs) THEN 0 ELSE index + 1,
            offset |-> AsInt(offset + pair.count)]]
  BY <1>1, <1>2 DEF NextBlock
<1>4. /\ t \in 0 .. Sequenced /\ Sequenced \in 0 .. Len(requested) /\ Len(requested) \in Nat
      /\ DOMAIN requested = 1 .. Len(requested)
      /\ source[m].entries \in 0 .. Len(chosen) /\ Len(chosen) \in Nat
      /\ DOMAIN chosen = 1 .. Len(chosen)
      /\ source[m].next \in Nat /\ learned[ReplicaOf[m]] \in 0 .. Len(chosen)
  BY <1>0, <1>1, TakenFacts
<1>5. number \in DOMAIN chosen
  <2>1. CASE source[m].next = 0
    BY <1>1, <1>3, <1>4, <2>1
  <2>2. CASE source[m].next # 0
    <3>1. source[m].entries > 0 /\ number = source[m].entries
      BY <1>0, <1>1, <1>4, <2>2 DEF ReadingOf
    <3>2. QED BY <1>4, <3>1
  <2>3. QED BY <2>1, <2>2
<1>6. PICK b, e, l : b = Begins(number) /\ e = Ends(number) /\ l = Len(chosen[number].pairs)
  OBVIOUS
<1>7. /\ b \in 1 .. Len(requested) /\ e \in b .. Len(requested) /\ l = e - b + 1 /\ l \in Nat
      /\ DOMAIN chosen[number].pairs = 1 .. l /\ chosen[number].version \in Nat
  BY <1>0, <1>5, <1>6, EntryFacts
<1>8. index \in 1 .. l /\ t + 1 = b + index - 1
  <2>1. CASE source[m].next = 0 /\ source[m].entries = 0
    <3>1. number = 1 /\ index = 1 /\ t = 0
      BY <1>1, <2>1 DEF Taken
    <3>2. b = 1
      BY <1>5, <1>6, <3>1 DEF LogInv, EntriesInv
    <3>3. QED BY <1>7, <3>1, <3>2
  <2>2. CASE source[m].next = 0 /\ source[m].entries # 0
    <3>1. number = source[m].entries + 1 /\ index = 1 /\ t = Ends(source[m].entries) /\ number > 1
          /\ source[m].entries \in Nat /\ number - 1 = source[m].entries
      BY <1>1, <1>4, <2>2 DEF Taken
    <3>2. b = Ends(number - 1) + 1
      BY <1>5, <1>6, <3>1 DEF LogInv, EntriesInv
    <3>3. t \in Int /\ b = t + 1
      BY <1>4, <3>1, <3>2
    <3>4. QED BY <1>7, <3>1, <3>3
  <2>3. CASE source[m].next # 0
    <3>1. /\ number = source[m].entries /\ index = source[m].next /\ index \in 2 .. l
      BY <1>0, <1>1, <1>4, <1>6, <2>3 DEF ReadingOf
    <3>2. t = b + index - 2
      BY <1>1, <1>6, <2>3, <3>1 DEF Taken
    <3>3. b \in Int /\ l \in Nat /\ index \in 2 .. l
      BY <1>7, <3>1
    <3>4. QED BY <3>2, <3>3
  <2>4. QED BY <2>1, <2>2, <2>3
<1>9. t + 1 \in DOMAIN requested /\ pair = requested[t + 1] /\ t \in Nat
  <2>1. pair = requested[b + index - 1]
    <3>1. index \in DOMAIN chosen[number].pairs
      BY <1>7, <1>8
    <3>2. chosen[number].pairs[index] = requested[Begins(number) + index - 1]
      BY <1>5, <3>1 DEF LogInv, EntriesInv
    <3>3. QED BY <1>2, <1>6, <3>2
  <2>2. t \in Nat /\ t + 1 = b + index - 1 /\ t + 1 \in 1 .. Len(requested)
    BY <1>4, <1>7, <1>8
  <2>3. QED BY <1>4, <2>1, <2>2
<1>10. pair.id \in BlockId /\ pair.count \in Nat
  BY <1>0, <1>9, VersionsIncrease DEF LogInv
<1>11. offset \in Int
  <2>1. CASE source[m].next = 0
    <3>1. offset = AsInt(chosen[number].version) /\ chosen[number].version \in Int
      BY <1>1, <1>7, <2>1
    <3>2. QED BY <3>1, ConversionTypes
  <2>2. CASE source[m].next # 0
    BY <1>0, <1>1, <2>2 DEF ReaderTypes
  <2>3. QED BY <2>1, <2>2
<1>12. AsUint(offset) \in Nat /\ AsInt(offset + pair.count) \in Int
  <2>1. offset + pair.count \in Int
    BY <1>10, <1>11
  <2>2. QED BY <1>11, <2>1, ConversionTypes
<1>13. /\ current'[m] = [id |-> pair.id, version |-> AsUint(offset)]
       /\ source'[m] = [entries |-> number, next |-> IF index = l THEN 0 ELSE index + 1,
                        offset |-> AsInt(offset + pair.count)]
       /\ \A n \in Reader \ {m} : current'[n] = current[n] /\ source'[n] = source[n]
  BY <1>0, <1>3, <1>6 DEF ReaderTypes
<1>14. /\ current'[m] \in [id : BlockId \cup {NoBlock}, version : Nat] /\ current'[m].id = pair.id
  BY <1>10, <1>12, <1>13
<1>15. current'[m] # Idle
  BY <1>10, <1>14, IdleFacts
<1>16. source'[m] \in [entries : Nat, next : Nat, offset : Int]
       /\ source'[m].entries = number /\ source'[m].next = IF index = l THEN 0 ELSE index + 1
  <2>1. number \in Nat /\ index + 1 \in Nat
    <3>1. number \in 1 .. Len(chosen) /\ Len(chosen) \in Nat
      BY <1>4, <1>5
    <3>2. index \in 1 .. l /\ l \in Nat
      BY <1>7, <1>8
    <3>3. QED BY <3>1, <3>2
  <2>2. (IF index = l THEN 0 ELSE index + 1) \in Nat
    BY <2>1
  <2>3. QED BY <1>12, <1>13, <2>1, <2>2
<1>17. PICK k \in Nat : /\ source'[m].next = k
                        /\ k # 0 => k \in 2 .. l
                        /\ t + 1 = IF k # 0 THEN b + k - 2 ELSE e
  <2>1. CASE index = l
    <3>1. source'[m].next = 0 /\ t + 1 = e
      BY <1>7, <1>8, <1>16, <2>1
    <3>2. QED BY <3>1
  <2>2. CASE index # l
    <3>1. source'[m].next = index + 1 /\ index + 1 \in 2 .. l /\ index + 1 # 0 /\ index + 1 \in Nat
      BY <1>7, <1>8, <1>16, <2>2
    <3>2. t + 1 = b + (index + 1) - 2
      BY <1>7, <1>8
    <3>3. QED BY <3>1, <3>2
  <2>3. QED BY <2>1, <2>2
<1>18. current' = [current EXCEPT ![m] = current'[m]] /\ source' = [source EXCEPT ![m] = source'[m]]
  <2>1. \A f, x : f = [current EXCEPT ![m] = x] => f = [current EXCEPT ![m] = f[m]]
    BY <1>0 DEF ReaderTypes
  <2>2. \A f, x : f = [source EXCEPT ![m] = x] => f = [source EXCEPT ![m] = f[m]]
    BY <1>0 DEF ReaderTypes
  <2>3. QED BY <1>3, <2>1, <2>2
<1>19. /\ source'[m].entries = number /\ number <= learned[ReplicaOf[m]]
       /\ k # 0 => k \in 2 .. Len(chosen[number].pairs)
       /\ t + 1 = IF k # 0 THEN Begins(number) + k - 2 ELSE Ends(number)
  BY <1>3, <1>6, <1>16, <1>17
<1>20. source'[m].next # 0 => t + 2 \in DOMAIN requested
  <2>1. SUFFICES ASSUME k # 0 PROVE t + 2 \in 1 .. Len(requested)
    BY <1>4, <1>17
  <2>2. k \in 2 .. l /\ t + 1 = b + k - 2
    BY <1>17, <2>1
  <2>3. /\ t \in Nat /\ b \in 1 .. Len(requested) /\ e \in b .. Len(requested)
        /\ l = e - b + 1 /\ Len(requested) \in Nat
    BY <1>4, <1>7
  <2>4. QED BY <2>2, <2>3
<1>21. offset = (IF source[m].next = 0 THEN AsInt(versions[t + 1]) ELSE source[m].offset)
  <2>1. source[m].next = 0 => t + 1 = b
    BY <1>1, <1>7, <1>8
  <2>2. versions[b] = chosen[number].version
    BY <1>5, <1>6 DEF LogInv, EntriesInv
  <2>3. QED BY <1>1, <2>1, <2>2
<1>22. /\ current'[m].version = AsUint(offset)
       /\ source'[m].offset = AsInt(offset + requested[t + 1].count)
  BY <1>9, <1>13
<1>23. \E o \in Int : /\ o = IF source[m].next = 0 THEN AsInt(versions[t + 1]) ELSE source[m].offset
                      /\ current'[m].version = AsUint(o)
                      /\ source'[m].offset = AsInt(o + requested[t + 1].count)
  BY <1>11, <1>21, <1>22
<1>24. \E d \in DOMAIN chosen, i \in Nat :
         /\ source'[m].entries = d /\ source'[m].next = i
         /\ d <= learned[ReplicaOf[m]]
         /\ i # 0 => i \in 2 .. Len(chosen[d].pairs)
         /\ t + 1 = IF i # 0 THEN Begins(d) + i - 2 ELSE Ends(d)
  <2>1. /\ source'[m].entries = number /\ source'[m].next = k
        /\ number <= learned[ReplicaOf[m]]
        /\ k # 0 => k \in 2 .. Len(chosen[number].pairs)
        /\ t + 1 = IF k # 0 THEN Begins(number) + k - 2 ELSE Ends(number)
    BY <1>17, <1>19
  <2> WITNESS number \in DOMAIN chosen, k \in Nat
  <2>2. QED BY <2>1
<1>25. t = Taken(m) /\ current[m] = Idle /\ current'[m].id = requested[t + 1].id
  BY <1>1, <1>3, <1>9, <1>14
<1>26. QED
  BY <1>9, <1>13, <1>14, <1>15, <1>16, <1>18, <1>20, <1>23, <1>24, <1>25

\* Reader m hands over the first of these items, what is left of its current
\* block, or finds that there is none.
LastOf(items) == items = << >> \/ Tail(items) = << >>

UsesItems(m, items) ==
  /\ items \in Seq(Item) /\ current[m] # Idle /\ current[m].id \in BlockId
  /\ Rest(items, current[m].id, m, Reached(m))
  /\ \E s \in subbatches[m] : s.id = current[m].id
  /\ \A n \in Reader \ {m} : /\ current'[n] = current[n] /\ subbatches'[n] = subbatches[n]
                             /\ subbatch'[n] = subbatch[n] /\ handed'[n] = handed[n]
  /\ items = << >> => handed'[m] = handed[m]
  /\ items # << >> => handed'[m] = Append(handed[m],
       [action |-> Head(items).action, version |-> AsUint(current[m].version + Head(items).offset)])
  /\ LastOf(items) => /\ current'[m] = Idle /\ subbatch'[m] = << >>
                      /\ subbatches'[m] = {s \in subbatches[m] : s.id # current[m].id}
  /\ ~ LastOf(items) => /\ current'[m] = current[m] /\ subbatches'[m] = subbatches[m]
                        /\ subbatch'[m] = Tail(items)

EntryHanded == [action : Action, version : Nat]

\* (The functions' domains and ranges.)
ReaderVarsTyped ==
  /\ subbatches' \in [Reader -> SUBSET [id : DOMAIN block, items : Seq(Item)]]
  /\ current' \in [Reader -> [id : BlockId \cup {NoBlock}, version : Nat]]
  /\ subbatch' \in [Reader -> Seq(Item)]
  /\ handed' \in [Reader -> Seq(EntryHanded)]

LEMMA HandedItem ==
  ASSUME ReaderTypes, NEW m \in Reader, NEW items \in Seq(Item), items # << >>
  PROVE  [action |-> Head(items).action, version |-> AsUint(current[m].version + Head(items).offset)] \in EntryHanded
<1>1. Head(items) \in Item
  BY TailFacts
<1>2. Head(items).action \in Action /\ Head(items).offset \in Nat /\ current[m].version \in Nat
  BY <1>1 DEF Item, ReaderTypes
<1>3. AsUint(current[m].version + Head(items).offset) \in Nat
  <2>1. current[m].version + Head(items).offset \in Int
    BY <1>2
  <2>2. QED BY <2>1, ConversionTypes
<1>4. QED BY <1>2, <1>3 DEF EntryHanded

LEMMA ReturnFacts ==
  ASSUME ReaderTypes, NEW m \in Reader, NEW items \in Seq(Item), items # << >>, Return(m, items)
  PROVE  /\ ReaderVarsTyped
         /\ \A n \in Reader \ {m} : /\ current'[n] = current[n] /\ subbatches'[n] = subbatches[n]
                                    /\ subbatch'[n] = subbatch[n] /\ handed'[n] = handed[n]
         /\ handed'[m] = Append(handed[m],
              [action |-> Head(items).action, version |-> AsUint(current[m].version + Head(items).offset)])
         /\ LastOf(items) => /\ current'[m] = Idle /\ subbatch'[m] = << >>
                             /\ subbatches'[m] = {s \in subbatches[m] : s.id # current[m].id}
         /\ ~ LastOf(items) => /\ current'[m] = current[m] /\ subbatches'[m] = subbatches[m]
                               /\ subbatch'[m] = Tail(items)
<1>1. PICK e : e = [action |-> Head(items).action, version |-> AsUint(current[m].version + Head(items).offset)]
  OBVIOUS
<1>2. e \in EntryHanded /\ Tail(items) \in Seq(Item)
  BY <1>1, HandedItem, TailFacts
<1>3. /\ handed' = [handed EXCEPT ![m] = Append(@, e)]
      /\ subbatch' = [subbatch EXCEPT ![m] = Tail(items)]
  BY <1>1 DEF Return
<1>4. /\ handed \in [Reader -> Seq(EntryHanded)] /\ subbatch \in [Reader -> Seq(Item)]
      /\ current \in [Reader -> [id : BlockId \cup {NoBlock}, version : Nat]]
      /\ subbatches \in [Reader -> SUBSET [id : DOMAIN block, items : Seq(Item)]]
  BY DEF ReaderTypes, EntryHanded
<1>5. Append(handed[m], e) \in Seq(EntryHanded)
  BY <1>2, <1>4, AppendFacts
<1>6. /\ handed' \in [Reader -> Seq(EntryHanded)] /\ subbatch' \in [Reader -> Seq(Item)]
      /\ handed'[m] = Append(handed[m], e) /\ subbatch'[m] = Tail(items)
      /\ \A n \in Reader \ {m} : handed'[n] = handed[n] /\ subbatch'[n] = subbatch[n]
  BY <1>2, <1>3, <1>4, <1>5
<1>7. Idle \in [id : BlockId \cup {NoBlock}, version : Nat]
  BY IdleFacts
<1>8. CASE Tail(items) = << >>
  <2>1. current' = [current EXCEPT ![m] = Idle]
        /\ subbatches' = [subbatches EXCEPT ![m] = {s \in @ : s.id # current[m].id}]
    BY <1>8 DEF Return, Finish
  <2>2. /\ current' \in [Reader -> [id : BlockId \cup {NoBlock}, version : Nat]] /\ current'[m] = Idle
        /\ \A n \in Reader \ {m} : current'[n] = current[n]
    BY <1>4, <1>7, <2>1
  <2>3. /\ subbatches' \in [Reader -> SUBSET [id : DOMAIN block, items : Seq(Item)]]
        /\ subbatches'[m] = {s \in subbatches[m] : s.id # current[m].id}
        /\ \A n \in Reader \ {m} : subbatches'[n] = subbatches[n]
    BY <1>4, <2>1
  <2>4. QED BY <1>1, <1>6, <1>8, <2>2, <2>3 DEF ReaderVarsTyped, LastOf
<1>9. CASE Tail(items) # << >>
  <2>1. current' = current /\ subbatches' = subbatches
    BY <1>9 DEF Return
  <2>2. QED BY <1>1, <1>4, <1>6, <1>9, <2>1 DEF ReaderVarsTyped, LastOf
<1>10. QED BY <1>8, <1>9

LEMMA FindsUse ==
  ASSUME Types, Reading, Subbatches, Finds \/ GoesOn
  PROVE  /\ ReaderVarsTyped
         /\ UNCHANGED <<status, queue, block, net, stored, votes, requested, versions, chosen, learned, source>>
         /\ \E m \in Reader, items \in Seq(Item) : UsesItems(m, items)
<1>0. BlockTypes /\ ReaderTypes
  BY DEF Types
<1>1. UNCHANGED <<status, queue, block, net, stored, votes, requested, versions, chosen, learned, source>>
  BY DEF Finds, GoesOn, FindSubbatch, NextItem, clientVars, metalogVars
<1>2. CASE Finds
  <2>1. PICK m \in Reader : FindSubbatch(m)
    BY <1>2 DEF Finds
  <2>2. PICK s \in subbatches[m] :
          /\ s.id = current[m].id
          /\ IF s.items = << >>
             THEN Finish(m) /\ UNCHANGED <<subbatch, handed>>
             ELSE Return(m, s.items)
    BY <2>1 DEF FindSubbatch
  <2>3. subbatch[m] = << >> /\ Reached(m) = 0
    BY <2>1 DEF FindSubbatch, Reached
  <2>4. s.items \in Seq(Item) /\ s.id \in DOMAIN block /\ Rest(s.items, s.id, m, 0)
    BY <1>0 DEF ReaderTypes, Subbatches
  <2>5. current[m] # Idle /\ current[m].id \in BlockId
    <3>1. s.id \in BlockId
      BY <1>0, <2>4 DEF BlockTypes
    <3>2. QED BY <2>2, <3>1, IdleFacts
  <2>6. Rest(s.items, current[m].id, m, Reached(m))
    BY <2>2, <2>3, <2>4
  <2>7. CASE s.items # << >>
    <3>1. Return(m, s.items)
      BY <2>2, <2>7
    <3>2. ReaderVarsTyped /\ UsesItems(m, s.items)
      BY <1>0, <2>2, <2>4, <2>5, <2>6, <2>7, <3>1, ReturnFacts DEF UsesItems
    <3>3. QED BY <1>1, <2>4, <3>2
  <2>8. CASE s.items = << >>
    <3>1. /\ current' = [current EXCEPT ![m] = Idle]
          /\ subbatches' = [subbatches EXCEPT ![m] = {x \in @ : x.id # current[m].id}]
          /\ UNCHANGED <<subbatch, handed>>
      BY <2>2, <2>8 DEF Finish
    <3>2. Idle \in [id : BlockId \cup {NoBlock}, version : Nat]
      BY IdleFacts
    <3>3. /\ current' \in [Reader -> [id : BlockId \cup {NoBlock}, version : Nat]] /\ current'[m] = Idle
          /\ \A n \in Reader \ {m} : current'[n] = current[n]
      BY <1>0, <3>1, <3>2 DEF ReaderTypes
    <3>4. /\ subbatches' \in [Reader -> SUBSET [id : DOMAIN block, items : Seq(Item)]]
          /\ subbatches'[m] = {x \in subbatches[m] : x.id # current[m].id}
          /\ \A n \in Reader \ {m} : subbatches'[n] = subbatches[n]
      BY <1>0, <3>1 DEF ReaderTypes
    <3>5. ReaderVarsTyped
      BY <1>0, <3>1, <3>3, <3>4 DEF ReaderVarsTyped, ReaderTypes, EntryHanded
    <3>6. LastOf(s.items)
      BY <2>8 DEF LastOf
    <3>7. UsesItems(m, s.items)
      BY <2>2, <2>3, <2>4, <2>5, <2>6, <2>8, <3>1, <3>3, <3>4, <3>6 DEF UsesItems
    <3>8. QED BY <1>1, <2>4, <3>5, <3>7
  <2>9. QED BY <2>7, <2>8
<1>3. CASE GoesOn
  <2>1. PICK m \in Reader : NextItem(m)
    BY <1>3 DEF GoesOn
  <2>2. subbatch[m] # << >> /\ Return(m, subbatch[m]) /\ subbatch[m] \in Seq(Item)
    BY <1>0, <2>1 DEF NextItem, ReaderTypes
  <2>3. /\ current[m] # Idle /\ \E s \in subbatches[m] : s.id = current[m].id
        /\ Rest(subbatch[m], current[m].id, m, Reached(m))
    BY <2>2 DEF Reading, ReadingOf, Reached
  <2>4. current[m].id \in BlockId
    BY <1>0, <2>3 DEF ReaderTypes, BlockTypes
  <2>5. ReaderVarsTyped /\ UsesItems(m, subbatch[m])
    BY <1>0, <2>2, <2>3, <2>4, ReturnFacts DEF UsesItems
  <2>6. QED BY <1>1, <2>2, <2>5
<1>4. QED BY <1>2, <1>3

LEMMA LogTypesInv ==
  ASSUME Types, IdsCounted, VotesInv, LogInv, [Next]_vars
  PROVE  LogTypes'
<1>0. LogTypes
  BY DEF Types
<1>1. requested' \in Seq(Pair) /\ versions' \in Seq(Nat)
  BY RequestsInv DEF LogInv
<1>2. chosen' \in Seq([version : Nat, pairs : Seq(Pair)]) /\ EntriesGrow
  BY EntriesGrowInv
<1>3. Len(chosen) \in Nat /\ Len(chosen') \in Nat /\ Len(chosen) <= Len(chosen')
  BY <1>0, <1>2 DEF LogTypes, EntriesGrow
<1>4. learned \in [Replica -> 0 .. Len(chosen)]
  BY <1>0 DEF LogTypes
<1>5. learned' \in [Replica -> 0 .. Len(chosen')]
  <2>1. CASE learned' = learned
    <3>1. \A r \in Replica : learned[r] \in 0 .. Len(chosen')
      BY <1>3, <1>4
    <3>2. QED BY <1>4, <2>1, <3>1
  <2>2. CASE \E r \in Replica : LearnEntry(r)
    <3>1. PICK r \in Replica : LearnEntry(r)
      BY <2>2
    <3>2. learned[r] < Len(chosen) /\ learned' = [learned EXCEPT ![r] = @ + 1] /\ chosen' = chosen
      BY <3>1 DEF LearnEntry
    <3>3. learned[r] + 1 \in 0 .. Len(chosen)
      BY <1>3, <1>4, <3>2
    <3>4. QED BY <1>4, <3>2, <3>3
  <2>3. QED BY <2>1, <2>2, Changes
<1>6. QED BY <1>1, <1>2, <1>5 DEF LogTypes

LEMMA ReaderInv ==
  ASSUME Types, IdsCounted, LogInv, Reading, Subbatches, [Next]_vars
  PROVE  ReaderTypes'
<1>0. BlockTypes /\ ReaderTypes /\ NetTypes
  BY DEF Types
<1>1. source' \in [Reader -> [entries : Nat, next : Nat, offset : Int]]
  <2>1. CASE source' = source
    BY <1>0, <2>1 DEF ReaderTypes
  <2>2. CASE TakesNext
    <3>1. PICK m \in Reader : NextBlock(m)
      BY <2>2 DEF TakesNext
    <3>2. /\ source' = [source EXCEPT ![m] = source'[m]]
          /\ source'[m] \in [entries : Nat, next : Nat, offset : Int]
      BY <3>1, NextBlockFacts
    <3>3. QED BY <1>0, <3>2 DEF ReaderTypes
  <2>3. QED BY <2>1, <2>2, Changes
<1>2. CASE Finds \/ GoesOn
  <2>1. ReaderVarsTyped /\ block' = block
    BY <1>2, FindsUse
  <2>2. QED BY <1>1, <2>1 DEF ReaderVarsTyped, ReaderTypes, EntryHanded
<1>3. CASE ~ (Finds \/ GoesOn)
  <2>1. UNCHANGED <<subbatch, handed>>
    BY <1>3, Changes
  <2>2. current' \in [Reader -> [id : BlockId \cup {NoBlock}, version : Nat]]
    <3>1. CASE current' = current
      BY <1>0, <3>1 DEF ReaderTypes
    <3>2. CASE TakesNext
      <4>1. PICK m \in Reader : NextBlock(m)
        BY <3>2 DEF TakesNext
      <4>2. current' = [current EXCEPT ![m] = current'[m]]
            /\ current'[m] \in [id : BlockId \cup {NoBlock}, version : Nat]
        BY <4>1, NextBlockFacts
      <4>3. QED BY <1>0, <4>2 DEF ReaderTypes
    <3>3. QED BY <1>3, <3>1, <3>2, Changes
  <2>3. subbatches' \in [Reader -> SUBSET [id : DOMAIN block', items : Seq(Item)]]
    <3>1. DOMAIN block \subseteq DOMAIN block'
      BY <1>0, BlocksGrow DEF BlockGrows
    <3>2. \A m \in Reader : subbatches[m] \subseteq [id : DOMAIN block', items : Seq(Item)]
      BY <1>0, <3>1 DEF ReaderTypes
    <3>3. subbatches = [m \in Reader |-> subbatches[m]]
      BY <1>0 DEF ReaderTypes
    <3>4. CASE subbatches' = subbatches
      BY <3>2, <3>3, <3>4
    <3>5. CASE Receives
      <4>1. PICK msg \in net : HandleSubbatch(msg)
        BY <3>5 DEF Receives
      <4>2. subbatches' = [subbatches EXCEPT ![msg.to] = @ \cup {[id |-> msg.id, items |-> msg.items]}]
        BY <4>1 DEF HandleSubbatch
      <4>3. msg.id \in DOMAIN block /\ msg.items \in Seq(Item)
        BY <1>0, <4>1 DEF HandleSubbatch, Handling, NetTypes, IsMessage
      <4>4. [id |-> msg.id, items |-> msg.items] \in [id : DOMAIN block', items : Seq(Item)]
        BY <3>1, <4>3
      <4>5. QED BY <3>2, <3>3, <4>2, <4>4
    <3>6. QED BY <1>3, <3>4, <3>5, Changes
  <2>4. QED BY <1>0, <1>1, <2>1, <2>2, <2>3 DEF ReaderTypes
<1>4. QED BY <1>2, <1>3

LEMMA TypesInv ==
  ASSUME Types, IdsCounted, VotesInv, LogInv, Reading, Subbatches, [Next]_vars
  PROVE  Types'
BY AppInv, BlockInv, NetInv, StoreInv, LogTypesInv, ReaderInv DEF Types

\* What a reader has done, from one step to the next.
Rests(m) == Done(m)' = Done(m) /\ Reached(m)' = Reached(m) /\ handed'[m] = handed[m] /\ subbatch'[m] = subbatch[m]

LEMMA ReaderSteps ==
  ASSUME Types, IdsCounted, VotesInv, LogInv, Reading, Subbatches, [Next]_vars, NEW m \in Reader
  PROVE  Rests(m) \/ ((Finds \/ GoesOn) /\ \E items \in Seq(Item) : UsesItems(m, items))
<1>0. ReadingOf(m) /\ Taken(m) \in Nat
  <2>1. ReadingOf(m)
    BY DEF Reading
  <2>2. QED BY <2>1, TakenFacts
<1>1. CASE Finds \/ GoesOn
  <2>1. PICK n \in Reader, items \in Seq(Item) : UsesItems(n, items)
    BY <1>1, FindsUse
  <2>2. CASE n = m
    BY <1>1, <2>1, <2>2
  <2>3. CASE n # m
    <3>1. current'[m] = current[m] /\ subbatch'[m] = subbatch[m] /\ handed'[m] = handed[m]
      BY <2>1, <2>3 DEF UsesItems
    <3>2. source' = source
      BY <1>1, FindsUse
    <3>3. Taken(m)' = Taken(m)
      BY <1>0, <3>2, TakenStays
    <3>4. Rests(m)
      BY <3>1, <3>3 DEF Rests, Done, Reached
    <3>5. QED BY <3>4
  <2>4. QED BY <2>1, <2>2, <2>3
<1>2. CASE ~ (Finds \/ GoesOn)
  <2>1. UNCHANGED <<subbatch, handed>>
    BY <1>2, Changes
  <2>2. Done(m)' = Done(m)
    <3>1. CASE current' = current /\ source' = source
      <4>1. Taken(m)' = Taken(m)
        BY <1>0, <3>1, TakenStays
      <4>2. QED BY <3>1, <4>1 DEF Done
    <3>2. CASE TakesNext
      <4>1. PICK n \in Reader : NextBlock(n)
        BY <3>2 DEF TakesNext
      <4>2. CASE n = m
        <5>0. NextBlock(m)
          BY <4>1, <4>2
        <5>1. current[m] = Idle /\ current'[m] # Idle
          BY <5>0, NextBlockFacts
        <5>2. PICK e \in DOMAIN chosen, k \in Nat :
                /\ source'[m].entries = e /\ source'[m].next = k
                /\ Taken(m) + 1 = IF k # 0 THEN Begins(e) + k - 2 ELSE Ends(e)
          BY <5>0, NextBlockFacts
        <5>3. Begins(e)' = Begins(e) /\ Ends(e)' = Ends(e)
          BY EntriesStay
        <5>4. e # 0
          BY <1>0, TakenFacts
        <5>5. Taken(m)' = Taken(m) + 1
          BY <5>2, <5>3, <5>4 DEF Taken
        <5>6. Done(m) = Taken(m)
          BY <5>1 DEF Done
        <5>7. Done(m)' = Taken(m)' - 1
          BY <5>1 DEF Done
        <5>8. QED BY <1>0, <5>5, <5>6, <5>7
      <4>3. CASE n # m
        <5>1. current'[m] = current[m] /\ source'[m] = source[m]
          BY <4>1, <4>3, NextBlockFacts
        <5>2. Taken(m)' = Taken(m)
          BY <1>0, <5>1, TakenStays
        <5>3. QED BY <5>1, <5>2 DEF Done
      <4>4. QED BY <4>2, <4>3
    <3>3. QED BY <1>2, <3>1, <3>2, Changes
  <2>3. Rests(m)
    BY <2>1, <2>2 DEF Rests, Reached
  <2>4. QED BY <2>3
<1>3. QED BY <1>1, <1>2

LEMMA UsesDone ==
  ASSUME Types, IdsCounted, VotesInv, LogInv, Reading, Subbatches, [Next]_vars, NEW m \in Reader,
         Finds \/ GoesOn, NEW items \in Seq(Item), UsesItems(m, items)
  PROVE  /\ Done(m) \in Nat /\ Done(m) + 1 \in DOMAIN requested /\ requested[Done(m) + 1].id = current[m].id
         /\ LastOf(items) => Done(m)' = Done(m) + 1 /\ Reached(m)' = 0
         /\ ~ LastOf(items) => Done(m)' = Done(m) /\ Reached(m)' = Head(Tail(items)).offset
<1>1. ReadingOf(m) /\ source' = source
  BY FindsUse DEF Reading
<1>2. Taken(m)' = Taken(m) /\ Taken(m) \in Nat /\ Taken(m) <= Len(requested) /\ DOMAIN requested = 1 .. Len(requested)
      /\ Len(requested) \in Nat
  <2>1. /\ Taken(m) \in 0 .. Sequenced /\ Sequenced \in 0 .. Len(requested) /\ Len(requested) \in Nat
        /\ DOMAIN requested = 1 .. Len(requested)
    BY <1>1, TakenFacts
  <2>2. QED BY <1>1, <2>1, TakenStays
<1>3. current[m] # Idle /\ Done(m) = Taken(m) - 1
  BY DEF UsesItems, Done
<1>4. Taken(m) > 0 /\ current[m].id = requested[Taken(m)].id
  BY <1>1, <1>3 DEF ReadingOf
<1>5. Done(m) \in Nat /\ Done(m) + 1 = Taken(m) /\ Taken(m) \in DOMAIN requested
  BY <1>2, <1>3, <1>4
<1>6. CASE LastOf(items)
  <2>1. current'[m] = Idle /\ subbatch'[m] = << >>
    BY <1>6 DEF UsesItems
  <2>2. Done(m)' = Taken(m) /\ Reached(m)' = 0
    BY <1>2, <2>1 DEF Done, Reached
  <2>3. QED BY <1>4, <1>5, <1>6, <2>2
<1>7. CASE ~ LastOf(items)
  <2>1. current'[m] = current[m] /\ subbatch'[m] = Tail(items) /\ Tail(items) # << >>
    BY <1>7 DEF UsesItems, LastOf
  <2>2. Done(m)' = Taken(m) - 1 /\ Reached(m)' = Head(Tail(items)).offset
    BY <1>2, <1>3, <2>1 DEF Done, Reached
  <2>3. QED BY <1>3, <1>4, <1>5, <1>7, <2>2
<1>8. QED BY <1>6, <1>7

----------------------------------------------------------------------------
(***************************************************************************)
(* Where a reader stands in its block.                                     *)
(***************************************************************************)
LEMMA RestFacts ==
  ASSUME BlockTypes, NEW id \in DOMAIN block, NEW items \in Seq(Item), NEW m, NEW o \in Nat,
         Rest(items, id, m, o), items # << >>
  PROVE  /\ Head(items) = items[1] /\ 1 \in DOMAIN items /\ Head(items).offset \in Nat /\ o <= Head(items).offset
         /\ \A k \in DOMAIN items : items[k].offset \in Nat /\ Head(items).offset <= items[k].offset
         /\ Tail(items) # << >> =>
              /\ Head(Tail(items)) = items[2] /\ 2 \in DOMAIN items
              /\ Head(Tail(items)).offset \in Nat /\ Head(items).offset < Head(Tail(items)).offset
              /\ \A k \in DOMAIN items : k = 1 \/ Head(Tail(items)).offset <= items[k].offset
         /\ Tail(items) = << >> => DOMAIN items = {1}
<1>1. /\ Tail(items) \in Seq(Item) /\ Len(items) \in Nat \ {0} /\ Len(Tail(items)) = Len(items) - 1
      /\ Head(items) = items[1] /\ DOMAIN items = 1 .. Len(items) /\ DOMAIN Tail(items) = 1 .. (Len(items) - 1)
      /\ \A k \in DOMAIN Tail(items) : k \in Nat /\ k + 1 \in DOMAIN items /\ Tail(items)[k] = items[k + 1]
  BY TailFacts
<1>2. \A k \in DOMAIN items : items[k].offset \in Nat
  <2>1. \A k \in DOMAIN items : items[k] \in Item
    OBVIOUS
  <2>2. QED BY <2>1 DEF Item
<1>3. 1 \in DOMAIN items /\ o <= Head(items).offset
  BY <1>1 DEF Rest
<1>4. \A k \in DOMAIN items : k = 1 \/ 1 < k
  BY <1>1
<1>5. \A k \in DOMAIN items : Head(items).offset <= items[k].offset
  <2>1. ASSUME NEW k \in DOMAIN items PROVE items[1].offset <= items[k].offset
    <3>1. CASE k = 1
      BY <1>2, <3>1
    <3>2. CASE k # 1
      <4>1. items[1].offset < items[k].offset
        BY <1>3, <1>4, <3>2 DEF Rest
      <4>2. QED BY <1>2, <1>3, <4>1
    <3>3. QED BY <3>1, <3>2
  <2>2. QED BY <1>1, <2>1
<1>6. ASSUME Tail(items) # << >>
      PROVE  /\ Head(Tail(items)) = items[2] /\ 2 \in DOMAIN items
             /\ Head(Tail(items)).offset \in Nat /\ Head(items).offset < Head(Tail(items)).offset
             /\ \A k \in DOMAIN items : k = 1 \/ Head(Tail(items)).offset <= items[k].offset
  <2>1. Head(Tail(items)) = Tail(items)[1] /\ 1 \in DOMAIN Tail(items)
    <3>1. Len(Tail(items)) \in Nat \ {0} /\ Head(Tail(items)) = Tail(items)[1]
      BY <1>1, <1>6, TailFacts
    <3>2. QED BY <1>1, <3>1
  <2>2. Head(Tail(items)) = items[2] /\ 2 \in DOMAIN items
    <3>1. 1 + 1 = 2
      OBVIOUS
    <3>2. QED BY <1>1, <2>1, <3>1
  <2>3. items[1].offset < items[2].offset
    BY <1>3, <2>2 DEF Rest
  <2>4. ASSUME NEW k \in DOMAIN items, k # 1 PROVE items[2].offset <= items[k].offset
    <3>1. k = 2 \/ 2 < k
      BY <1>1, <2>4
    <3>2. CASE k = 2
      BY <1>2, <3>2
    <3>3. CASE 2 < k
      <4>1. items[2].offset < items[k].offset
        BY <2>2, <3>3 DEF Rest
      <4>2. QED BY <1>2, <2>2, <4>1
    <3>4. QED BY <3>1, <3>2, <3>3
  <2>5. QED BY <1>1, <1>2, <2>2, <2>3, <2>4
<1>7. ASSUME Tail(items) = << >> PROVE DOMAIN items = {1}
  <2>1. PICK t, n : t = Tail(items) /\ n = Len(items)
    OBVIOUS
  <2>2. n \in Nat \ {0} /\ Len(t) = n - 1 /\ t = << >>
    BY <1>1, <1>7, <2>1
  <2>02. Len(t) = 0
    BY ONLY <2>2
  <2>002. n = 1
    BY ONLY <2>2, <2>02
  <2>3. 1 .. 1 = {1}
    OBVIOUS
  <2>4. QED BY <1>1, <2>002, <2>1, <2>3
<1>8. QED BY <1>1, <1>2, <1>3, <1>5, <1>6, <1>7

LEMMA RestOfTail ==
  ASSUME BlockTypes, NEW id \in DOMAIN block, NEW items \in Seq(Item), NEW m, NEW o \in Nat,
         Rest(items, id, m, o), items # << >>, Tail(items) # << >>
  PROVE  Rest(Tail(items), id, m, Head(Tail(items)).offset)
<1>1. /\ Tail(items) \in Seq(Item) /\ Len(items) \in Nat \ {0}
      /\ DOMAIN items = 1 .. Len(items) /\ DOMAIN Tail(items) = 1 .. (Len(items) - 1)
      /\ \A k \in DOMAIN Tail(items) : k \in Nat /\ k + 1 \in DOMAIN items /\ Tail(items)[k] = items[k + 1]
  BY TailFacts
<1>2. PICK h1, h2 : h1 = Head(items).offset /\ h2 = Head(Tail(items)).offset
  OBVIOUS
<1>3. /\ h1 = items[1].offset /\ h2 = items[2].offset /\ h1 \in Nat /\ h2 \in Nat /\ o <= h1 /\ h1 < h2
      /\ \A k \in DOMAIN items : items[k].offset \in Nat /\ (k = 1 \/ h2 <= items[k].offset)
  BY <1>2, RestFacts
<1>4. ASSUME NEW k \in DOMAIN Tail(items)
      PROVE  /\ Tail(items)[k].offset >= h2 /\ Tail(items)[k].offset + 1 \in DOMAIN block[id]
             /\ Tail(items)[k].action = block[id][Tail(items)[k].offset + 1]
             /\ Concerned(m, Tail(items)[k].action)
  <2>1. k + 1 \in DOMAIN items /\ Tail(items)[k] = items[k + 1] /\ k + 1 # 1
    BY <1>1
  <2>2. items[k + 1].offset \in Nat /\ h2 <= items[k + 1].offset
    BY <1>3, <2>1
  <2>3. /\ items[k + 1].offset + 1 \in DOMAIN block[id]
        /\ items[k + 1].action = block[id][items[k + 1].offset + 1]
        /\ Concerned(m, items[k + 1].action)
    BY <2>1 DEF Rest
  <2>4. items[k + 1].offset >= h2
    BY <1>3, <2>2
  <2>5. QED BY <2>1, <2>3, <2>4
<1>5. ASSUME NEW i \in DOMAIN block[id], i > h2, Concerned(m, block[id][i])
      PROVE  \E k \in DOMAIN Tail(items) : Tail(items)[k].offset = i - 1
  <2>1. block[id] \in Seq(Action)
    BY DEF BlockTypes
  <2>2. i \in Nat
    BY <2>1
  <2>3. i > o
    BY <1>3, <1>5, <2>2
  <2>4. PICK k \in DOMAIN items : items[k].offset = i - 1
    BY <1>5, <2>3 DEF Rest
  <2>5. k # 1
    BY <1>3, <1>5, <2>2, <2>4
  <2>6. k - 1 \in DOMAIN Tail(items) /\ (k - 1) + 1 = k
    BY <1>1, <2>5
  <2>7. QED BY <1>1, <2>4, <2>6
<1>6. ASSUME NEW j \in DOMAIN Tail(items), NEW k \in DOMAIN Tail(items), j < k
      PROVE  Tail(items)[j].offset < Tail(items)[k].offset
  <2>1. j + 1 < k + 1 /\ j + 1 \in DOMAIN items /\ k + 1 \in DOMAIN items
        /\ Tail(items)[j] = items[j + 1] /\ Tail(items)[k] = items[k + 1]
    BY <1>1, <1>6
  <2>2. QED BY <2>1 DEF Rest
<1>7. QED BY <1>2, <1>4, <1>5, <1>6 DEF Rest

LEMMA LearnedGrows ==
  ASSUME Types, [Next]_vars, NEW r \in Replica
  PROVE  learned[r] <= learned'[r] /\ learned[r] \in Nat /\ learned'[r] \in Nat
<1>1. learned \in [Replica -> 0 .. Len(chosen)] /\ Len(chosen) \in Nat
  BY DEF Types, LogTypes
<1>2. learned[r] \in Nat
  BY <1>1
<1>3. CASE learned' = learned
  BY <1>2, <1>3
<1>4. CASE \E q \in Replica : LearnEntry(q)
  <2>1. PICK q \in Replica : LearnEntry(q)
    BY <1>4
  <2>2. learned' = [learned EXCEPT ![q] = @ + 1]
    BY <2>1 DEF LearnEntry
  <2>3. QED BY <1>1, <1>2, <2>2
<1>5. QED BY <1>3, <1>4, Changes

\* What a reader does not touch stays true of it.
LEMMA ReadingKept ==
  ASSUME Types, IdsCounted, VotesInv, LogInv, [Next]_vars, NEW m \in Reader, ReadingOf(m),
         source'[m] = source[m], current'[m] = current[m], subbatch'[m] = subbatch[m],
         subbatches[m] \subseteq subbatches'[m]
  PROVE  ReadingOf(m)'
<1>0. BlockTypes /\ LogTypes /\ ReaderTypes /\ BlockGrows /\ RequestsGrow /\ EntriesGrow
  BY BlocksGrow, RequestsInv, EntriesGrowInv DEF Types, LogInv
<1>1. source[m].entries <= learned'[ReplicaOf[m]]
  <2>1. ReplicaOf[m] \in Replica
    BY Machines
  <2>2. /\ learned[ReplicaOf[m]] <= learned'[ReplicaOf[m]]
        /\ learned[ReplicaOf[m]] \in Nat /\ learned'[ReplicaOf[m]] \in Nat
    BY <2>1, LearnedGrows
  <2>3. source[m].entries \in Nat /\ source[m].entries <= learned[ReplicaOf[m]]
    BY <1>0 DEF ReaderTypes, ReadingOf
  <2>4. QED BY <2>2, <2>3
<1>2. source[m].next # 0 => /\ source[m].entries > 0
                            /\ source[m].next \in 2 .. Len(chosen'[source[m].entries].pairs)
  <2>1. ASSUME source[m].next # 0
        PROVE  /\ source[m].entries > 0
               /\ source[m].next \in 2 .. Len(chosen'[source[m].entries].pairs)
    <3>1. source[m].entries > 0 /\ source[m].next \in 2 .. Len(chosen[source[m].entries].pairs)
      BY <2>1 DEF ReadingOf
    <3>2. source[m].entries \in DOMAIN chosen
      <4>1. /\ source[m].entries \in 0 .. Len(chosen)
            /\ DOMAIN chosen = 1 .. Len(chosen) /\ Len(chosen) \in Nat
        BY TakenFacts
      <4>2. QED BY <3>1, <4>1
    <3>3. chosen'[source[m].entries] = chosen[source[m].entries]
      BY <1>0, <3>2 DEF EntriesGrow
    <3>4. QED BY <3>1, <3>3
  <2>2. QED BY <2>1
<1>3. Taken(m)' = Taken(m)
  BY TakenStays
<1>4. current[m] # Idle => Taken(m) > 0 /\ current[m].id = requested'[Taken(m)].id
  <2>1. ASSUME current[m] # Idle PROVE Taken(m) > 0 /\ current[m].id = requested'[Taken(m)].id
    <3>1. Taken(m) > 0 /\ current[m].id = requested[Taken(m)].id
      BY <2>1 DEF ReadingOf
    <3>2. Taken(m) \in DOMAIN requested
      <4>1. /\ Taken(m) \in 0 .. Sequenced /\ Sequenced \in 0 .. Len(requested) /\ Len(requested) \in Nat
            /\ DOMAIN requested = 1 .. Len(requested)
        BY TakenFacts
      <4>2. QED BY <3>1, <4>1
    <3>3. QED BY <1>0, <3>1, <3>2 DEF RequestsGrow
  <2>2. QED BY <2>1
<1>5. ASSUME subbatch[m] # << >>
      PROVE  /\ current[m] # Idle
             /\ \E s \in subbatches'[m] : s.id = current[m].id
             /\ Rest(subbatch[m], current[m].id, m, Head(subbatch[m]).offset)'
  <2>1. PICK id : id = current[m].id
    OBVIOUS
  <2>2. /\ current[m] # Idle /\ \E s \in subbatches[m] : s.id = id
        /\ Rest(subbatch[m], id, m, Head(subbatch[m]).offset)
    BY <1>5, <2>1 DEF ReadingOf
  <2>3. id \in DOMAIN block
    BY <1>0, <2>2 DEF ReaderTypes
  <2>4. block'[id] = block[id]
    BY <1>0, <2>3 DEF BlockGrows
  <2>5. Rest(subbatch[m], current[m].id, m, Head(subbatch[m]).offset)'
    BY <2>1, <2>2, <2>4 DEF Rest, Concerned, Recipients
  <2>6. QED BY <2>1, <2>2, <2>5
<1>6. QED BY <1>1, <1>2, <1>3, <1>4, <1>5 DEF ReadingOf

LEMMA ReadingStep ==
  ASSUME Types, IdsCounted, VotesInv, LogInv, Reading, Subbatches, [Next]_vars
  PROVE  Reading'
<1>0. BlockTypes /\ LogTypes /\ ReaderTypes /\ BlockGrows /\ RequestsGrow /\ EntriesGrow
  BY BlocksGrow, RequestsInv, EntriesGrowInv DEF Types, LogInv
<1>1. SUFFICES ASSUME NEW m \in Reader PROVE ReadingOf(m)'
  BY DEF Reading
<1>2. ReadingOf(m)
  BY DEF Reading
<1>3. CASE Finds \/ GoesOn
  <2>1. PICK n \in Reader, items \in Seq(Item) : UsesItems(n, items)
    BY <1>3, FindsUse
  <2>2. UNCHANGED <<block, requested, versions, chosen, learned, source>>
    BY <1>3, FindsUse
  <2>3. CASE n # m
    <3>1. /\ source'[m] = source[m] /\ current'[m] = current[m]
          /\ subbatch'[m] = subbatch[m] /\ subbatches'[m] = subbatches[m]
      BY <2>1, <2>2, <2>3 DEF UsesItems
    <3>2. QED BY <1>2, <3>1, ReadingKept
  <2>4. CASE n = m
    <3>1. UsesItems(m, items)
      BY <2>1, <2>4
    <3>2. Taken(m)' = Taken(m)
      BY <1>2, <2>2, TakenStays
    <3>3. CASE LastOf(items)
      <4>1. current'[m] = Idle /\ subbatch'[m] = << >>
        BY <3>1, <3>3 DEF UsesItems
      <4>2. QED BY <1>2, <2>2, <4>1 DEF ReadingOf
    <3>4. CASE ~ LastOf(items)
      <4>1. /\ items # << >> /\ Tail(items) # << >>
            /\ current'[m] = current[m] /\ subbatches'[m] = subbatches[m] /\ subbatch'[m] = Tail(items)
            /\ current[m] # Idle /\ Rest(items, current[m].id, m, Reached(m))
            /\ \E s \in subbatches[m] : s.id = current[m].id
        BY <3>1, <3>4 DEF UsesItems, LastOf
      <4>2. PICK id, o : id = current[m].id /\ o = Reached(m)
        OBVIOUS
      <4>3. id \in DOMAIN block
        BY <1>0, <4>1, <4>2 DEF ReaderTypes
      <4>4. o \in Nat
        <5>1. CASE subbatch[m] = << >>
          BY <4>2, <5>1 DEF Reached
        <5>2. CASE subbatch[m] # << >>
          <6>1. subbatch[m] \in Seq(Item)
            BY <1>0 DEF ReaderTypes
          <6>2. Head(subbatch[m]) \in Item
            BY <5>2, <6>1, TailFacts
          <6>3. QED BY <4>2, <5>2, <6>2 DEF Reached, Item
        <5>3. QED BY <5>1, <5>2
      <4>5. Rest(Tail(items), id, m, Head(Tail(items)).offset)
        BY <1>0, <4>1, <4>2, <4>3, <4>4, RestOfTail
      <4>6. Rest(subbatch[m], current[m].id, m, Head(subbatch[m]).offset)'
        BY <2>2, <4>1, <4>2, <4>5 DEF Rest, Concerned, Recipients
      <4>7. Taken(m) > 0 /\ current[m].id = requested[Taken(m)].id
        BY <1>2, <4>1 DEF ReadingOf
      <4>8. /\ source[m].entries <= learned[ReplicaOf[m]]
            /\ source[m].next # 0 => /\ source[m].entries > 0
                                     /\ source[m].next \in 2 .. Len(chosen[source[m].entries].pairs)
        BY <1>2 DEF ReadingOf
      <4>9. QED BY <2>2, <3>2, <4>1, <4>6, <4>7, <4>8 DEF ReadingOf
    <3>5. QED BY <3>3, <3>4
  <2>5. QED BY <2>3, <2>4
<1>4. CASE TakesNext
  <2>1. PICK n \in Reader : NextBlock(n)
    BY <1>4 DEF TakesNext
  <2>2. UNCHANGED <<block, requested, versions, chosen, learned, subbatch, subbatches>>
    BY <2>1 DEF NextBlock, clientVars, metalogVars
  <2>3. CASE n # m
    <3>1. source'[m] = source[m] /\ current'[m] = current[m]
      BY <2>1, <2>3, NextBlockFacts
    <3>2. QED BY <1>2, <2>2, <3>1, ReadingKept
  <2>4. CASE n = m
    <3>0. NextBlock(m)
      BY <2>1, <2>4
    <3>1. PICK e \in DOMAIN chosen, k \in Nat :
            /\ source'[m].entries = e /\ source'[m].next = k
            /\ e <= learned[ReplicaOf[m]]
            /\ k # 0 => k \in 2 .. Len(chosen[e].pairs)
            /\ Taken(m) + 1 = IF k # 0 THEN Begins(e) + k - 2 ELSE Ends(e)
      BY <3>0, NextBlockFacts
    <3>2. Begins(e)' = Begins(e) /\ Ends(e)' = Ends(e)
      BY EntriesStay
    <3>3. e > 0
      BY <1>2, TakenFacts
    <3>4. Taken(m)' = Taken(m) + 1
      <4>1. e # 0
        BY <3>3
      <4>2. QED BY <3>1, <3>2, <4>1 DEF Taken
    <3>5. /\ current[m] = Idle /\ Taken(m) \in Nat
          /\ current'[m].id = requested[Taken(m) + 1].id
      BY <3>0, NextBlockFacts
    <3>6. subbatch[m] = << >>
      BY <1>2, <3>5 DEF ReadingOf
    <3>7. Taken(m) + 1 > 0
      BY <3>5
    <3>8. QED BY <2>2, <3>1, <3>3, <3>4, <3>5, <3>6, <3>7 DEF ReadingOf
  <2>5. QED BY <2>3, <2>4
<1>5. CASE ~ (Finds \/ GoesOn \/ TakesNext)
  <2>1. UNCHANGED <<source, current, subbatch>>
    BY <1>5, Changes
  <2>2. subbatches[m] \subseteq subbatches'[m]
    <3>1. CASE subbatches' = subbatches
      BY <3>1
    <3>2. CASE Receives
      <4>1. PICK msg \in net : HandleSubbatch(msg)
        BY <3>2 DEF Receives
      <4>2. subbatches' = [subbatches EXCEPT ![msg.to] = @ \cup {[id |-> msg.id, items |-> msg.items]}]
        BY <4>1 DEF HandleSubbatch
      <4>3. QED BY <1>0, <4>2 DEF ReaderTypes
    <3>3. QED BY <1>5, <3>1, <3>2, Changes
  <2>3. QED BY <1>2, <2>1, <2>2, ReadingKept
<1>6. QED BY <1>3, <1>4, <1>5

----------------------------------------------------------------------------
(***************************************************************************)
(* A reader's sub-batch of a block is in one place.                        *)
(***************************************************************************)
LEMMA DoneFacts ==
  ASSUME Types, LogInv, Reading, NEW m \in Reader
  PROVE  /\ Done(m) \in 0 .. Len(requested) /\ Len(requested) \in Nat
         /\ DOMAIN requested = 1 .. Len(requested)
<1>1. ReadingOf(m)
  BY DEF Reading
<1>2. PICK t : t = Taken(m)
  OBVIOUS
<1>3. t \in 0 .. Sequenced /\ Sequenced \in 0 .. Len(requested) /\ Len(requested) \in Nat
      /\ DOMAIN requested = 1 .. Len(requested)
  BY <1>1, <1>2, TakenFacts
<1>4. current[m] # Idle => t > 0
  BY <1>1, <1>2 DEF ReadingOf
<1>5. QED BY <1>2, <1>3, <1>4 DEF Done

LEMMA PassedStays ==
  ASSUME Types, IdsCounted, VotesInv, LogInv, Reading, [Next]_vars, NEW m \in Reader, Done(m)' = Done(m), NEW id
  PROVE  Passed(m, id)' <=> Passed(m, id)
<1>1. RequestsGrow
  BY RequestsInv DEF LogInv
<1>2. PICK d : d = Done(m) /\ d = Done(m)'
  OBVIOUS
<1>3. d \in 0 .. Len(requested) /\ Len(requested) \in Nat /\ DOMAIN requested = 1 .. Len(requested)
  BY <1>2, DoneFacts
<1>4. requested' \in Seq(Pair)
  BY RequestsInv DEF LogInv
<1>5. \A i \in DOMAIN requested' : i <= d => i \in DOMAIN requested
  <2>1. DOMAIN requested' = 1 .. Len(requested') /\ Len(requested') \in Nat
    BY <1>4
  <2>2. QED BY <1>3, <2>1
<1>6. (\E i \in DOMAIN requested' : i <= d /\ requested'[i].id = id)
        <=> (\E i \in DOMAIN requested : i <= d /\ requested[i].id = id)
  BY <1>1, <1>5 DEF RequestsGrow
<1>7. QED BY <1>2, <1>6 DEF Passed

LEMMA PlacesKept ==
  ASSUME NEW m, NEW id, OnePlace(m, id), Passed(m, id)' => Passed(m, id), Received(m, id)' => Received(m, id),
         OnItsWay(m, id)' => OnItsWay(m, id), NotMade(m, id)' => NotMade(m, id)
  PROVE  OnePlace(m, id)'
BY DEF OnePlace

\* The parts of Subbatches.
ListsFit ==
  /\ \A x \in net : x.type = "SUBBATCH" => Rest(x.items, x.id, x.to, 0)
  /\ \A m \in Reader : \A s \in subbatches[m] : Rest(s.items, s.id, m, 0)

OneMessage ==
  \A x, y \in net :
    x.type = "SUBBATCH" /\ y.type = "SUBBATCH" /\ x.to = y.to /\ x.id = y.id => x = y

LEMMA ListsStep ==
  ASSUME Types, IdsCounted, Reading, Subbatches, [Next]_vars
  PROVE  ListsFit'
<1>0. BlockTypes /\ NetTypes /\ ReaderTypes /\ BlockGrows
  BY BlocksGrow DEF Types
<1>1. ASSUME NEW x \in net, x.type = "SUBBATCH" PROVE Rest(x.items, x.id, x.to, 0)'
  <2>1. Rest(x.items, x.id, x.to, 0) /\ x.id \in DOMAIN block
    BY <1>0, <1>1 DEF Subbatches, NetTypes, IsMessage
  <2>2. QED BY <1>0, <2>1, RestStays
<1>2. ASSUME NEW m \in Reader, NEW s \in subbatches[m] PROVE Rest(s.items, s.id, m, 0)'
  <2>1. Rest(s.items, s.id, m, 0) /\ s.id \in DOMAIN block
    BY <1>0 DEF Subbatches, ReaderTypes
  <2>2. QED BY <1>0, <2>1, RestStays
<1>3. ASSUME NEW x \in net', x.type = "SUBBATCH" PROVE Rest(x.items, x.id, x.to, 0)'
  <2>1. CASE Batches
    <3>1. PICK msg \in net : HandleBatch(msg)
      BY <2>1 DEF Batches
    <3>2. msg.id \in DOMAIN block /\ block' = block
          /\ \/ x \in net
             \/ x = Vote(msg.to, msg.id, Len(block[msg.id]))
             \/ \E m \in Reader : x = Subbatch(m, msg.id, Part(msg.id, m, ReplicaOf[m]))
      BY <1>0, <3>1, BatchFacts
    <3>3. CASE x = Vote(msg.to, msg.id, Len(block[msg.id]))
      BY <1>3, <3>3, Messages
    <3>4. CASE \E m \in Reader : x = Subbatch(m, msg.id, Part(msg.id, m, ReplicaOf[m]))
      <4>1. PICK m \in Reader : x = Subbatch(m, msg.id, Part(msg.id, m, ReplicaOf[m]))
        BY <3>4
      <4>2. x.id = msg.id /\ x.to = m /\ x.items = Part(msg.id, m, ReplicaOf[m])
        BY <4>1, Messages
      <4>3. Rest(Part(msg.id, m, ReplicaOf[m]), msg.id, m, 0)
        BY <1>0, <3>2, PartFacts
      <4>4. Rest(x.items, x.id, x.to, 0)
        BY <4>2, <4>3
      <4>5. QED BY <1>0, <3>2, <4>2, <4>4, RestStays
    <3>5. QED BY <1>1, <1>3, <3>2, <3>3, <3>4
  <2>2. CASE Cuts
    <3>1. PICK m \in Machine, b \in Blucket : CutBlock(m, b)
      BY <2>2 DEF Cuts
    <3>2. x \in net \/ \E r \in Replica : x = Batch(BlucketMachine[b][r], NewId(m))
      BY <3>1 DEF CutBlock
    <3>3. QED BY <1>1, <1>3, <3>2, Messages
  <2>3. CASE Counts \/ Receives \/ Drops \/ Stops
    <3>1. net' \subseteq net
      BY <2>3 DEF Counts, Receives, Drops, Stops, HandleVote, HandleSubbatch, Drop, Stop
    <3>2. QED BY <1>1, <1>3, <3>1
  <2>4. CASE net' = net
    BY <1>1, <1>3, <2>4
  <2>5. QED BY <2>1, <2>2, <2>3, <2>4, Changes
<1>4. ASSUME NEW m \in Reader, NEW s \in subbatches'[m] PROVE Rest(s.items, s.id, m, 0)'
  <2>1. CASE Receives
    <3>1. PICK msg \in net : HandleSubbatch(msg)
      BY <2>1 DEF Receives
    <3>2. subbatches' = [subbatches EXCEPT ![msg.to] = @ \cup {[id |-> msg.id, items |-> msg.items]}]
          /\ msg.type = "SUBBATCH"
      BY <3>1 DEF HandleSubbatch, Handling
    <3>3. s \in subbatches[m] \/ (msg.to = m /\ s = [id |-> msg.id, items |-> msg.items])
      <4>1. CASE msg.to = m
        <5>1. subbatches'[m] = subbatches[m] \cup {[id |-> msg.id, items |-> msg.items]}
          BY <1>0, <3>2, <4>1 DEF ReaderTypes
        <5>2. QED BY <1>4, <4>1, <5>1
      <4>2. CASE msg.to # m
        <5>1. subbatches'[m] = subbatches[m]
          BY <1>0, <3>2, <4>2 DEF ReaderTypes
        <5>2. QED BY <1>4, <5>1
      <4>3. QED BY <4>1, <4>2
    <3>4. CASE msg.to = m /\ s = [id |-> msg.id, items |-> msg.items]
      <4>1. s.id = msg.id /\ s.items = msg.items
        BY <3>4
      <4>2. Rest(msg.items, msg.id, msg.to, 0)'
        BY <1>1, <3>2
      <4>3. QED BY <3>4, <4>1, <4>2 DEF Rest, Concerned, Recipients
    <3>5. QED BY <1>2, <3>3, <3>4
  <2>2. CASE Finds \/ GoesOn
    <3>1. PICK n \in Reader, items \in Seq(Item) : UsesItems(n, items)
      BY <2>2, FindsUse
    <3>2. s \in subbatches[m]
      BY <3>1 DEF UsesItems
    <3>3. QED BY <1>2, <3>2
  <2>3. CASE subbatches' = subbatches
    BY <1>2, <2>3
  <2>4. QED BY <2>1, <2>2, <2>3, Changes
<1>5. QED BY <1>3, <1>4 DEF ListsFit

LEMMA OneMessageStep ==
  ASSUME Types, IdsCounted, Subbatches, [Next]_vars
  PROVE  OneMessage'
<1>0. BlockTypes /\ NetTypes /\ OneMessage
  BY DEF Types, Subbatches, OneMessage
<1>1. CASE Batches
  <2>1. PICK msg \in net : HandleBatch(msg)
    BY <1>1 DEF Batches
  <2>2. /\ msg.id \in DOMAIN block /\ msg.to \in Machine /\ msg.type = "BATCH"
        /\ \A x \in net' : \/ x \in net
                           \/ x = Vote(msg.to, msg.id, Len(block[msg.id]))
                           \/ \E m \in Reader : /\ ReplicaOf[m] = ReplicaOf[msg.to]
                                                /\ x = Subbatch(m, msg.id, Part(msg.id, m, ReplicaOf[m]))
    BY <1>0, <2>1, BatchFacts
  <2>3. ASSUME NEW x \in net', x.type = "SUBBATCH"
        PROVE  \/ x \in net
               \/ /\ x.to \in Reader /\ ReplicaOf[x.to] = ReplicaOf[msg.to] /\ x.id = msg.id
                  /\ x = Subbatch(x.to, msg.id, Part(msg.id, x.to, ReplicaOf[x.to]))
    <3>1. CASE x = Vote(msg.to, msg.id, Len(block[msg.id]))
      BY <2>3, <3>1, Messages
    <3>2. CASE \E m \in Reader : /\ ReplicaOf[m] = ReplicaOf[msg.to]
                                 /\ x = Subbatch(m, msg.id, Part(msg.id, m, ReplicaOf[m]))
      <4>1. PICK m \in Reader : /\ ReplicaOf[m] = ReplicaOf[msg.to]
                                /\ x = Subbatch(m, msg.id, Part(msg.id, m, ReplicaOf[m]))
        BY <3>2
      <4>2. x.to = m /\ x.id = msg.id
        BY <4>1, Messages
      <4>3. QED BY <4>1, <4>2
    <3>3. QED BY <2>2, <3>1, <3>2
  <2>4. ASSUME NEW x \in net, NEW m \in Reader, x.type = "SUBBATCH", x.to = m, x.id = msg.id,
               ReplicaOf[m] = ReplicaOf[msg.to]
        PROVE  FALSE
    <3>1. OnItsWay(m, msg.id) /\ NotMade(m, msg.id)
      BY <2>2, <2>4 DEF OnItsWay, NotMade
    <3>2. QED BY <2>2, <3>1 DEF Subbatches, OnePlace
  <2>5. ASSUME NEW x \in net', NEW y \in net', x.type = "SUBBATCH", y.type = "SUBBATCH", x.to = y.to, x.id = y.id
        PROVE  x = y
    <3>1. CASE x \in net /\ y \in net
      BY <1>0, <2>5, <3>1 DEF OneMessage
    <3>2. CASE x \notin net
      <4>1. /\ x.to \in Reader /\ ReplicaOf[x.to] = ReplicaOf[msg.to] /\ x.id = msg.id
            /\ x = Subbatch(x.to, msg.id, Part(msg.id, x.to, ReplicaOf[x.to]))
        BY <2>3, <2>5, <3>2
      <4>2. y \notin net
        BY <2>4, <2>5, <4>1
      <4>3. y = Subbatch(y.to, msg.id, Part(msg.id, y.to, ReplicaOf[y.to]))
        BY <2>3, <2>5, <4>2
      <4>4. QED BY <2>5, <4>1, <4>3
    <3>3. CASE y \notin net
      <4>1. /\ y.to \in Reader /\ ReplicaOf[y.to] = ReplicaOf[msg.to] /\ y.id = msg.id
            /\ y = Subbatch(y.to, msg.id, Part(msg.id, y.to, ReplicaOf[y.to]))
        BY <2>3, <2>5, <3>3
      <4>2. x \notin net
        BY <2>4, <2>5, <4>1
      <4>3. x = Subbatch(x.to, msg.id, Part(msg.id, x.to, ReplicaOf[x.to]))
        BY <2>3, <2>5, <4>2
      <4>4. QED BY <2>5, <4>1, <4>3
    <3>4. QED BY <3>1, <3>2, <3>3
  <2>6. QED BY <2>5 DEF OneMessage
<1>2. CASE Cuts
  <2>1. PICK m \in Machine, b \in Blucket : CutBlock(m, b)
    BY <1>2 DEF Cuts
  <2>2. \A x \in net' : x \in net \/ \E r \in Replica : x = Batch(BlucketMachine[b][r], NewId(m))
    BY <2>1 DEF CutBlock
  <2>3. \A x \in net' : x.type = "SUBBATCH" => x \in net
    BY <2>2, Messages
  <2>4. QED BY <1>0, <2>3 DEF OneMessage
<1>3. CASE Counts \/ Receives \/ Drops \/ Stops
  <2>1. net' \subseteq net
    BY <1>3 DEF Counts, Receives, Drops, Stops, HandleVote, HandleSubbatch, Drop, Stop
  <2>2. QED BY <1>0, <2>1 DEF OneMessage
<1>4. CASE net' = net
  BY <1>0, <1>4 DEF OneMessage
<1>5. QED BY <1>1, <1>2, <1>3, <1>4, Changes

LEMMA PlacesStep ==
  ASSUME Types, IdsCounted, VotesInv, LogInv, Reading, Subbatches, [Next]_vars,
         NEW m \in Reader, NEW id \in DOMAIN block'
  PROVE  OnePlace(m, id)'
<1>0. BlockTypes /\ NetTypes /\ ReaderTypes /\ OneMessage /\ OneVoteEach
  BY DEF Types, Subbatches, OneMessage, VotesInv
<1>1. CASE Finds \/ GoesOn
  <2>1. PICK n \in Reader, items \in Seq(Item) : UsesItems(n, items)
    BY <1>1, FindsUse
  <2>2. UNCHANGED <<block, net, requested>>
    BY <1>1, FindsUse
  <2>3. OnePlace(m, id)
    BY <2>2 DEF Subbatches
  <2>4. (OnItsWay(m, id)' => OnItsWay(m, id)) /\ (NotMade(m, id)' => NotMade(m, id))
    BY <2>2 DEF OnItsWay, NotMade
  <2>5. CASE n = m /\ LastOf(items)
    <3>1. UsesItems(m, items) /\ LastOf(items)
      BY <2>1, <2>5
    <3>2. subbatches'[m] = {s \in subbatches[m] : s.id # current[m].id} /\ \E s \in subbatches[m] : s.id = current[m].id
      BY <3>1 DEF UsesItems
    <3>3. CASE id = current[m].id
      <4>1. Received(m, id) /\ ~ Received(m, id)'
        BY <3>2, <3>3 DEF Received
      <4>2. ~ OnItsWay(m, id)' /\ ~ NotMade(m, id)'
        BY <2>3, <2>4, <4>1 DEF OnePlace
      <4>3. QED BY <4>1, <4>2 DEF OnePlace
    <3>4. CASE id # current[m].id
      <4>1. Received(m, id)' => Received(m, id)
        BY <3>2 DEF Received
      <4>2. PICK d : d = Done(m)
        OBVIOUS
      <4>3. /\ d \in Nat /\ d + 1 \in DOMAIN requested
            /\ requested[d + 1].id = current[m].id /\ Done(m)' = d + 1
        BY <1>1, <3>1, <4>2, UsesDone
      <4>4. DOMAIN requested = 1 .. Len(requested) /\ Len(requested) \in Nat
        BY DoneFacts
      <4>5. \A i \in DOMAIN requested : i <= d + 1 => i <= d \/ i = d + 1
        BY <4>3, <4>4
      <4>6. Passed(m, id)' => Passed(m, id)
        BY <2>2, <3>4, <4>2, <4>3, <4>5 DEF Passed
      <4>7. QED BY <2>3, <2>4, <4>1, <4>6, PlacesKept
    <3>5. QED BY <3>3, <3>4
  <2>6. CASE ~ (n = m /\ LastOf(items))
    <3>1. subbatches'[m] = subbatches[m]
      BY <2>1, <2>6 DEF UsesItems
    <3>2. Received(m, id)' => Received(m, id)
      BY <3>1 DEF Received
    <3>3. Done(m)' = Done(m)
      <4>1. CASE n = m
        BY <1>1, <2>1, <2>6, <4>1, UsesDone
      <4>2. CASE n # m
        <5>1. current'[m] = current[m]
          BY <2>1, <4>2 DEF UsesItems
        <5>2. Taken(m)' = Taken(m)
          BY <1>1, FindsUse, TakenStays DEF Reading
        <5>3. QED BY <5>1, <5>2 DEF Done
      <4>3. QED BY <4>1, <4>2
    <3>4. Passed(m, id)' => Passed(m, id)
      BY <3>3, PassedStays
    <3>5. QED BY <2>3, <2>4, <3>2, <3>4, PlacesKept
  <2>7. QED BY <2>5, <2>6
<1>2. CASE ~ (Finds \/ GoesOn)
  <2>1. Passed(m, id)' => Passed(m, id)
    <3>1. Done(m)' = Done(m)
      BY <1>2, ReaderSteps DEF Rests
    <3>2. QED BY <3>1, PassedStays
  <2>2. Passed(m, id) => id \in DOMAIN block
    BY DEF Passed, LogInv, Numbered
  <2>3. Received(m, id) => id \in DOMAIN block
    BY <1>0 DEF Received, ReaderTypes
  <2>4. (OnItsWay(m, id) => id \in DOMAIN block) /\ (NotMade(m, id) => id \in DOMAIN block)
    BY <1>0 DEF OnItsWay, NotMade, NetTypes, IsMessage
  <2>5. OnePlace(m, id)
    <3>1. CASE id \in DOMAIN block
      BY <3>1 DEF Subbatches
    <3>2. CASE id \notin DOMAIN block
      BY <2>2, <2>3, <2>4, <3>2 DEF OnePlace
    <3>3. QED BY <3>1, <3>2
  <2>6. CASE Cuts
    <3>1. PICK c \in Machine, b \in Blucket : CutBlock(c, b)
      BY <2>6 DEF Cuts
    <3>2. /\ NewId(c) \notin DOMAIN block /\ UNCHANGED subbatches
          /\ \A x \in net' : x \in net \/ \E r \in Replica : x = Batch(BlucketMachine[b][r], NewId(c))
      BY <1>0, <3>1, CutFacts DEF CutBlock, readerVars
    <3>3. \A x \in net' : x.type = "SUBBATCH" => x \in net
      BY <3>2, Messages
    <3>4. (Received(m, id)' => Received(m, id)) /\ (OnItsWay(m, id)' => OnItsWay(m, id))
      BY <3>2, <3>3 DEF Received, OnItsWay
    <3>5. CASE id = NewId(c)
      <4>1. ~ Passed(m, id)' /\ ~ Received(m, id)' /\ ~ OnItsWay(m, id)'
        BY <2>1, <2>2, <2>3, <2>4, <3>2, <3>4, <3>5
      <4>2. QED BY <4>1 DEF OnePlace
    <3>6. CASE id # NewId(c)
      <4>1. \A x \in net' : x.id = id => x \in net
        BY <3>2, <3>6, Messages
      <4>2. NotMade(m, id)' => NotMade(m, id)
        BY <4>1 DEF NotMade
      <4>3. QED BY <2>1, <2>5, <3>4, <4>2, PlacesKept
    <3>7. QED BY <3>5, <3>6
  <2>7. CASE Batches
    <3>1. PICK msg \in net : HandleBatch(msg)
      BY <2>7 DEF Batches
    <3>2. /\ msg.id \in DOMAIN block /\ msg.to \in Machine /\ IsMessage(msg) /\ msg.type = "BATCH"
          /\ \A x \in net' : \/ x \in net /\ x # msg
                             \/ x = Vote(msg.to, msg.id, Len(block[msg.id]))
                             \/ \E n \in Reader : /\ ReplicaOf[n] = ReplicaOf[msg.to]
                                                  /\ x = Subbatch(n, msg.id, Part(msg.id, n, ReplicaOf[n]))
      BY <1>0, <3>1, BatchFacts
    <3>3. UNCHANGED subbatches
      BY <3>1 DEF HandleBatch, readerVars
    <3>4. Received(m, id)' => Received(m, id)
      BY <3>3 DEF Received
    <3>5. \A x \in net' : x.type = "BATCH" => x \in net /\ x # msg
      BY <3>2, Messages
    <3>6. NotMade(m, id)' => NotMade(m, id)
      BY <3>5 DEF NotMade
    <3>7. CASE id = msg.id /\ ReplicaOf[m] = ReplicaOf[msg.to]
      <4>1. NotMade(m, id)
        BY <3>2, <3>7 DEF NotMade
      <4>2. ~ Passed(m, id)' /\ ~ Received(m, id)'
        BY <2>1, <2>5, <3>4, <4>1 DEF OnePlace
      <4>3. ~ NotMade(m, id)'
        <5>1. SUFFICES ASSUME NEW x \in net', x.type = "BATCH", ReplicaOf[x.to] = ReplicaOf[m], x.id = id PROVE FALSE
          BY DEF NotMade
        <5>2. /\ x \in net /\ x # msg /\ Voting(x) /\ Voting(msg)
              /\ From(x) = ReplicaOf[x.to] /\ From(msg) = ReplicaOf[msg.to]
          BY <3>2, <3>5, <5>1 DEF Voting, From
        <5>3. QED BY <1>0, <3>7, <5>1, <5>2 DEF OneVoteEach
      <4>4. QED BY <4>2, <4>3 DEF OnePlace
    <3>8. CASE ~ (id = msg.id /\ ReplicaOf[m] = ReplicaOf[msg.to])
      <4>1. ASSUME NEW x \in net', x.type = "SUBBATCH", x.to = m, x.id = id PROVE x \in net
        <5>1. CASE x = Vote(msg.to, msg.id, Len(block[msg.id]))
          BY <4>1, <5>1, Messages
        <5>2. CASE \E n \in Reader : /\ ReplicaOf[n] = ReplicaOf[msg.to]
                                     /\ x = Subbatch(n, msg.id, Part(msg.id, n, ReplicaOf[n]))
          <6>1. PICK n \in Reader : /\ ReplicaOf[n] = ReplicaOf[msg.to]
                                    /\ x = Subbatch(n, msg.id, Part(msg.id, n, ReplicaOf[n]))
            BY <5>2
          <6>2. x.to = n /\ x.id = msg.id
            BY <6>1, Messages
          <6>3. QED BY <3>8, <4>1, <6>1, <6>2
        <5>3. QED BY <3>2, <5>1, <5>2
      <4>2. OnItsWay(m, id)' => OnItsWay(m, id)
        BY <4>1 DEF OnItsWay
      <4>3. QED BY <2>1, <2>5, <3>4, <3>6, <4>2, PlacesKept
    <3>9. QED BY <3>7, <3>8
  <2>8. CASE Receives
    <3>1. PICK msg \in net : HandleSubbatch(msg)
      BY <2>8 DEF Receives
    <3>2. /\ msg.type = "SUBBATCH" /\ net' = net \ {msg}
          /\ subbatches' = [subbatches EXCEPT ![msg.to] = @ \cup {[id |-> msg.id, items |-> msg.items]}]
      BY <3>1 DEF HandleSubbatch, Handling
    <3>3. (OnItsWay(m, id)' => OnItsWay(m, id)) /\ (NotMade(m, id)' => NotMade(m, id))
      BY <3>2 DEF OnItsWay, NotMade
    <3>4. CASE msg.to = m /\ msg.id = id
      <4>1. OnItsWay(m, id)
        BY <3>2, <3>4 DEF OnItsWay
      <4>2. ~ OnItsWay(m, id)'
        BY <1>0, <3>2, <3>4 DEF OneMessage, OnItsWay
      <4>3. ~ Passed(m, id)' /\ ~ NotMade(m, id)'
        BY <2>1, <2>5, <3>3, <4>1 DEF OnePlace
      <4>4. QED BY <4>2, <4>3 DEF OnePlace
    <3>5. CASE ~ (msg.to = m /\ msg.id = id)
      <4>1. ASSUME NEW s \in subbatches'[m], s.id = id PROVE s \in subbatches[m]
        <5>1. CASE msg.to = m
          <6>1. subbatches'[m] = subbatches[m] \cup {[id |-> msg.id, items |-> msg.items]}
            BY <1>0, <3>2, <5>1 DEF ReaderTypes
          <6>2. [id |-> msg.id, items |-> msg.items].id # id
            BY <3>5, <5>1
          <6>3. QED BY <4>1, <6>1, <6>2
        <5>2. CASE msg.to # m
          BY <1>0, <3>2, <4>1, <5>2 DEF ReaderTypes
        <5>3. QED BY <5>1, <5>2
      <4>2. Received(m, id)' => Received(m, id)
        BY <4>1 DEF Received
      <4>3. QED BY <2>1, <2>5, <3>3, <4>2, PlacesKept
    <3>6. QED BY <3>4, <3>5
  <2>9. CASE ~ (Cuts \/ Batches \/ Receives)
    <3>1. net' \subseteq net
      BY <2>9, Changes DEF Counts, Drops, Stops, HandleVote, Drop, Stop
    <3>2. subbatches' = subbatches
      BY <1>2, <2>9, Changes
    <3>3. (OnItsWay(m, id)' => OnItsWay(m, id)) /\ (NotMade(m, id)' => NotMade(m, id))
      BY <3>1 DEF OnItsWay, NotMade
    <3>4. Received(m, id)' => Received(m, id)
      BY <3>2 DEF Received
    <3>5. QED BY <2>1, <2>5, <3>3, <3>4, PlacesKept
  <2>10. QED BY <2>6, <2>7, <2>8, <2>9
<1>3. QED BY <1>1, <1>2

LEMMA SubbatchesStep ==
  ASSUME Types, IdsCounted, VotesInv, LogInv, Reading, Subbatches, [Next]_vars
  PROVE  Subbatches'
<1>1. ListsFit' /\ OneMessage'
  BY ListsStep, OneMessageStep
<1>2. \A m \in Reader, id \in DOMAIN block' : OnePlace(m, id)'
  BY PlacesStep
<1>3. QED BY <1>1, <1>2 DEF Subbatches, ListsFit, OneMessage

----------------------------------------------------------------------------
(***************************************************************************)
(* What a reader has handed over.                                          *)
(***************************************************************************)
LEMMA ReachedFacts ==
  ASSUME Types, LogInv, Reading, NEW m \in Reader
  PROVE  /\ Done(m) \in Nat /\ Reached(m) \in Nat
         /\ \A i \in Nat, j \in Nat \ {0} : i > 0 /\ WasHanded(m, i, j) => i \in DOMAIN requested
<1>0. ReadingOf(m) /\ ReaderTypes
  BY DEF Reading, Types
<1>1. PICK d, l : d = Done(m) /\ l = Len(requested)
  OBVIOUS
<1>2. d \in 0 .. l /\ l \in Nat /\ DOMAIN requested = 1 .. l
  BY <1>1, DoneFacts
<1>3. PICK o : o = Reached(m)
  OBVIOUS
<1>4. CASE subbatch[m] = << >>
  <2>1. o = 0
    BY <1>3, <1>4 DEF Reached
  <2>2. \A i \in Nat, j \in Nat \ {0} : i > 0 /\ WasHanded(m, i, j) => i \in DOMAIN requested
    BY <1>1, <1>2, <1>3, <2>1 DEF WasHanded
  <2>3. QED BY <1>1, <1>2, <1>3, <2>1, <2>2
<1>5. CASE subbatch[m] # << >>
  <2>1. o \in Nat
    <3>1. subbatch[m] \in Seq(Item)
      BY <1>0 DEF ReaderTypes
    <3>2. Head(subbatch[m]) \in Item
      BY <1>5, <3>1, TailFacts
    <3>3. QED BY <1>3, <1>5, <3>2 DEF Reached, Item
  <2>2. d + 1 <= l
    <3>1. current[m] # Idle
      BY <1>0, <1>5 DEF ReadingOf
    <3>2. PICK t : t = Taken(m)
      OBVIOUS
    <3>3. d = t - 1
      BY <1>1, <3>1, <3>2 DEF Done
    <3>4. t \in 0 .. Sequenced /\ Sequenced \in 0 .. l
      BY <1>0, <1>1, <3>2, TakenFacts
    <3>5. QED BY <1>2, <3>3, <3>4
  <2>3. \A i \in Nat, j \in Nat \ {0} : i > 0 /\ WasHanded(m, i, j) => i \in DOMAIN requested
    BY <1>1, <1>2, <2>2 DEF WasHanded
  <2>4. QED BY <1>1, <1>2, <1>3, <2>1, <2>3
<1>6. QED BY <1>4, <1>5

\* The parts of HandedInv.
HandedIsLogged(m) ==
  \A k \in DOMAIN handed[m] :
    \E i \in DOMAIN requested : \E j \in DOMAIN block[requested[i].id] :
      handed[m][k].action = block[requested[i].id][j] /\ WasHanded(m, i, j)

LoggedIsHanded(m) ==
  \A i \in DOMAIN requested : \A j \in DOMAIN block[requested[i].id] :
    Concerned(m, block[requested[i].id][j]) /\ WasHanded(m, i, j) => HandedTo(m, block[requested[i].id][j])

LEMMA HandedRests ==
  ASSUME Types, IdsCounted, VotesInv, LogInv, Reading, Subbatches, [Next]_vars, NEW m \in Reader,
         Rests(m), HandedIsLogged(m), LoggedIsHanded(m)
  PROVE  HandedIsLogged(m)' /\ LoggedIsHanded(m)'
<1>0. BlockGrows /\ RequestsGrow /\ BlockTypes /\ LogTypes
  BY BlocksGrow, RequestsInv DEF Types, LogInv
<1>1. \A i \in DOMAIN requested :
        /\ i \in DOMAIN requested' /\ requested'[i] = requested[i]
        /\ requested[i].id \in DOMAIN block /\ block'[requested[i].id] = block[requested[i].id]
        /\ block[requested[i].id] \in Seq(Action)
  BY <1>0 DEF RequestsGrow, BlockGrows, LogInv, Numbered, BlockTypes
<1>2. \A i, j : WasHanded(m, i, j)' <=> WasHanded(m, i, j)
  <2>1. PICK d, o : d = Done(m) /\ o = Reached(m)
    OBVIOUS
  <2>2. Done(m)' = d /\ Reached(m)' = o
    BY <2>1 DEF Rests
  <2>3. QED BY <2>1, <2>2 DEF WasHanded
<1>3. handed'[m] = handed[m]
  BY DEF Rests
<1>4. HandedIsLogged(m)'
  <2>1. ASSUME NEW k \in DOMAIN handed[m]
        PROVE  \E i \in DOMAIN requested' : \E j \in DOMAIN block'[requested'[i].id] :
                 handed[m][k].action = block'[requested'[i].id][j] /\ WasHanded(m, i, j)'
    <3>1. PICK i \in DOMAIN requested : \E j \in DOMAIN block[requested[i].id] :
            handed[m][k].action = block[requested[i].id][j] /\ WasHanded(m, i, j)
      BY DEF HandedIsLogged
    <3>2. PICK j \in DOMAIN block[requested[i].id] :
            handed[m][k].action = block[requested[i].id][j] /\ WasHanded(m, i, j)
      BY <3>1
    <3>3. WasHanded(m, i, j)'
      BY <1>2, <3>2
    <3>4. QED BY <1>1, <3>2, <3>3
  <2>2. QED BY <1>3, <2>1 DEF HandedIsLogged
<1>5. LoggedIsHanded(m)'
  <2>1. ASSUME NEW i \in DOMAIN requested', NEW j \in DOMAIN block'[requested'[i].id],
               Concerned(m, block'[requested'[i].id][j]), WasHanded(m, i, j)'
        PROVE  \E k \in DOMAIN handed'[m] : handed'[m][k].action = block'[requested'[i].id][j]
    <3>1. WasHanded(m, i, j)
      BY <1>2, <2>1
    <3>2. i \in Nat /\ i > 0 /\ j \in Nat \ {0}
      <4>1. requested' \in Seq(Pair)
        BY RequestsInv DEF LogInv
      <4>2. requested'[i].id \in DOMAIN block' /\ block'[requested'[i].id] \in Seq(Action)
        BY RequestsInv, BlockInv DEF LogInv, Numbered, BlockTypes, Types
      <4>3. QED BY <4>1, <4>2
    <3>3. i \in DOMAIN requested
      BY <3>1, <3>2, ReachedFacts
    <3>4. requested'[i] = requested[i] /\ block'[requested'[i].id] = block[requested[i].id]
      BY <1>1, <3>3
    <3>5. j \in DOMAIN block[requested[i].id] /\ Concerned(m, block[requested[i].id][j])
      BY <2>1, <3>4
    <3>6. HandedTo(m, block[requested[i].id][j])
      BY <3>1, <3>3, <3>5 DEF LoggedIsHanded
    <3>7. QED BY <1>3, <3>4, <3>6 DEF HandedTo
  <2>2. QED BY <2>1 DEF LoggedIsHanded, Concerned, Recipients, HandedTo
<1>6. QED BY <1>4, <1>5

\* A reader that goes on hands over the first of the items it is left with,
\* and nothing that concerns it lies before that one.
LEMMA HandedUses ==
  ASSUME Types, IdsCounted, VotesInv, LogInv, Reading, Subbatches, [Next]_vars, NEW m \in Reader,
         Finds \/ GoesOn, NEW items \in Seq(Item), UsesItems(m, items),
         HandedIsLogged(m), LoggedIsHanded(m)
  PROVE  HandedIsLogged(m)' /\ LoggedIsHanded(m)'
<1>0. BlockTypes /\ ReaderTypes /\ UNCHANGED <<block, requested>>
  BY FindsUse DEF Types
<1>1. PICK d, o, id : d = Done(m) /\ o = Reached(m) /\ id = current[m].id
  OBVIOUS
<1>2. /\ d \in Nat /\ o \in Nat /\ d + 1 \in DOMAIN requested /\ requested[d + 1].id = id
      /\ id \in DOMAIN block /\ block[id] \in Seq(Action) /\ Rest(items, id, m, o)
  <2>1. d \in Nat /\ d + 1 \in DOMAIN requested /\ requested[d + 1].id = id
    BY <1>1, UsesDone
  <2>2. id \in DOMAIN block
    BY <2>1 DEF LogInv, Numbered
  <2>3. o \in Nat
    BY <1>1, ReachedFacts
  <2>4. Rest(items, id, m, o)
    BY <1>1 DEF UsesItems
  <2>5. QED BY <1>0, <2>1, <2>2, <2>3, <2>4 DEF BlockTypes
<1>3. PICK e, p : e = Done(m)' /\ p = Reached(m)'
  OBVIOUS
<1>4. /\ LastOf(items) => e = d + 1 /\ p = 0
      /\ ~ LastOf(items) => e = d /\ p = Head(Tail(items)).offset
  BY <1>1, <1>3, UsesDone
<1>5. /\ \A i, j : WasHanded(m, i, j) <=> i <= d \/ (i = d + 1 /\ j <= o)
      /\ \A i, j : WasHanded(m, i, j)' <=> i <= e \/ (i = e + 1 /\ j <= p)
  BY <1>1, <1>3 DEF WasHanded
<1>6. items # << >> =>
        /\ Head(items) = items[1] /\ 1 \in DOMAIN items /\ Head(items).offset \in Nat /\ o <= Head(items).offset
        /\ \A k \in DOMAIN items : items[k].offset \in Nat /\ Head(items).offset <= items[k].offset
        /\ Tail(items) # << >> =>
             /\ Head(Tail(items)).offset \in Nat /\ Head(items).offset < Head(Tail(items)).offset
             /\ \A k \in DOMAIN items : k = 1 \/ Head(Tail(items)).offset <= items[k].offset
        /\ Tail(items) = << >> => DOMAIN items = {1}
  BY <1>0, <1>2, RestFacts
<1>7. \A i \in DOMAIN requested, j \in Nat : WasHanded(m, i, j) => WasHanded(m, i, j)'
  <2>1. DOMAIN requested = 1 .. Len(requested) /\ Len(requested) \in Nat
    BY DoneFacts
  <2>2. CASE LastOf(items)
    BY <1>2, <1>4, <1>5, <2>1, <2>2
  <2>3. CASE ~ LastOf(items)
    <3>1. e = d /\ p \in Nat /\ o <= p
      BY <1>2, <1>4, <1>6, <2>3 DEF LastOf
    <3>2. QED BY <1>2, <1>5, <2>1, <3>1
  <2>4. QED BY <2>2, <2>3
<1>8. handed[m] \in Seq(EntryHanded)
  BY <1>0 DEF ReaderTypes, EntryHanded
<1>9. /\ \A k \in DOMAIN handed[m] : k \in DOMAIN handed'[m] /\ handed'[m][k] = handed[m][k]
      /\ items # << >> =>
           /\ \E k \in DOMAIN handed'[m] : handed'[m][k].action = Head(items).action
           /\ \A k \in DOMAIN handed'[m] : k \in DOMAIN handed[m] \/ handed'[m][k].action = Head(items).action
      /\ items = << >> => handed'[m] = handed[m]
  <2>1. CASE items = << >>
    BY <2>1 DEF UsesItems
  <2>2. CASE items # << >>
    <3>1. PICK x : x = [action |-> Head(items).action, version |-> AsUint(current[m].version + Head(items).offset)]
      OBVIOUS
    <3>2. x \in EntryHanded /\ x.action = Head(items).action
      BY <1>0, <2>2, <3>1, HandedItem
    <3>3. handed'[m] = Append(handed[m], x)
      BY <2>2, <3>1 DEF UsesItems
    <3>4. PICK s : s = handed[m]
      OBVIOUS
    <3>5. /\ DOMAIN Append(s, x) = 1 .. (Len(s) + 1) /\ DOMAIN s = 1 .. Len(s) /\ Len(s) \in Nat
          /\ Append(s, x)[Len(s) + 1] = x
          /\ \A i \in 1 .. Len(s) : Append(s, x)[i] = s[i]
      BY <1>8, <3>2, <3>4, AppendFacts
    <3>6. \A n \in Nat : n + 1 \in 1 .. (n + 1) /\ \A i \in 1 .. (n + 1) : i \in 1 .. n \/ i = n + 1
      OBVIOUS
    <3>7. \A n \in Nat : \A i \in 1 .. n : i \in 1 .. (n + 1)
      OBVIOUS
    <3>8. QED BY <2>2, <3>2, <3>3, <3>4, <3>5, <3>6, <3>7
  <2>3. QED BY <2>1, <2>2
<1>10. HandedIsLogged(m)'
  <2>1. ASSUME NEW k \in DOMAIN handed'[m]
        PROVE  \E i \in DOMAIN requested : \E j \in DOMAIN block[requested[i].id] :
                 handed'[m][k].action = block[requested[i].id][j] /\ WasHanded(m, i, j)'
    <3>1. CASE k \in DOMAIN handed[m]
      <4>1. PICK i \in DOMAIN requested : \E j \in DOMAIN block[requested[i].id] :
              handed[m][k].action = block[requested[i].id][j] /\ WasHanded(m, i, j)
        BY <3>1 DEF HandedIsLogged
      <4>2. PICK j \in DOMAIN block[requested[i].id] :
              handed[m][k].action = block[requested[i].id][j] /\ WasHanded(m, i, j)
        BY <4>1
      <4>3. j \in Nat
        <5>1. block[requested[i].id] \in Seq(Action)
          BY <1>0 DEF LogInv, Numbered, BlockTypes
        <5>2. QED BY <5>1
      <4>4. WasHanded(m, i, j)'
        BY <1>7, <4>2, <4>3
      <4>5. QED BY <1>9, <3>1, <4>2, <4>4
    <3>2. CASE k \notin DOMAIN handed[m]
      <4>1. items # << >> /\ handed'[m][k].action = Head(items).action
        BY <1>9, <2>1, <3>2
      <4>2. PICK h : h = Head(items).offset
        OBVIOUS
      <4>3. /\ h \in Nat /\ o <= h /\ h + 1 \in DOMAIN block[id]
            /\ Head(items).action = block[id][h + 1]
        BY <1>2, <1>6, <4>1, <4>2 DEF Rest
      <4>4. WasHanded(m, d + 1, h + 1)'
        <5>1. CASE LastOf(items)
          BY <1>2, <1>4, <1>5, <5>1
        <5>2. CASE ~ LastOf(items)
          <6>1. e = d /\ p \in Nat /\ h < p
            BY <1>4, <1>6, <4>2, <5>2 DEF LastOf
          <6>2. QED BY <1>2, <1>5, <4>3, <6>1
        <5>3. QED BY <5>1, <5>2
      <4>5. QED BY <1>2, <4>1, <4>3, <4>4
    <3>3. QED BY <3>1, <3>2
  <2>2. QED BY <1>0, <2>1 DEF HandedIsLogged
<1>11. LoggedIsHanded(m)'
  <2>1. ASSUME NEW i \in DOMAIN requested, NEW j \in DOMAIN block[requested[i].id],
               Concerned(m, block[requested[i].id][j]), WasHanded(m, i, j)'
        PROVE  \E k \in DOMAIN handed'[m] : handed'[m][k].action = block[requested[i].id][j]
    <3>1. i \in Nat /\ i > 0 /\ j \in Nat /\ j > 0
      <4>1. block[requested[i].id] \in Seq(Action)
        BY <1>0 DEF LogInv, Numbered, BlockTypes
      <4>2. DOMAIN requested = 1 .. Len(requested) /\ Len(requested) \in Nat
        BY DoneFacts
      <4>3. QED BY <4>1, <4>2
    <3>2. CASE WasHanded(m, i, j)
      <4>1. HandedTo(m, block[requested[i].id][j])
        BY <2>1, <3>2 DEF LoggedIsHanded
      <4>2. QED BY <1>9, <4>1 DEF HandedTo
    <3>3. CASE ~ WasHanded(m, i, j)
      <4>1. /\ i = d + 1 /\ j > o
            /\ ~ LastOf(items) => j <= p
        <5>1. CASE LastOf(items)
          BY <1>2, <1>4, <1>5, <2>1, <3>1, <3>3, <5>1
        <5>2. CASE ~ LastOf(items)
          <6>1. e = d /\ p \in Nat
            BY <1>4, <1>6, <5>2 DEF LastOf
          <6>2. QED BY <1>2, <1>5, <2>1, <3>1, <3>3, <5>2, <6>1
        <5>3. QED BY <5>1, <5>2
      <4>2. requested[i].id = id
        BY <1>2, <4>1
      <4>3. PICK k \in DOMAIN items : items[k].offset = j - 1
        BY <1>2, <2>1, <4>1, <4>2 DEF Rest
      <4>4. items[k].action = block[id][j]
        <5>1. items[k].action = block[id][items[k].offset + 1]
          BY <1>2 DEF Rest
        <5>2. j - 1 + 1 = j
          BY <3>1
        <5>3. QED BY <4>3, <5>1, <5>2
      <4>5. items # << >>
        BY <4>3
      <4>6. k = 1
        <5>1. CASE Tail(items) = << >>
          BY <1>6, <4>5, <5>1
        <5>2. CASE Tail(items) # << >>
          <6>1. ~ LastOf(items) /\ p = Head(Tail(items)).offset /\ p \in Nat /\ j <= p
            BY <1>4, <1>6, <4>1, <4>5, <5>2 DEF LastOf
          <6>2. PICK q : q = j - 1
            OBVIOUS
          <6>3. k = 1 \/ p <= q
            BY <1>6, <4>3, <4>5, <5>2, <6>1, <6>2
          <6>4. ~ (p <= q)
            <7>1. \A x, y \in Nat : y <= x => ~ (x <= y - 1)
              OBVIOUS
            <7>2. p \in Nat /\ j \in Nat /\ j <= p
              BY <3>1, <6>1
            <7>3. QED BY <6>2, <7>1, <7>2
          <6>5. QED BY <6>3, <6>4
        <5>3. QED BY <5>1, <5>2
      <4>7. QED BY <1>6, <1>9, <4>2, <4>4, <4>5, <4>6
    <3>4. QED BY <3>2, <3>3
  <2>2. QED BY <1>0, <2>1 DEF LoggedIsHanded, Concerned, Recipients, HandedTo
<1>12. QED BY <1>10, <1>11

LEMMA HandedStep ==
  ASSUME Types, IdsCounted, VotesInv, LogInv, Reading, Subbatches, HandedInv, [Next]_vars
  PROVE  HandedInv'
<1>1. ASSUME NEW m \in Reader PROVE HandedIsLogged(m)' /\ LoggedIsHanded(m)'
  <2>1. HandedIsLogged(m) /\ LoggedIsHanded(m)
    BY DEF HandedInv, HandedIsLogged, LoggedIsHanded
  <2>2. CASE Rests(m)
    BY <2>1, <2>2, HandedRests
  <2>3. CASE (Finds \/ GoesOn) /\ \E items \in Seq(Item) : UsesItems(m, items)
    <3>1. PICK items \in Seq(Item) : UsesItems(m, items)
      BY <2>3
    <3>2. QED BY <2>1, <2>3, <3>1, HandedUses
  <2>4. QED BY <2>2, <2>3, ReaderSteps
<1>2. QED BY <1>1 DEF HandedInv, HandedIsLogged, LoggedIsHanded

----------------------------------------------------------------------------
(***************************************************************************)
(* The invariant is inductive.                                             *)
(***************************************************************************)
LEMMA InitTypes ==
  ASSUME Init
  PROVE  Types
<1>0. DOMAIN << >> = {} /\ (\A S : << >> \in Seq(S)) /\ Len(<< >>) = 0
  OBVIOUS
<1>1. AppTypes
  BY <1>0 DEF Init, AppTypes
<1>2. BlockTypes /\ StoreTypes /\ NetTypes
  <2>1. block = << >> /\ votes = << >> /\ net = {} /\ stored = [m \in Machine |-> {}]
    BY DEF Init
  <2>2. QED BY <1>0, <2>1 DEF BlockTypes, StoreTypes, NetTypes
<1>3. LogTypes
  <2>1. requested = << >> /\ versions = << >> /\ chosen = << >> /\ learned = [r \in Replica |-> 0]
    BY DEF Init
  <2>2. learned \in [Replica -> 0 .. 0]
    BY <2>1
  <2>3. Len(chosen) = 0
    BY <1>0, <2>1
  <2>4. QED BY <1>0, <2>1, <2>2, <2>3 DEF LogTypes
<1>4. ReaderTypes
  <2>1. source \in [Reader -> [entries : Nat, next : Nat, offset : Int]]
    BY DEF Init
  <2>2. subbatches \in [Reader -> SUBSET [id : DOMAIN block, items : Seq(Item)]]
    BY DEF Init
  <2>3. current \in [Reader -> [id : BlockId \cup {NoBlock}, version : Nat]]
    <3>1. current = [m \in Reader |-> Idle]
      BY DEF Init
    <3>2. QED BY <3>1, IdleFacts
  <2>4. /\ subbatch \in [Reader -> Seq(Item)]
        /\ handed \in [Reader -> Seq([action : Action, version : Nat])]
    BY <1>0 DEF Init
  <2>5. QED BY <2>1, <2>2, <2>3, <2>4 DEF ReaderTypes
<1>5. QED BY <1>1, <1>2, <1>3, <1>4 DEF Types

LEMMA InitIsIInv ==
  ASSUME Init
  PROVE  IInv
<1>0. DOMAIN << >> = {} /\ Len(<< >>) = 0 /\ \A x \in {} : FALSE
  OBVIOUS
<1>1. /\ block = << >> /\ requested = << >> /\ versions = << >> /\ chosen = << >> /\ net = {}
      /\ queue = [m \in Machine |-> << >>]
      /\ learned = [r \in Replica |-> 0]
  BY DEF Init
<1>2. \A m \in Reader : /\ source[m] = [entries |-> 0, next |-> 0, offset |-> 0] /\ subbatches[m] = {}
                        /\ current[m] = Idle /\ subbatch[m] = << >> /\ handed[m] = << >>
  BY DEF Init
<1>3. IdsCounted
  <2>1. \A m \in Machine : IdsOf(m) = {}
    BY <1>0, <1>1 DEF IdsOf
  <2>2. QED BY <2>1, FS_EmptySet DEF IdsCounted
<1>4. ActionsOnce
  <2>1. \A m \in Machine : DOMAIN queue[m] = {}
    BY <1>0, <1>1
  <2>2. DOMAIN block = {}
    BY <1>0, <1>1
  <2>3. QED BY <2>1, <2>2 DEF ActionsOnce
<1>5. VotesInv
  BY <1>0, <1>1 DEF VotesInv, OneVoteEach
<1>6. LogInv
  BY <1>0, <1>1 DEF LogInv, Numbered, EntriesInv
<1>7. Reading
  <2>1. ASSUME NEW m \in Reader PROVE ReadingOf(m)
    <3>1. source[m].entries = 0 /\ source[m].next = 0 /\ learned[ReplicaOf[m]] = 0
      BY <1>1, <1>2, Machines
    <3>2. QED BY <1>2, <3>1 DEF ReadingOf
  <2>2. QED BY <2>1 DEF Reading
<1>8. Subbatches
  BY <1>0, <1>1, <1>2 DEF Subbatches
<1>9. HandedInv
  <2>1. ASSUME NEW m \in Reader PROVE DOMAIN handed[m] = {} /\ DOMAIN requested = {}
    BY <1>0, <1>1, <1>2
  <2>2. QED BY <2>1 DEF HandedInv
<1>10. QED BY <1>3, <1>4, <1>5, <1>6, <1>7, <1>8, <1>9, InitTypes DEF IInv

LEMMA IInvIsInductive ==
  ASSUME IInv, [Next]_vars
  PROVE  IInv'
<1>1. Types /\ IdsCounted /\ ActionsOnce /\ VotesInv /\ LogInv /\ Reading /\ Subbatches /\ HandedInv
  BY DEF IInv
<1>2. Types'
  BY <1>1, TypesInv
<1>3. IdsCounted' /\ ActionsOnce'
  BY <1>1, BlockInv, ActionsInv DEF Types
<1>4. VotesInv' /\ LogInv'
  BY <1>1, VotesStep, RequestsInv, EntriesStep DEF LogInv
<1>5. Reading' /\ Subbatches' /\ HandedInv'
  BY <1>1, ReadingStep, SubbatchesStep, HandedStep
<1>6. QED BY <1>2, <1>3, <1>4, <1>5 DEF IInv

\* The invariant holds in every reachable state of the block log.
THEOREM IInvHolds == Spec => []IInv
<1>1. Init => IInv
  BY InitIsIInv
<1>2. IInv /\ [Next]_vars => IInv'
  BY IInvIsInductive
<1>3. QED BY <1>1, <1>2, PTL DEF Spec

----------------------------------------------------------------------------
(***************************************************************************)
(* What it implies.                                                        *)
(***************************************************************************)
LEMMA TypesAreTypeOK ==
  ASSUME Types
  PROVE  TypeOK
BY DEF Types, TypeOK, AppTypes, BlockTypes, NetTypes, IsMessage, StoreTypes, LogTypes, ReaderTypes

\* Fewer votes than replicas are counted, so as long as no machine has
\* stopped another one is awaited.
LEMMA VotesAreAwaited ==
  ASSUME IInv
  PROVE  VotesAreForgotten
<1>0. StoreTypes /\ VotesInv
  BY DEF IInv, Types
<1>1. SUFFICES ASSUME NEW id \in DOMAIN votes, NoStop
               PROVE  \E msg \in net : msg.id = id /\ msg.type \in {"BATCH", "VOTE"}
  BY DEF VotesAreForgotten, NoStop
<1>2. id \in DOMAIN block /\ votes[id] \in 1 .. Cardinality(Replica) - 1
  BY <1>0, <1>1 DEF StoreTypes
<1>3. votes[id] + Cardinality(Awaited(id)) = Cardinality(Replica)
  BY <1>0, <1>1, <1>2 DEF VotesInv, VotesOf
<1>4. Awaited(id) # {}
  <2>1. Cardinality({}) = 0
    BY FS_EmptySet
  <2>2. PICK n, v : n = Cardinality(Replica) /\ v = votes[id]
    OBVIOUS
  <2>3. n \in Nat /\ v \in 1 .. n - 1 /\ v + Cardinality(Awaited(id)) = n
    BY <1>2, <1>3, <2>2, Machines
  <2>4. QED BY <2>1, <2>3
<1>5. QED BY <1>4 DEF Awaited, Voting

\* What a sub-batch lists and what a reader has handed over lie in different
\* blocks, unless the reader is in the middle of the sub-batch's block.
LEMMA UsedIsErased ==
  ASSUME IInv
  PROVE  UsedSubbatchesAreErased
<1>0. ReaderTypes /\ BlockTypes /\ Reading /\ LogInv /\ Types
  BY DEF IInv, Types
<1>1. SUFFICES ASSUME NEW m \in Reader, NEW s \in subbatches[m], s.id # current[m].id,
                      NEW i \in DOMAIN s.items, NEW j \in DOMAIN handed[m],
                      handed[m][j].action = s.items[i].action
               PROVE  FALSE
  BY DEF UsedSubbatchesAreErased
<1>2. s.id \in DOMAIN block /\ Rest(s.items, s.id, m, 0) /\ ~ Passed(m, s.id)
  <2>1. s.id \in DOMAIN block
    BY <1>0 DEF ReaderTypes
  <2>2. Received(m, s.id)
    BY DEF Received
  <2>3. QED BY <2>1, <2>2 DEF IInv, Subbatches, OnePlace
<1>3. PICK n \in DOMAIN requested : \E k \in DOMAIN block[requested[n].id] :
        handed[m][j].action = block[requested[n].id][k] /\ WasHanded(m, n, k)
  BY DEF IInv, HandedInv
<1>4. PICK k \in DOMAIN block[requested[n].id] :
        handed[m][j].action = block[requested[n].id][k] /\ WasHanded(m, n, k)
  BY <1>3
<1>5. requested[n].id = s.id
  <2>1. /\ s.items[i].offset + 1 \in DOMAIN block[s.id]
        /\ s.items[i].action = block[s.id][s.items[i].offset + 1]
    BY <1>2 DEF Rest
  <2>2. requested[n].id \in DOMAIN block
    BY <1>0 DEF LogInv, Numbered
  <2>3. PICK l \in DOMAIN block[s.id] : s.items[i].action = block[s.id][l]
    BY <2>1
  <2>4. block[requested[n].id][k] = block[s.id][l]
    BY <1>1, <1>4, <2>3
  <2>5. \A d, e \in DOMAIN block : \A x \in DOMAIN block[d], y \in DOMAIN block[e] : block[d][x] = block[e][y] => d = e
    BY DEF IInv, ActionsOnce
  <2>6. QED BY <1>2, <2>2, <2>4, <2>5
<1>6. n = Done(m) + 1 /\ k <= Reached(m)
  BY <1>2, <1>4, <1>5 DEF WasHanded, Passed
<1>7. k \in Nat /\ k > 0
  <2>1. block[requested[n].id] \in Seq(Action)
    BY <1>0 DEF LogInv, Numbered, BlockTypes
  <2>2. QED BY <1>4, <2>1
<1>8. subbatch[m] # << >>
  <2>1. subbatch[m] = << >> => Reached(m) = 0
    BY DEF Reached
  <2>2. QED BY <1>6, <1>7, <2>1
<1>9. current[m] # Idle /\ current[m].id = requested[Taken(m)].id
  BY <1>0, <1>8 DEF Reading, ReadingOf
<1>10. n = Taken(m)
  <2>1. PICK t : t = Taken(m)
    OBVIOUS
  <2>2. t \in 0 .. Sequenced /\ Sequenced \in 0 .. Len(requested) /\ Len(requested) \in Nat
    BY <1>0, <2>1, TakenFacts DEF Reading
  <2>3. n = t - 1 + 1
    BY <1>6, <1>9, <2>1 DEF Done
  <2>4. QED BY <2>1, <2>2, <2>3
<1>11. QED BY <1>1, <1>5, <1>9, <1>10

\* The variables have their types, a vote counter is kept only while votes
\* are outstanding, and a sub-batch only until it is used up: HandleVote and
\* ActionSource::Get give back what they hold.
THEOREM ConsistentHolds == Spec => []Consistent
<1>1. IInv => Consistent
  <2>1. IInv => Types
    BY DEF IInv
  <2>2. QED BY <2>1, TypesAreTypeOK, VotesAreAwaited, UsedIsErased DEF Consistent
<1>2. QED BY <1>1, IInvHolds, PTL

\* A block that has its place in the metalog is in the block stores of a
\* majority of replicas: the leader appends it with the majority's vote, and
\* a machine votes for what it has stored.
THEOREM SequencedIsStoredHolds == Spec => []SequencedIsStored
<1>1. IInv => SequencedIsStored
  <2>1. SUFFICES ASSUME IInv, NEW i \in DOMAIN requested
                 PROVE  2 * Cardinality({ReplicaOf[m] : m \in {n \in Machine : requested[i].id \in stored[n]}})
                          > Cardinality(Replica)
    BY DEF SequencedIsStored
  <2>2. requested[i].id \in DOMAIN block /\ IsRequested(requested[i].id)
    BY <2>1 DEF IInv, LogInv, Numbered, IsRequested
  <2>3. 2 * Cardinality(Holders(requested[i].id)) > Cardinality(Replica)
    BY <2>1, <2>2 DEF IInv, VotesInv, VotesOf
  <2>4. QED BY <2>3 DEF Holders
<1>2. QED BY <1>1, IInvHolds, PTL

----------------------------------------------------------------------------
(***************************************************************************)
(* The block log uses the metalog as SequencedLog has it.                  *)
(***************************************************************************)
LEMMA ChoosesOnce ==
  ASSUME IInv, NEW k \in DOMAIN requested, ChooseEntry(k)
  PROVE  Metalog!AbsNext
<1>0. BlockTypes /\ LogTypes /\ LogInv /\ Numbered
  BY DEF IInv, Types, LogInv
<1>1. PICK e : e = [version |-> versions[Sequenced + 1], pairs |-> SubSeq(requested, Sequenced + 1, k)]
  OBVIOUS
<1>2. /\ e \in [version : Nat, pairs : Seq(Pair)] /\ e.version = versions[Sequenced + 1]
      /\ Sequenced + 1 \in 1 .. k /\ k \in 1 .. Len(requested)
      /\ chosen' = Append(chosen, e) /\ Len(chosen') = Len(chosen) + 1 /\ chosen'[Len(chosen) + 1] = e
      /\ DOMAIN e.pairs = 1 .. (k - Sequenced)
      /\ \A j \in DOMAIN e.pairs : e.pairs[j] = requested[Sequenced + j]
  BY <1>0, <1>1, ChooseFacts
<1>3. PICK q, l : q = Sequenced /\ l = Len(requested)
  OBVIOUS
<1>4. /\ q \in Nat /\ l \in Nat /\ q + 1 \in 1 .. l /\ k \in q + 1 .. l
      /\ DOMAIN requested = 1 .. l /\ DOMAIN versions = 1 .. l
  BY <1>0, <1>2, <1>3, SequencedFacts, VersionsIncrease
<1>5. ASSUME NEW i \in DOMAIN chosen
      PROVE  /\ chosen[i].version < e.version
             /\ \A j \in DOMAIN e.pairs : ~ Metalog!InEntry(chosen[i], e.pairs[j])
  <2>1. PICK b, f : b = Begins(i) /\ f = Ends(i)
    OBVIOUS
  <2>2. /\ b \in 1 .. l /\ f \in b .. l /\ f <= q
        /\ DOMAIN chosen[i].pairs = 1 .. (f - b + 1)
    BY <1>0, <1>3, <2>1, EntryFacts, SequencedFacts
  <2>3. /\ chosen[i].version = versions[b]
        /\ \A x \in DOMAIN chosen[i].pairs : chosen[i].pairs[x] = requested[b + x - 1]
    BY <1>0, <2>1 DEF LogInv, EntriesInv
  <2>4. chosen[i].version < e.version
    <3>1. b \in 1 .. l /\ b < q + 1
      BY <1>4, <2>2
    <3>2. QED BY <1>0, <1>2, <1>3, <1>4, <2>3, <3>1, VersionsIncrease
  <2>5. ASSUME NEW j \in DOMAIN e.pairs, NEW x \in DOMAIN chosen[i].pairs, chosen[i].pairs[x] = e.pairs[j]
        PROVE  FALSE
    <3>1. b + x - 1 \in 1 .. l /\ q + j \in 1 .. l /\ b + x - 1 < q + j
      <4>1. j \in 1 .. (k - q)
        BY <1>2, <1>3
      <4>2. x \in 1 .. (f - b + 1)
        BY <2>2
      <4>3. b \in 1 .. l /\ f \in b .. l /\ f <= q
        BY <2>2
      <4>4. QED BY <1>4, <4>1, <4>2, <4>3
    <3>2. requested[b + x - 1] = requested[q + j]
      BY <1>2, <1>3, <2>3, <2>5
    <3>3. requested[b + x - 1].id # requested[q + j].id
      BY <1>0, <1>4, <3>1 DEF Numbered
    <3>4. QED BY <3>2, <3>3
  <2>6. QED BY <2>4, <2>5 DEF Metalog!InEntry
<1>6. UNCHANGED learned
  BY DEF ChooseEntry
<1>7. Metalog!Choose(e)
  BY <1>2, <1>5, <1>6 DEF Metalog!Choose, Metalog!Entry
<1>8. chosen'[Len(chosen')] = e
  BY <1>2
<1>9. QED BY <1>2, <1>7, <1>8 DEF Metalog!AbsNext

\* The leader's machines append a block to the metalog at most once and never
\* out of turn: the block log's use of the metalog, vote by vote, implements
\* SequencedLog, which is what Paxos2 implements from below.
THEOREM UsesMetalogOnceHolds == Spec => UsesMetalogOnce
<1>1. Init => Metalog!AbsInit
  BY DEF Init, Metalog!AbsInit
<1>2. ASSUME IInv, [Next]_vars PROVE [Metalog!AbsNext]_(Metalog!absVars)
  <2>1. CASE \E k \in DOMAIN requested : ChooseEntry(k)
    BY <1>2, <2>1, ChoosesOnce
  <2>2. CASE \E r \in Replica : LearnEntry(r)
    <3>1. PICK r \in Replica : LearnEntry(r)
      BY <2>2
    <3>2. Metalog!Learn(r)
      BY <3>1 DEF LearnEntry, Metalog!Learn
    <3>3. QED BY <3>2 DEF Metalog!AbsNext
  <2>3. CASE UNCHANGED <<chosen, learned>>
    BY <2>3 DEF Metalog!absVars
  <2>4. QED BY <1>2, <2>1, <2>2, <2>3, Changes
<1>3. QED BY <1>1, <1>2, IInvHolds, PTL DEF Spec, UsesMetalogOnce, Metalog!AbsSpec

----------------------------------------------------------------------------
(***************************************************************************)
(* Versions.  The metalog carries them as ints, so they are right as long  *)
(* as an int holds them.                                                   *)
(***************************************************************************)
NoOverflow == \A i \in DOMAIN versions : versions[i] + requested[i].count < IntLimit

\* The j-th action of the i-th block.
Logged(i, j) == [action |-> block[requested[i].id][j], version |-> versions[i] + j - 1]

IsPlace(i, j) == i \in DOMAIN requested /\ j \in DOMAIN block[requested[i].id]

NumberedOn ==
  \A i \in DOMAIN versions : versions[i] = IF i = 1 THEN 1 ELSE versions[i - 1] + requested[i - 1].count

VersionsOf(m) ==
  /\ current[m] # Idle => current[m].version = versions[Taken(m)]
  /\ source[m].next # 0 => Taken(m) + 1 \in DOMAIN versions /\ source[m].offset = versions[Taken(m) + 1]
  /\ \A k \in DOMAIN handed[m] : \E i, j : IsPlace(i, j) /\ handed[m][k] = Logged(i, j)

VersionsInv == NumberedOn /\ \A m \in Reader : VersionsOf(m)

LEMMA PlaceFacts ==
  ASSUME BlockTypes, LogTypes, LogInv, NEW i, NEW j, IsPlace(i, j)
  PROVE  /\ i \in 1 .. Len(requested) /\ Len(requested) \in Nat /\ i \in DOMAIN versions
         /\ j \in 1 .. requested[i].count /\ requested[i].count \in Nat /\ versions[i] \in Nat
         /\ versions[i] + requested[i].count \in Nat
         /\ requested[i].id \in DOMAIN block /\ block[requested[i].id][j] \in Action
         /\ Logged(i, j) \in EntryHanded /\ Logged(i, j).action = block[requested[i].id][j]
         /\ Logged(i, j).version = versions[i] + j - 1
<1>1. /\ i \in 1 .. Len(requested) /\ Len(requested) \in Nat /\ i \in DOMAIN versions
      /\ requested[i].count \in Nat /\ versions[i] \in Nat
  BY VersionsIncrease DEF IsPlace, LogInv
<1>2. requested[i].id \in DOMAIN block /\ requested[i].count = Len(block[requested[i].id])
  BY DEF IsPlace, LogInv, Numbered
<1>3. block[requested[i].id] \in Seq(Action)
  BY <1>2 DEF BlockTypes
<1>4. j \in 1 .. requested[i].count /\ block[requested[i].id][j] \in Action
  BY <1>2, <1>3 DEF IsPlace
<1>5. versions[i] + j - 1 \in Nat /\ versions[i] + requested[i].count \in Nat
  BY <1>1, <1>4
<1>6. QED BY <1>1, <1>2, <1>4, <1>5 DEF Logged, EntryHanded

\* The log is in the order of the places: no version and no action is at two
\* of them.
LEMMA LogOrder ==
  ASSUME IInv, NEW i, NEW j, NEW k, NEW l, IsPlace(i, j), IsPlace(k, l)
  PROVE  /\ i < k => Logged(i, j).version < Logged(k, l).version
         /\ i = k /\ j < l => Logged(i, j).version < Logged(k, l).version
         /\ Logged(i, j).action = Logged(k, l).action => i = k /\ j = l
<1>0. BlockTypes /\ LogTypes /\ LogInv /\ Numbered /\ ActionsOnce
  BY DEF IInv, Types, LogInv
<1>1. /\ i \in Nat /\ j \in 1 .. requested[i].count /\ requested[i].count \in Nat /\ versions[i] \in Nat
      /\ requested[i].id \in DOMAIN block /\ Logged(i, j).action = block[requested[i].id][j]
      /\ Logged(i, j).version = versions[i] + j - 1
  BY <1>0, PlaceFacts
<1>2. /\ k \in Nat /\ l \in 1 .. requested[k].count /\ requested[k].count \in Nat /\ versions[k] \in Nat
      /\ requested[k].id \in DOMAIN block /\ Logged(k, l).action = block[requested[k].id][l]
      /\ Logged(k, l).version = versions[k] + l - 1
  BY <1>0, PlaceFacts
<1>3. ASSUME i < k PROVE Logged(i, j).version < Logged(k, l).version
  <2>1. versions[i] + requested[i].count <= versions[k]
    BY <1>0, <1>3 DEF Numbered, IsPlace
  <2>2. QED BY <1>1, <1>2, <2>1
<1>4. ASSUME i = k, j < l PROVE Logged(i, j).version < Logged(k, l).version
  BY <1>1, <1>2, <1>4
<1>5. ASSUME Logged(i, j).action = Logged(k, l).action PROVE i = k /\ j = l
  <2>1. requested[i].id = requested[k].id /\ j = l
    <3>1. \A d, e \in DOMAIN block : \A x \in DOMAIN block[d], y \in DOMAIN block[e] :
            block[d][x] = block[e][y] => d = e /\ x = y
      BY <1>0 DEF ActionsOnce
    <3>2. j \in DOMAIN block[requested[i].id] /\ l \in DOMAIN block[requested[k].id]
      BY DEF IsPlace
    <3>3. block[requested[i].id][j] = block[requested[k].id][l]
      BY <1>1, <1>2, <1>5
    <3>4. QED BY <1>1, <1>2, <3>1, <3>2, <3>3
  <2>2. ~ (i < k) /\ ~ (k < i)
    BY <1>0, <2>1 DEF Numbered, IsPlace
  <2>3. QED BY <1>1, <1>2, <2>1, <2>2
<1>6. QED BY <1>3, <1>4, <1>5

LEMMA PlacesStay ==
  ASSUME IInv, [Next]_vars, NEW i, NEW j, IsPlace(i, j)
  PROVE  IsPlace(i, j)' /\ Logged(i, j)' = Logged(i, j)
<1>1. BlockGrows /\ RequestsGrow
  BY BlocksGrow, RequestsInv DEF IInv, Types, LogInv
<1>2. requested'[i] = requested[i] /\ versions'[i] = versions[i] /\ i \in DOMAIN requested'
  BY <1>1 DEF RequestsGrow, IsPlace
<1>3. block'[requested[i].id] = block[requested[i].id]
  BY <1>1 DEF BlockGrows, IInv, LogInv, Numbered, IsPlace
<1>4. QED BY <1>2, <1>3 DEF IsPlace, Logged

LEMMA NumberedOnStep ==
  ASSUME IInv, NumberedOn, [Next]_vars
  PROVE  NumberedOn'
<1>0. BlockTypes /\ NetTypes /\ StoreTypes /\ LogTypes /\ VotesInv /\ Numbered /\ RequestsGrow
  BY RequestsInv DEF IInv, Types, LogInv
<1>1. /\ DOMAIN versions = 1 .. Len(requested) /\ DOMAIN requested = 1 .. Len(requested)
      /\ Len(requested) \in Nat /\ versions \in Seq(Nat) /\ Len(versions) = Len(requested)
  BY <1>0, VersionsIncrease DEF LogTypes, Numbered
<1>2. PICK n : n = Len(requested)
  OBVIOUS
<1>3. CASE UNCHANGED <<requested, versions>>
  BY <1>3 DEF NumberedOn
<1>4. CASE Counts /\ ~ UNCHANGED <<requested, versions>>
  <2>1. PICK msg \in net : HandleVote(msg)
    BY <1>4 DEF Counts
  <2>2. versions' = Append(versions, NextVersion) /\ NextVersion \in Nat
    BY <1>0, <1>4, <2>1, CountFacts, NextVersionFacts
  <2>3. /\ DOMAIN versions' = 1 .. (n + 1) /\ versions'[n + 1] = NextVersion
        /\ \A i \in 1 .. n : versions'[i] = versions[i]
    BY <1>1, <1>2, <2>2, AppendFacts
  <2>4. NextVersion = IF n = 0 THEN 1 ELSE versions[n] + requested[n].count
    <3>1. requested = << >> <=> n = 0
      BY <1>0, <1>2 DEF LogTypes
    <3>2. Last(versions) = versions[n] /\ Last(requested) = requested[n]
      BY <1>1, <1>2 DEF Last
    <3>3. QED BY <3>1, <3>2 DEF NextVersion
  <2>5. ASSUME NEW i \in 1 .. (n + 1)
        PROVE  versions'[i] = IF i = 1 THEN 1 ELSE versions'[i - 1] + requested'[i - 1].count
    <3>1. i # 1 => i - 1 \in 1 .. n
      BY <1>1, <1>2
    <3>2. i # 1 => versions'[i - 1] = versions[i - 1] /\ requested'[i - 1] = requested[i - 1]
      BY <1>0, <1>1, <1>2, <3>1 DEF RequestsGrow
    <3>3. CASE i = n + 1
      <4>1. i - 1 = n /\ (i = 1 <=> n = 0)
        BY <1>1, <1>2, <3>3
      <4>2. QED BY <2>3, <2>4, <3>2, <3>3, <4>1
    <3>4. CASE i # n + 1
      <4>1. i \in 1 .. n
        BY <1>1, <1>2, <3>4
      <4>2. versions[i] = IF i = 1 THEN 1 ELSE versions[i - 1] + requested[i - 1].count
        BY <1>1, <1>2, <4>1 DEF NumberedOn
      <4>3. QED BY <2>3, <3>2, <4>1, <4>2
    <3>5. QED BY <3>3, <3>4
  <2>6. QED BY <2>3, <2>5 DEF NumberedOn
<1>5. QED BY <1>3, <1>4, Changes

\* What a reader takes next from its items, and where in the log it is.
LEMMA HandedEntry ==
  ASSUME IInv, VersionsInv, NoOverflow, NEW m \in Reader, Finds \/ GoesOn, [Next]_vars,
         NEW items \in Seq(Item), UsesItems(m, items), items # << >>
  PROVE  \E t, h \in Nat :
           /\ t = Done(m) + 1 /\ t <= Sequenced /\ IsPlace(t, h + 1) /\ requested[t].id = current[m].id
           /\ h = Head(items).offset /\ Reached(m) <= h
           /\ Concerned(m, Logged(t, h + 1).action)
           /\ handed'[m] = Append(handed[m], Logged(t, h + 1))
<1>0. BlockTypes /\ LogTypes /\ ReaderTypes /\ LogInv /\ Reading /\ Types /\ Subbatches /\ VersionsOf(m)
      /\ IdsCounted /\ VotesInv
  BY DEF IInv, Types, VersionsInv
<1>1. PICK t, h, id : t = Taken(m) /\ h = Head(items).offset /\ id = current[m].id
  OBVIOUS
<1>2. current[m] # Idle
  BY DEF UsesItems
<1>3. t \in 0 .. Sequenced /\ Sequenced \in 0 .. Len(requested) /\ Len(requested) \in Nat
      /\ DOMAIN requested = 1 .. Len(requested)
  BY <1>0, <1>1, TakenFacts DEF Reading
<1>4. t > 0 /\ id = requested[t].id
  BY <1>0, <1>1, <1>2 DEF Reading, ReadingOf
<1>5. t \in DOMAIN requested /\ t \in Nat /\ t <= Sequenced /\ Done(m) = t - 1 /\ t = Done(m) + 1
  <2>1. Done(m) = t - 1
    BY <1>1, <1>2 DEF Done
  <2>2. QED BY <1>3, <1>4, <2>1
<1>6. id \in DOMAIN block
  BY <1>0, <1>4, <1>5 DEF LogInv, Numbered
<1>7. PICK o : o = Reached(m)
  OBVIOUS
<1>8. o \in Nat /\ Rest(items, id, m, o)
  BY <1>0, <1>1, <1>7, ReachedFacts DEF UsesItems
<1>9. Head(items) = items[1] /\ 1 \in DOMAIN items /\ h \in Nat /\ o <= h
  BY <1>0, <1>1, <1>6, <1>8, RestFacts
<1>10. /\ h + 1 \in DOMAIN block[id] /\ Head(items).action = block[id][h + 1]
       /\ Concerned(m, Head(items).action)
  BY <1>1, <1>8, <1>9 DEF Rest
<1>11. IsPlace(t, h + 1)
  BY <1>4, <1>5, <1>10 DEF IsPlace
<1>12. PICK v : v = versions[t]
  OBVIOUS
<1>13. /\ v \in Nat /\ h + 1 \in 1 .. requested[t].count /\ requested[t].count \in Nat
       /\ t \in DOMAIN versions
  BY <1>0, <1>11, <1>12, PlaceFacts
<1>14. v + h \in Nat /\ v + h < IntLimit /\ v + h = v + (h + 1) - 1
  <2>1. v + requested[t].count < IntLimit
    BY <1>12, <1>13 DEF NoOverflow
  <2>2. IntLimit \in Nat
    BY BlockLogAssumption
  <2>3. QED BY <1>9, <1>13, <2>1, <2>2
<1>15. AsUint(current[m].version + Head(items).offset) = v + h
  <2>1. current[m].version = v
    BY <1>0, <1>1, <1>2, <1>12 DEF VersionsOf
  <2>2. QED BY <1>1, <1>14, <2>1, Conversions
<1>16. Logged(t, h + 1) = [action |-> Head(items).action, version |-> v + h]
  BY <1>4, <1>10, <1>12, <1>14 DEF Logged
<1>17. handed'[m] = Append(handed[m], Logged(t, h + 1))
  BY <1>15, <1>16 DEF UsesItems
<1>18. Concerned(m, Logged(t, h + 1).action)
  BY <1>10, <1>16
<1>19. QED BY <1>1, <1>4, <1>5, <1>7, <1>9, <1>11, <1>17, <1>18

LEMMA TakesOne ==
  ASSUME IInv, [Next]_vars, NEW m \in Reader, NextBlock(m)
  PROVE  Taken(m)' = Taken(m) + 1
<1>0. Types /\ IdsCounted /\ VotesInv /\ LogInv /\ Reading /\ ReadingOf(m)
  BY DEF IInv, Reading
<1>1. PICK e \in DOMAIN chosen, k \in Nat :
        /\ source'[m].entries = e /\ source'[m].next = k
        /\ Taken(m) + 1 = IF k # 0 THEN Begins(e) + k - 2 ELSE Ends(e)
  BY <1>0, NextBlockFacts
<1>2. Begins(e)' = Begins(e) /\ Ends(e)' = Ends(e)
  BY <1>0, EntriesStay
<1>3. e # 0
  BY <1>0, TakenFacts
<1>4. QED BY <1>1, <1>2, <1>3 DEF Taken

LEMMA VersionsOfTaken ==
  ASSUME IInv, VersionsInv, NoOverflow, [Next]_vars, NEW m \in Reader, NextBlock(m)
  PROVE  VersionsOf(m)'
<1>0. BlockTypes /\ LogTypes /\ LogInv /\ Reading /\ Types /\ VersionsOf(m) /\ NumberedOn
  BY DEF IInv, Types, VersionsInv
<1>1. UNCHANGED <<requested, versions, block, handed>>
  BY DEF NextBlock, clientVars, metalogVars
<1>2. PICK t : t = Taken(m)
  OBVIOUS
<1>3. PICK o \in Int : /\ o = IF source[m].next = 0 THEN AsInt(versions[t + 1]) ELSE source[m].offset
                       /\ current'[m].version = AsUint(o)
                       /\ source'[m].offset = AsInt(o + requested[t + 1].count)
  BY <1>0, <1>2, NextBlockFacts
<1>4. t \in Nat /\ t + 1 \in DOMAIN requested /\ (source'[m].next # 0 => t + 2 \in DOMAIN requested)
  BY <1>0, <1>2, NextBlockFacts
<1>5. DOMAIN versions = DOMAIN requested
  BY <1>0, VersionsIncrease DEF LogInv
<1>6. PICK v, c : v = versions[t + 1] /\ c = requested[t + 1].count
  OBVIOUS
<1>7. v \in Nat /\ c \in Nat /\ v + c < IntLimit /\ v < IntLimit /\ v + c \in Nat
  <2>1. v \in Nat /\ c \in Nat
    BY <1>0, <1>4, <1>5, <1>6, VersionsIncrease DEF LogInv
  <2>2. v + c < IntLimit /\ IntLimit \in Nat
    BY <1>4, <1>5, <1>6, BlockLogAssumption DEF NoOverflow
  <2>3. QED BY <2>1, <2>2
<1>8. o = v
  <2>1. CASE source[m].next = 0
    BY <1>3, <1>6, <1>7, <2>1, Conversions
  <2>2. CASE source[m].next # 0
    BY <1>0, <1>2, <1>3, <1>6, <2>2 DEF VersionsOf
  <2>3. QED BY <2>1, <2>2
<1>9. current'[m].version = v /\ source'[m].offset = v + c
  BY <1>3, <1>6, <1>7, <1>8, Conversions
<1>10. Taken(m)' = t + 1
  BY <1>2, TakesOne
<1>11. ASSUME t + 2 \in DOMAIN versions PROVE versions[t + 2] = v + c
  <2>1. PICK u : u = t + 2
    OBVIOUS
  <2>2. u # 1 /\ u - 1 = t + 1
    BY <1>4, <2>1
  <2>3. u \in DOMAIN versions
    BY <1>11, <2>1
  <2>4. versions[u] = IF u = 1 THEN 1 ELSE versions[u - 1] + requested[u - 1].count
    BY <1>0, <2>3 DEF NumberedOn
  <2>5. versions[u] = versions[u - 1] + requested[u - 1].count
    BY <2>2, <2>4
  <2>6. versions[u] = v + c
    BY <1>6, <2>2, <2>5
  <2>7. QED BY <2>1, <2>6
<1>12. t + 1 + 1 = t + 2
  BY <1>4
<1>13. \A k \in DOMAIN handed'[m] : \E i, j : IsPlace(i, j)' /\ handed'[m][k] = Logged(i, j)'
  BY <1>0, <1>1 DEF VersionsOf, IsPlace, Logged
<1>14. source'[m].next # 0 => t + 1 + 1 \in DOMAIN versions /\ source'[m].offset = versions[t + 1 + 1]
  BY <1>4, <1>5, <1>9, <1>11, <1>12
<1>15. QED BY <1>1, <1>6, <1>9, <1>10, <1>13, <1>14 DEF VersionsOf

LEMMA VersionsOfOthers ==
  ASSUME IInv, VersionsInv, NoOverflow, [Next]_vars, NEW m \in Reader, ~ NextBlock(m)
  PROVE  VersionsOf(m)'
<1>0. /\ BlockTypes /\ LogTypes /\ ReaderTypes /\ LogInv /\ Numbered /\ Reading /\ Types /\ Subbatches
      /\ ReadingOf(m) /\ VersionsOf(m) /\ IdsCounted /\ VotesInv
  BY DEF IInv, Types, VersionsInv, LogInv, Reading
<1>1. source'[m] = source[m] /\ (current'[m] = current[m] \/ current'[m] = Idle)
  <2>1. CASE TakesNext
    <3>1. PICK n \in Reader : NextBlock(n)
      BY <2>1 DEF TakesNext
    <3>2. n # m
      BY <3>1
    <3>3. QED BY <1>0, <3>1, <3>2, NextBlockFacts
  <2>2. CASE Finds \/ GoesOn
    <3>1. PICK n \in Reader, items \in Seq(Item) : UsesItems(n, items)
      BY <1>0, <2>2, FindsUse
    <3>2. source' = source
      BY <1>0, <2>2, FindsUse
    <3>3. current'[m] = current[m] \/ current'[m] = Idle
      BY <3>1 DEF UsesItems
    <3>4. QED BY <3>2, <3>3
  <2>3. CASE source' = source /\ current' = current
    BY <2>3
  <2>4. QED BY <2>1, <2>2, <2>3, Changes
<1>2. PICK t : t = Taken(m)
  OBVIOUS
<1>3. Taken(m)' = t
  BY <1>0, <1>1, <1>2, TakenStays
<1>4. t \in 0 .. Len(requested) /\ Len(requested) \in Nat /\ DOMAIN requested = 1 .. Len(requested)
      /\ DOMAIN versions = 1 .. Len(requested)
  <2>1. t \in 0 .. Sequenced /\ Sequenced \in 0 .. Len(requested) /\ Len(requested) \in Nat
        /\ DOMAIN requested = 1 .. Len(requested)
    BY <1>0, <1>2, TakenFacts
  <2>2. QED BY <1>0, <2>1, VersionsIncrease
<1>5. /\ \A i \in DOMAIN versions : i \in DOMAIN versions' /\ versions'[i] = versions[i]
  <2>1. RequestsGrow /\ Numbered' /\ versions' \in Seq(Nat) /\ requested' \in Seq(Pair)
    BY <1>0, RequestsInv
  <2>2. /\ DOMAIN versions' = 1 .. Len(requested') /\ Len(requested') \in Nat
        /\ Len(requested) <= Len(requested')
    BY <2>1 DEF Numbered, RequestsGrow
  <2>3. QED BY <1>4, <2>1, <2>2 DEF RequestsGrow
<1>6. current'[m] # Idle => current'[m].version = versions'[t]
  <2>1. SUFFICES ASSUME current[m] # Idle PROVE current[m].version = versions'[t]
    BY <1>1
  <2>2. t > 0 /\ current[m].version = versions[t]
    BY <1>0, <1>2, <2>1 DEF ReadingOf, VersionsOf
  <2>3. t \in DOMAIN versions
    BY <1>4, <2>2
  <2>4. QED BY <1>5, <2>2, <2>3
<1>7. source'[m].next # 0 => t + 1 \in DOMAIN versions' /\ source'[m].offset = versions'[t + 1]
  BY <1>0, <1>1, <1>2, <1>5 DEF VersionsOf
<1>8. \A k \in DOMAIN handed[m] : \E i, j : IsPlace(i, j)' /\ handed[m][k] = Logged(i, j)'
  BY <1>0, PlacesStay DEF VersionsOf
<1>9. \A k \in DOMAIN handed'[m] : \E i, j : IsPlace(i, j)' /\ handed'[m][k] = Logged(i, j)'
  <2>1. CASE handed'[m] = handed[m]
    BY <1>8, <2>1
  <2>2. CASE (Finds \/ GoesOn) /\ \E items \in Seq(Item) : UsesItems(m, items) /\ items # << >>
    <3>1. PICK items \in Seq(Item) : UsesItems(m, items) /\ items # << >>
      BY <2>2
    <3>2. PICK i, h \in Nat : IsPlace(i, h + 1) /\ handed'[m] = Append(handed[m], Logged(i, h + 1))
      BY <2>2, <3>1, HandedEntry
    <3>3. IsPlace(i, h + 1)' /\ Logged(i, h + 1)' = Logged(i, h + 1)
      BY <3>2, PlacesStay
    <3>4. PICK s, x : s = handed[m] /\ x = Logged(i, h + 1)
      OBVIOUS
    <3>5. s \in Seq(EntryHanded) /\ x \in EntryHanded
      BY <1>0, <3>2, <3>4, PlaceFacts DEF ReaderTypes, EntryHanded
    <3>6. \A k \in DOMAIN Append(s, x) : Append(s, x)[k] = x \/ (k \in DOMAIN s /\ Append(s, x)[k] = s[k])
      <4>1. /\ DOMAIN Append(s, x) = 1 .. (Len(s) + 1) /\ DOMAIN s = 1 .. Len(s) /\ Len(s) \in Nat
            /\ Append(s, x)[Len(s) + 1] = x
            /\ \A n \in 1 .. Len(s) : Append(s, x)[n] = s[n]
        BY <3>5, AppendFacts
      <4>2. \A n \in Nat : \A k \in 1 .. (n + 1) : k \in 1 .. n \/ k = n + 1
        OBVIOUS
      <4>3. QED BY <4>1, <4>2
    <3>7. ASSUME NEW k \in DOMAIN handed'[m]
          PROVE  \E a, b : IsPlace(a, b)' /\ handed'[m][k] = Logged(a, b)'
      <4>1. handed'[m][k] = x \/ (k \in DOMAIN handed[m] /\ handed'[m][k] = handed[m][k])
        BY <3>2, <3>4, <3>6
      <4>2. CASE handed'[m][k] = x
        BY <3>3, <3>4, <4>2
      <4>3. CASE k \in DOMAIN handed[m] /\ handed'[m][k] = handed[m][k]
        BY <1>8, <4>3
      <4>4. QED BY <4>1, <4>2, <4>3
    <3>8. QED BY <3>7
  <2>3. handed'[m] = handed[m]
        \/ ((Finds \/ GoesOn) /\ \E items \in Seq(Item) : UsesItems(m, items) /\ items # << >>)
    <3>1. Rests(m) \/ ((Finds \/ GoesOn) /\ \E items \in Seq(Item) : UsesItems(m, items))
      BY <1>0, ReaderSteps
    <3>2. Rests(m) => handed'[m] = handed[m]
      BY DEF Rests
    <3>3. \A items \in Seq(Item) : UsesItems(m, items) => items # << >> \/ handed'[m] = handed[m]
      BY DEF UsesItems
    <3>4. QED BY <3>1, <3>2, <3>3
  <2>4. QED BY <2>1, <2>2, <2>3
<1>10. QED BY <1>3, <1>6, <1>7, <1>9 DEF VersionsOf

LEMMA VersionsStep ==
  ASSUME IInv, VersionsInv, NoOverflow, [Next]_vars
  PROVE  VersionsInv'
<1>1. NumberedOn'
  BY NumberedOnStep DEF VersionsInv
<1>2. \A m \in Reader : VersionsOf(m)'
  BY VersionsOfTaken, VersionsOfOthers
<1>3. QED BY <1>1, <1>2 DEF VersionsInv

LEMMA InitVersions ==
  ASSUME Init
  PROVE  VersionsInv
<1>1. DOMAIN << >> = {}
  OBVIOUS
<1>2. versions = << >> /\ \A m \in Reader : /\ source[m] = [entries |-> 0, next |-> 0, offset |-> 0]
                                            /\ current[m] = Idle /\ handed[m] = << >>
  BY DEF Init
<1>3. \A m \in Reader : VersionsOf(m)
  <2>1. ASSUME NEW m \in Reader PROVE source[m].next = 0 /\ DOMAIN handed[m] = {}
    BY <1>1, <1>2
  <2>2. QED BY <1>2, <2>1 DEF VersionsOf
<1>4. QED BY <1>1, <1>2, <1>3 DEF VersionsInv, NumberedOn

----------------------------------------------------------------------------
(***************************************************************************)
(* The readers are handed one log.                                         *)
(***************************************************************************)
LogTo(q) == UNION {LoggedBlock(i) : i \in 1 .. q}

LEMMA LogToIs ==
  ASSUME BlockTypes, LogTypes, LogInv, NEW q \in 0 .. Len(requested)
  PROVE  /\ \A e \in LogTo(q) : \E i, j : IsPlace(i, j) /\ i <= q /\ e = Logged(i, j)
         /\ \A i, j : IsPlace(i, j) /\ i <= q => Logged(i, j) \in LogTo(q)
<1>1. Len(requested) \in Nat /\ DOMAIN requested = 1 .. Len(requested)
  BY VersionsIncrease DEF LogInv
<1>2. ASSUME NEW e \in LogTo(q)
      PROVE  \E i, j : IsPlace(i, j) /\ i <= q /\ e = Logged(i, j)
  <2>1. PICK i \in 1 .. q : e \in LoggedBlock(i)
    BY <1>2 DEF LogTo
  <2>2. PICK j \in DOMAIN block[requested[i].id] : e = Logged(i, j)
    BY <2>1 DEF LoggedBlock, Logged
  <2>3. i \in DOMAIN requested /\ i <= q
    BY <1>1
  <2>4. QED BY <2>2, <2>3 DEF IsPlace
<1>3. ASSUME NEW i, NEW j, IsPlace(i, j), i <= q
      PROVE  Logged(i, j) \in LogTo(q)
  <2>1. i \in 1 .. q
    BY <1>1, <1>3 DEF IsPlace
  <2>2. Logged(i, j) \in LoggedBlock(i)
    BY <1>3 DEF IsPlace, Logged, LoggedBlock
  <2>3. QED BY <2>1, <2>2 DEF LogTo
<1>4. QED BY <1>2, <1>3

LEMMA SequencedNext ==
  ASSUME LogTypes', chosen' # << >>, NEW n, n = Len(chosen')
  PROVE  Sequenced' = Ends(n)'
<1>1. Last(chosen') = chosen'[n]
  BY DEF Last
<1>2. QED BY <1>1 DEF Sequenced, Ends, Begins

LEMMA SequencedStays ==
  ASSUME IInv, IInv', [Next]_vars, chosen' = chosen
  PROVE  Sequenced' = Sequenced
<1>0. /\ Types /\ BlockTypes /\ LogTypes /\ LogInv /\ IdsCounted /\ VotesInv
      /\ BlockTypes' /\ LogTypes' /\ LogInv'
  BY DEF IInv, Types
<1>1. CASE chosen = << >>
  BY <1>1 DEF Sequenced
<1>2. CASE chosen # << >>
  <2>1. PICK n : n = Len(chosen)
    OBVIOUS
  <2>2. n \in DOMAIN chosen /\ Sequenced = Ends(n)
    BY <1>0, <1>2, <2>1, SequencedFacts
  <2>5. Sequenced' = Ends(n)'
    BY <1>0, <1>2, <2>1, SequencedNext
  <2>6. Ends(n)' = Ends(n)
    BY <1>0, <2>2, EntriesStay
  <2>7. QED BY <2>2, <2>5, <2>6
<1>3. QED BY <1>1, <1>2

LEMMA LogStays ==
  ASSUME IInv, IInv', [Next]_vars, chosen' = chosen
  PROVE  GlobalLog' = GlobalLog
<1>0. /\ BlockTypes /\ LogTypes /\ LogInv /\ BlockTypes' /\ LogTypes' /\ LogInv' /\ RequestsGrow
  BY RequestsInv DEF IInv, Types, LogInv
<1>1. PICK q : q = Sequenced
  OBVIOUS
<1>2. Sequenced' = q
  BY <1>1, SequencedStays
<1>3. q \in 0 .. Len(requested) /\ Len(requested) \in Nat /\ DOMAIN requested = 1 .. Len(requested)
  BY <1>0, <1>1, SequencedFacts, VersionsIncrease DEF LogInv
<1>4. ASSUME NEW i \in 1 .. q PROVE LoggedBlock(i)' = LoggedBlock(i)
  <2>1. i \in DOMAIN requested
    BY <1>3
  <2>2. requested'[i] = requested[i] /\ versions'[i] = versions[i]
    BY <1>0, <2>1 DEF RequestsGrow
  <2>3. block'[requested[i].id] = block[requested[i].id]
    BY <2>1, BlocksGrow DEF BlockGrows, IInv, Types, LogInv, Numbered
  <2>4. QED BY <2>2, <2>3 DEF LoggedBlock
<1>5. QED BY <1>1, <1>2, <1>4 DEF GlobalLog

LEMMA ExtendsLog ==
  ASSUME IInv, IInv', [Next]_vars, NEW k \in DOMAIN requested, ChooseEntry(k)
  PROVE  ReplicatedLog!Extend
<1>0. /\ Types /\ BlockTypes /\ LogTypes /\ LogInv /\ LogTypes'
  BY DEF IInv, Types
<1>1. UNCHANGED <<block, requested, versions, handed>>
  BY DEF ChooseEntry, clientVars, readerVars
<1>2. PICK q, n, e : /\ q = Sequenced /\ n = Len(chosen) + 1
                     /\ e = [version |-> versions[Sequenced + 1], pairs |-> SubSeq(requested, Sequenced + 1, k)]
  OBVIOUS
<1>3. /\ q + 1 \in 1 .. k /\ k \in 1 .. Len(requested) /\ DOMAIN e.pairs = 1 .. (k - q) /\ e.pairs \in Seq(Pair)
      /\ Len(chosen') = n /\ n \in DOMAIN chosen' /\ chosen'[n] = e /\ chosen' # << >>
  <2>1. /\ e \in [version : Nat, pairs : Seq(Pair)]
        /\ q + 1 \in 1 .. k /\ k \in 1 .. Len(requested) /\ DOMAIN e.pairs = 1 .. (k - q)
        /\ Len(chosen') = n /\ DOMAIN chosen' = 1 .. n /\ chosen'[n] = e /\ Len(chosen) \in Nat
    BY <1>0, <1>2, ChooseFacts
  <2>2. n \in 1 .. n /\ n # 0
    BY <1>2, <2>1
  <2>3. chosen' # << >>
    BY <2>1, <2>2
  <2>4. QED BY <2>1, <2>2, <2>3
<1>4. q \in 0 .. Len(requested) /\ Len(requested) \in Nat /\ k \in 0 .. Len(requested) /\ q < k
      /\ DOMAIN versions = 1 .. Len(requested) /\ DOMAIN requested = 1 .. Len(requested)
  BY <1>0, <1>2, <1>3, SequencedFacts, VersionsIncrease DEF LogInv
<1>5. Sequenced' = k
  <2>1. Sequenced' = Ends(n)'
    BY <1>0, <1>3, SequencedNext
  <2>2. Begins(n)' = q + 1
    <3>1. Begins(n)' = CHOOSE i \in DOMAIN versions : versions[i] = versions[q + 1]
      <4>1. e.version = versions[q + 1]
        BY <1>2
      <4>2. QED BY <1>1, <1>3, <4>1 DEF Begins
    <3>2. q + 1 \in DOMAIN versions /\ versions \in Seq(Nat)
      BY <1>0, <1>3, <1>4 DEF LogTypes
    <3>3. \A i, j \in DOMAIN versions : i < j => versions[i] < versions[j]
      BY <1>0, VersionsIncrease DEF LogInv
    <3>4. QED BY <3>1, <3>2, <3>3, PlaceOf
  <2>3. Len(e.pairs) = k - q
    BY <1>3, <1>4
  <2>4. Ends(n)' = q + 1 + (k - q) - 1
    BY <1>3, <2>2, <2>3 DEF Ends
  <2>5. QED BY <1>3, <1>4, <2>1, <2>4
<1>6. GlobalLog = LogTo(q) /\ GlobalLog' = LogTo(k)
  <2>1. \A i : LoggedBlock(i)' = LoggedBlock(i)
    BY <1>1 DEF LoggedBlock
  <2>2. GlobalLog' = UNION {LoggedBlock(i) : i \in 1 .. k}
    BY <1>5, <2>1 DEF GlobalLog
  <2>3. QED BY <1>2, <2>2 DEF GlobalLog, LogTo
<1>7. /\ \A f \in LogTo(q) : \E i, j : IsPlace(i, j) /\ i <= q /\ f = Logged(i, j)
      /\ \A i, j : IsPlace(i, j) /\ i <= q => Logged(i, j) \in LogTo(q)
      /\ \A f \in LogTo(k) : \E i, j : IsPlace(i, j) /\ i <= k /\ f = Logged(i, j)
      /\ \A i, j : IsPlace(i, j) /\ i <= k => Logged(i, j) \in LogTo(k)
  BY <1>0, <1>4, LogToIs
<1>8. \A i, j : IsPlace(i, j) => i \in Nat
  BY <1>4 DEF IsPlace
<1>9. LogTo(q) \subseteq LogTo(k)
  BY <1>4, <1>7, <1>8
<1>10. LogTo(k) # LogTo(q)
  <2>1. IsPlace(k, 1)
    <3>1. requested[k].id \in DOMAIN block
      BY <1>0 DEF LogInv, Numbered
    <3>2. block[requested[k].id] \in Seq(Action) /\ block[requested[k].id] # << >>
      BY <1>0, <3>1 DEF BlockTypes
    <3>3. 1 \in DOMAIN block[requested[k].id]
      BY <3>2
    <3>4. QED BY <3>3 DEF IsPlace
  <2>2. Logged(k, 1) \in LogTo(k)
    BY <1>3, <1>7, <2>1
  <2>3. ASSUME Logged(k, 1) \in LogTo(q) PROVE FALSE
    <3>1. PICK i, j : IsPlace(i, j) /\ i <= q /\ Logged(k, 1) = Logged(i, j)
      BY <1>7, <2>3
    <3>2. k = i
      BY <2>1, <3>1, LogOrder
    <3>3. QED BY <1>4, <3>1, <3>2
  <2>4. QED BY <2>2, <2>3
<1>11. LogTo(k) \subseteq ReplicatedLog!LoggedAction
  BY <1>0, <1>7, PlaceFacts DEF ReplicatedLog!LoggedAction, EntryHanded
<1>12. ReplicatedLog!OneToOne(LogTo(k))
  <2>1. ASSUME NEW f \in LogTo(k), NEW g \in LogTo(k)
        PROVE  f.version = g.version <=> f.action = g.action
    <3>1. PICK a, b : IsPlace(a, b) /\ f = Logged(a, b)
      BY <1>7
    <3>2. PICK c, d : IsPlace(c, d) /\ g = Logged(c, d)
      BY <1>7
    <3>3. a \in Nat /\ b \in Nat /\ c \in Nat /\ d \in Nat /\ f.version \in Nat /\ g.version \in Nat
      BY <1>0, <3>1, <3>2, PlaceFacts DEF EntryHanded
    <3>4. CASE a = c /\ b = d
      BY <3>1, <3>2, <3>4
    <3>5. CASE ~ (a = c /\ b = d)
      <4>1. f.action # g.action
        BY <3>1, <3>2, <3>5, LogOrder
      <4>2. a < c \/ c < a \/ (a = c /\ (b < d \/ d < b))
        BY <3>3, <3>5
      <4>3. f.version < g.version \/ g.version < f.version
        BY <3>1, <3>2, <4>2, LogOrder
      <4>4. QED BY <3>3, <4>1, <4>3
    <3>6. QED BY <3>4, <3>5
  <2>2. QED BY <2>1 DEF ReplicatedLog!OneToOne
<1>13. ASSUME NEW f \in LogTo(q), NEW g \in LogTo(k) \ LogTo(q) PROVE f.version < g.version
  <2>1. PICK a, b : IsPlace(a, b) /\ a <= q /\ f = Logged(a, b)
    BY <1>7
  <2>2. PICK c, d : IsPlace(c, d) /\ g = Logged(c, d)
    BY <1>7
  <2>3. ~ (c <= q)
    BY <1>7, <1>13, <2>2
  <2>4. a < c
    BY <1>4, <1>8, <2>1, <2>2, <2>3
  <2>5. QED BY <2>1, <2>2, <2>4, LogOrder
<1>14. QED BY <1>1, <1>6, <1>9, <1>10, <1>11, <1>12, <1>13 DEF ReplicatedLog!Extend

\* A reader was handed what concerns it of the places it has passed, with the
\* log's versions, and nothing else.
LEMMA HandedPlaces ==
  ASSUME IInv, VersionsInv, NEW m \in Reader, NEW i, NEW j, IsPlace(i, j)
  PROVE  /\ Concerned(m, Logged(i, j).action) /\ WasHanded(m, i, j)
              => \E k \in DOMAIN handed[m] : handed[m][k] = Logged(i, j)
         /\ (\E k \in DOMAIN handed[m] : handed[m][k] = Logged(i, j)) => WasHanded(m, i, j)
<1>0. BlockTypes /\ LogTypes /\ LogInv /\ VersionsOf(m) /\ HandedIsLogged(m) /\ LoggedIsHanded(m)
  BY DEF IInv, Types, VersionsInv, HandedInv, HandedIsLogged, LoggedIsHanded
<1>1. /\ Logged(i, j).action = block[requested[i].id][j] /\ i \in DOMAIN requested
      /\ j \in DOMAIN block[requested[i].id]
  BY DEF IsPlace, Logged
<1>2. ASSUME Concerned(m, Logged(i, j).action), WasHanded(m, i, j)
      PROVE  \E k \in DOMAIN handed[m] : handed[m][k] = Logged(i, j)
  <2>1. HandedTo(m, block[requested[i].id][j])
    BY <1>0, <1>1, <1>2 DEF LoggedIsHanded
  <2>2. PICK k \in DOMAIN handed[m] : handed[m][k].action = Logged(i, j).action
    BY <1>1, <2>1 DEF HandedTo
  <2>3. PICK a, b : IsPlace(a, b) /\ handed[m][k] = Logged(a, b)
    BY <1>0 DEF VersionsOf
  <2>4. a = i /\ b = j
    BY <2>2, <2>3, LogOrder
  <2>5. QED BY <2>3, <2>4
<1>3. ASSUME NEW k \in DOMAIN handed[m], handed[m][k] = Logged(i, j)
      PROVE  WasHanded(m, i, j)
  <2>1. PICK a \in DOMAIN requested : \E b \in DOMAIN block[requested[a].id] :
          handed[m][k].action = block[requested[a].id][b] /\ WasHanded(m, a, b)
    BY <1>0 DEF HandedIsLogged
  <2>2. PICK b \in DOMAIN block[requested[a].id] :
          handed[m][k].action = block[requested[a].id][b] /\ WasHanded(m, a, b)
    BY <2>1
  <2>3. IsPlace(a, b) /\ Logged(a, b).action = Logged(i, j).action
    BY <1>3, <2>2 DEF IsPlace, Logged
  <2>4. a = i /\ b = j
    BY <2>3, LogOrder
  <2>5. QED BY <2>2, <2>4
<1>4. QED BY <1>2, <1>3

LEMMA HandsNext ==
  ASSUME IInv, IInv', VersionsInv, NoOverflow, [Next]_vars, Finds \/ GoesOn,
         NEW m \in Reader, NEW items \in Seq(Item), UsesItems(m, items), items # << >>
  PROVE  ReplicatedLog!HandNext(m)
<1>0. /\ Types /\ BlockTypes /\ LogTypes /\ ReaderTypes /\ LogInv /\ Reading /\ Subbatches /\ IdsCounted /\ VotesInv
  BY DEF IInv, Types
<1>1. UNCHANGED <<block, requested, versions, chosen>> /\ ReaderVarsTyped
  BY <1>0, FindsUse
<1>2. PICK t, h \in Nat :
        /\ t = Done(m) + 1 /\ t <= Sequenced /\ IsPlace(t, h + 1) /\ requested[t].id = current[m].id
        /\ h = Head(items).offset /\ Reached(m) <= h
        /\ Concerned(m, Logged(t, h + 1).action)
        /\ handed'[m] = Append(handed[m], Logged(t, h + 1))
  BY HandedEntry
<1>3. PICK e, d, o, id : e = Logged(t, h + 1) /\ d = Done(m) /\ o = Reached(m) /\ id = current[m].id
  OBVIOUS
<1>4. /\ d \in Nat /\ t = d + 1 /\ o \in Nat /\ o <= h /\ id \in DOMAIN block /\ requested[t].id = id
      /\ Rest(items, id, m, o)
  <2>1. d \in Nat /\ o \in Nat
    BY <1>0, <1>3, ReachedFacts
  <2>2. id \in DOMAIN block
    BY <1>0, <1>2, <1>3 DEF LogInv, Numbered, IsPlace
  <2>3. QED BY <1>2, <1>3, <2>1, <2>2 DEF UsesItems
<1>5. \A i, j : WasHanded(m, i, j) <=> i <= d \/ (i = d + 1 /\ j <= o)
  BY <1>3 DEF WasHanded
<1>6. /\ \A f \in GlobalLog : \E i, j : IsPlace(i, j) /\ i <= Sequenced /\ f = Logged(i, j)
      /\ \A i, j : IsPlace(i, j) /\ i <= Sequenced => Logged(i, j) \in GlobalLog
  <2>1. Sequenced \in 0 .. Len(requested)
    BY <1>0, SequencedFacts
  <2>2. GlobalLog = LogTo(Sequenced)
    BY DEF GlobalLog, LogTo
  <2>3. QED BY <1>0, <2>1, <2>2, LogToIs
<1>7. ReplicatedLog!Left(m) =
        {f \in GlobalLog : /\ f.action \in {a \in Action : Concerned(m, a)}
                           /\ \A i \in DOMAIN handed[m] : handed[m][i] # f}
  BY DEF ReplicatedLog!Left, Concerned
<1>8. e \in ReplicatedLog!Left(m)
  <2>1. e \in GlobalLog
    BY <1>2, <1>3, <1>6
  <2>2. e.action \in Action /\ Concerned(m, e.action)
    BY <1>0, <1>2, <1>3, PlaceFacts
  <2>3. ~ WasHanded(m, t, h + 1)
    BY <1>4, <1>5
  <2>4. \A i \in DOMAIN handed[m] : handed[m][i] # e
    BY <1>2, <1>3, <2>3, HandedPlaces
  <2>5. QED BY <1>7, <2>1, <2>2, <2>4
<1>9. ASSUME NEW f \in ReplicatedLog!Left(m) PROVE e.version <= f.version
  <2>1. /\ f \in GlobalLog /\ Concerned(m, f.action)
        /\ \A i \in DOMAIN handed[m] : handed[m][i] # f
    BY <1>7
  <2>2. PICK i, j : IsPlace(i, j) /\ f = Logged(i, j)
    BY <1>6, <2>1
  <2>3. ~ WasHanded(m, i, j)
    BY <2>1, <2>2, HandedPlaces
  <2>4. i \in Nat /\ j \in Nat /\ j > 0 /\ e.version \in Nat /\ f.version \in Nat
    <3>1. /\ Len(requested) \in Nat /\ i \in 1 .. Len(requested)
          /\ j \in 1 .. requested[i].count /\ requested[i].count \in Nat
      BY <1>0, <2>2, PlaceFacts
    <3>2. f \in EntryHanded
      BY <1>0, <2>2, PlaceFacts
    <3>3. e \in EntryHanded
      BY <1>0, <1>2, <1>3, PlaceFacts
    <3>4. QED BY <3>1, <3>2, <3>3 DEF EntryHanded
  <2>5. i > d /\ (i = d + 1 => j > o)
    BY <1>4, <1>5, <2>3, <2>4
  <2>6. CASE i = t
    <3>1. j > o /\ f.action = block[id][j] /\ j \in DOMAIN block[id]
      BY <1>4, <2>2, <2>5, <2>6 DEF IsPlace, Logged
    <3>2. PICK k \in DOMAIN items : items[k].offset = j - 1
      BY <1>4, <2>1, <3>1 DEF Rest
    <3>3. h <= j - 1
      <4>1. items # << >>
        OBVIOUS
      <4>2. Head(items).offset <= items[k].offset
        BY <1>0, <1>4, <4>1, RestFacts
      <4>3. QED BY <1>2, <3>2, <4>2
    <3>4. h + 1 = j \/ h + 1 < j
      BY <2>4, <3>3
    <3>5. e.version = f.version \/ e.version < f.version
      BY <1>2, <1>3, <2>2, <2>6, <3>4, LogOrder
    <3>6. QED BY <2>4, <3>5
  <2>7. CASE i # t
    <3>1. t < i
      BY <1>4, <2>4, <2>5, <2>7
    <3>2. e.version < f.version
      BY <1>2, <1>3, <2>2, <3>1, LogOrder
    <3>3. QED BY <2>4, <3>2
  <2>8. QED BY <2>6, <2>7
<1>10. handed' = [handed EXCEPT ![m] = Append(@, e)]
  <2>1. handed'[m] = Append(handed[m], e) /\ \A n \in Reader \ {m} : handed'[n] = handed[n]
    BY <1>2, <1>3 DEF UsesItems
  <2>2. handed \in [Reader -> Seq(EntryHanded)] /\ handed' \in [Reader -> Seq(EntryHanded)]
    BY <1>0, <1>1 DEF ReaderTypes, ReaderVarsTyped, EntryHanded
  <2>3. QED BY <2>1, <2>2
<1>11. GlobalLog' = GlobalLog
  BY <1>1, LogStays
<1>12. QED BY <1>8, <1>9, <1>10, <1>11 DEF ReplicatedLog!HandNext

\* As long as the versions fit in an int, the schedulers of all replicas are
\* handed one log: in its order, with its versions, every action exactly where
\* its shards are, however votes, sub-batches and metalog entries race.
THEOREM HandsOutOneLogHolds == Spec /\ []NoOverflow => HandsOutOneLog
<1>1. ASSUME Init PROVE ReplicatedLog!AbsInit
  <2>1. Sequenced = 0
    BY <1>1 DEF Init, Sequenced
  <2>2. GlobalLog = {}
    BY <2>1 DEF GlobalLog
  <2>3. QED BY <1>1, <2>2 DEF Init, ReplicatedLog!AbsInit
<1>2. ASSUME IInv, IInv', VersionsInv, NoOverflow, [Next]_vars
      PROVE  [ReplicatedLog!AbsNext]_(ReplicatedLog!absVars)
  <2>1. CASE \E k \in DOMAIN requested : ChooseEntry(k)
    BY <1>2, <2>1, ExtendsLog DEF ReplicatedLog!AbsNext
  <2>2. CASE Finds \/ GoesOn
    <3>1. PICK m \in Reader, items \in Seq(Item) : UsesItems(m, items)
      BY <1>2, <2>2, FindsUse DEF IInv
    <3>2. CASE items # << >>
      BY <1>2, <2>2, <3>1, <3>2, HandsNext DEF ReplicatedLog!AbsNext
    <3>3. CASE items = << >>
      <4>1. UNCHANGED chosen /\ ReaderVarsTyped
        BY <1>2, <2>2, FindsUse DEF IInv
      <4>2. GlobalLog' = GlobalLog
        BY <1>2, <4>1, LogStays
      <4>3. \A n \in Reader : handed'[n] = handed[n]
        BY <3>1, <3>3 DEF UsesItems
      <4>4. handed \in [Reader -> Seq(EntryHanded)] /\ handed' \in [Reader -> Seq(EntryHanded)]
        BY <1>2, <4>1 DEF IInv, Types, ReaderTypes, ReaderVarsTyped, EntryHanded
      <4>5. handed' = handed
        BY <4>3, <4>4
      <4>6. QED BY <4>2, <4>5 DEF ReplicatedLog!absVars
    <3>4. QED BY <3>2, <3>3
  <2>3. CASE chosen' = chosen /\ handed' = handed
    <3>1. GlobalLog' = GlobalLog
      BY <1>2, <2>3, LogStays
    <3>2. QED BY <2>3, <3>1 DEF ReplicatedLog!absVars
  <2>4. QED BY <1>2, <2>1, <2>2, <2>3, Changes
<1>3. Init => VersionsInv
  BY InitVersions
<1>4. IInv /\ VersionsInv /\ NoOverflow /\ [Next]_vars => VersionsInv'
  BY VersionsStep
<1>5. QED BY <1>1, <1>2, <1>3, <1>4, IInvHolds, PTL DEF Spec, HandsOutOneLog, ReplicatedLog!AbsSpec

----------------------------------------------------------------------------
(***************************************************************************)
(* The metalog's versions count actions, so a bound on the actions is one  *)
(* on the versions.                                                        *)
(***************************************************************************)
LEMMA AppendedIs ==
  ASSUME NEW a
  PROVE  a \in Appended <=> \/ \E m \in Machine : \E i \in DOMAIN queue[m] : a = queue[m][i]
                            \/ \E id \in DOMAIN block : \E i \in DOMAIN block[id] : a = block[id][i]
<1>1. a \in UNION {ToSet(queue[m]) : m \in Machine} <=> \E m \in Machine : \E i \in DOMAIN queue[m] : a = queue[m][i]
  BY DEF ToSet
<1>2. a \in UNION {ToSet(block[id]) : id \in DOMAIN block}
        <=> \E id \in DOMAIN block : \E i \in DOMAIN block[id] : a = block[id][i]
  BY DEF ToSet
<1>3. QED BY <1>1, <1>2 DEF Appended

AppendedInv == IsFiniteSet(Appended) /\ Cardinality(Appended) <= MaxActions

LEMMA AppendedStep ==
  ASSUME IInv, AppendedInv, [Next]_vars
  PROVE  AppendedInv'
<1>0. AppTypes /\ BlockTypes /\ IdsCounted
  BY DEF IInv, Types
<1>1. CASE UNCHANGED <<queue, block>>
  BY <1>1 DEF AppendedInv, Appended
<1>2. CASE Cuts
  <2>1. PICK m \in Machine, b \in Blucket : CutBlock(m, b)
    BY <1>2 DEF Cuts
  <2>2. /\ DOMAIN block' = DOMAIN block \cup {NewId(m)} /\ block'[NewId(m)] = queue[m]
        /\ \A id \in DOMAIN block : block'[id] = block[id]
        /\ NewId(m) \notin DOMAIN block
    BY <1>0, <2>1, CutFacts
  <2>3. queue'[m] = << >> /\ \A n \in Machine : n # m => queue'[n] = queue[n]
    BY <1>0, <2>1 DEF CutBlock, AppTypes
  <2>4. DOMAIN << >> = {}
    OBVIOUS
  <2>5. ASSUME NEW a
        PROVE  (\/ \E n \in Machine : \E i \in DOMAIN queue'[n] : a = queue'[n][i]
                \/ \E id \in DOMAIN block' : \E i \in DOMAIN block'[id] : a = block'[id][i]) => a \in Appended
    <3>1. ASSUME NEW n \in Machine, NEW i \in DOMAIN queue'[n], a = queue'[n][i] PROVE a \in Appended
      <4>1. n # m
        BY <2>3, <2>4, <3>1
      <4>2. QED BY <2>3, <3>1, <4>1, AppendedIs
    <3>2. ASSUME NEW id \in DOMAIN block', NEW i \in DOMAIN block'[id], a = block'[id][i] PROVE a \in Appended
      <4>1. CASE id = NewId(m)
        BY <2>2, <3>2, <4>1, AppendedIs
      <4>2. CASE id # NewId(m)
        BY <2>2, <3>2, <4>2, AppendedIs
      <4>3. QED BY <4>1, <4>2
    <3>3. QED BY <3>1, <3>2
  <2>6. Appended' \subseteq Appended
    BY <2>5 DEF Appended, ToSet
  <2>7. QED BY <2>6, FS_Subset, FS_CardinalityType, BlockLogAssumption DEF AppendedInv
<1>3. CASE \E m \in Machine, a \in Action : AppendAction(m, a)
  <2>1. PICK m \in Machine, a \in Action : AppendAction(m, a)
    BY <1>3
  <2>2. /\ queue' = [queue EXCEPT ![m] = Append(@, a)] /\ block' = block
        /\ a \notin Appended /\ Cardinality(Appended) < MaxActions
    BY <2>1 DEF AppendAction
  <2>3. /\ \A n \in Machine : n # m => queue'[n] = queue[n]
        /\ queue'[m] = Append(queue[m], a) /\ queue[m] \in Seq(Action)
    BY <1>0, <2>2 DEF AppTypes
  <2>4. \A i \in DOMAIN queue'[m] : queue'[m][i] = a \/ (i \in DOMAIN queue[m] /\ queue'[m][i] = queue[m][i])
    <3>1. DOMAIN queue'[m] = 1 .. (Len(queue[m]) + 1) /\ DOMAIN queue[m] = 1 .. Len(queue[m]) /\ Len(queue[m]) \in Nat
          /\ queue'[m][Len(queue[m]) + 1] = a /\ \A i \in 1 .. Len(queue[m]) : queue'[m][i] = queue[m][i]
      BY <2>3, AppendFacts
    <3>2. QED BY <3>1
  <2>5. ASSUME NEW x
        PROVE  (\/ \E n \in Machine : \E i \in DOMAIN queue'[n] : x = queue'[n][i]
                \/ \E id \in DOMAIN block' : \E i \in DOMAIN block'[id] : x = block'[id][i])
                  => x \in Appended \cup {a}
    BY <2>2, <2>3, <2>4, AppendedIs
  <2>6. Appended' \subseteq Appended \cup {a}
    BY <2>5 DEF Appended, ToSet
  <2>7. IsFiniteSet(Appended \cup {a}) /\ Cardinality(Appended \cup {a}) = Cardinality(Appended) + 1
    BY <2>2, FS_AddElement DEF AppendedInv
  <2>8. IsFiniteSet(Appended') /\ Cardinality(Appended') <= Cardinality(Appended \cup {a})
    BY ONLY <2>6, <2>7, FS_Subset
  <2>9. Cardinality(Appended) \in Nat /\ Cardinality(Appended') \in Nat /\ MaxActions \in Nat
    BY <2>8, FS_CardinalityType, BlockLogAssumption DEF AppendedInv
  <2>10. QED BY <2>2, <2>7, <2>8, <2>9 DEF AppendedInv
<1>4. QED BY <1>1, <1>2, <1>3, Changes

LEMMA SequenceSet ==
  ASSUME NEW S, NEW s \in Seq(S), \A i, j \in DOMAIN s : s[i] = s[j] => i = j
  PROVE  IsFiniteSet(ToSet(s)) /\ Cardinality(ToSet(s)) = Len(s)
<1>1. PICK n : n = Len(s)
  OBVIOUS
<1>2. n \in Nat /\ DOMAIN s = 1 .. n /\ s \in [1 .. n -> S]
  BY <1>1
<1>3. IsFiniteSet(1 .. n) /\ Cardinality(1 .. n) = n
  <2>1. 1 \in Int /\ n \in Int /\ n - 1 + 1 = n /\ (1 > n => n = 0)
    BY <1>2
  <2>2. QED BY <2>1, FS_Interval
<1>4. s \in [1 .. n -> ToSet(s)] /\ \A x \in ToSet(s) : \E i \in 1 .. n : s[i] = x
  BY <1>2 DEF ToSet
<1>5. s \in Bijection(1 .. n, ToSet(s))
  BY <1>2, <1>4 DEF Bijection, Injection, Surjection, IsInjective
<1>6. ExistsBijection(1 .. n, ToSet(s))
  BY <1>5 DEF ExistsBijection
<1>7. QED BY <1>1, <1>3, <1>6, FS_Bijection

\* The actions of the first n blocks of the metalog.
ActionsTo(n) == UNION {ToSet(block[requested[k].id]) : k \in 1 .. n}

CountInv ==
  \A n \in DOMAIN requested :
    IsFiniteSet(ActionsTo(n)) /\ versions[n] + requested[n].count <= Cardinality(ActionsTo(n)) + 1

LEMMA CountStep ==
  ASSUME IInv, CountInv, [Next]_vars
  PROVE  CountInv'
<1>0. /\ BlockTypes /\ NetTypes /\ StoreTypes /\ LogTypes /\ VotesInv /\ Numbered
      /\ RequestsGrow /\ ActionsOnce /\ BlockGrows
  BY RequestsInv, BlocksGrow DEF IInv, Types, LogInv
<1>1. /\ DOMAIN versions = 1 .. Len(requested) /\ DOMAIN requested = 1 .. Len(requested)
      /\ Len(requested) \in Nat /\ versions \in Seq(Nat) /\ requested \in Seq(Pair) /\ Len(versions) = Len(requested)
      /\ \A i \in DOMAIN requested : requested[i].count \in Nat /\ versions[i] \in Nat
  BY <1>0, VersionsIncrease DEF LogTypes, Numbered
<1>2. PICK N : N = Len(requested)
  OBVIOUS
<1>3. \A k \in 1 .. N : /\ requested'[k] = requested[k] /\ versions'[k] = versions[k]
                        /\ requested[k].id \in DOMAIN block
                        /\ block'[requested'[k].id] = block[requested[k].id]
  BY <1>0, <1>1, <1>2 DEF RequestsGrow, BlockGrows, Numbered
<1>4. \A n \in 0 .. N : ActionsTo(n)' = ActionsTo(n)
  <2>1. ASSUME NEW n \in 0 .. N PROVE ActionsTo(n)' = ActionsTo(n)
    <3>1. \A k \in 1 .. n : k \in 1 .. N
      BY <1>1, <1>2
    <3>2. \A k \in 1 .. n : ToSet(block'[requested'[k].id]) = ToSet(block[requested[k].id])
      BY <1>3, <3>1
    <3>3. QED BY <3>2 DEF ActionsTo
  <2>2. QED BY <2>1
<1>5. ASSUME NEW n \in 1 .. N
      PROVE  /\ IsFiniteSet(ActionsTo(n)')
             /\ versions'[n] + requested'[n].count <= Cardinality(ActionsTo(n)') + 1
  <2>1. ActionsTo(n)' = ActionsTo(n)
    BY <1>1, <1>2, <1>4
  <2>2. /\ IsFiniteSet(ActionsTo(n))
        /\ versions[n] + requested[n].count <= Cardinality(ActionsTo(n)) + 1
    BY <1>1, <1>2 DEF CountInv
  <2>3. QED BY <1>3, <2>1, <2>2
<1>6. CASE UNCHANGED <<requested, versions>>
  BY <1>1, <1>2, <1>5, <1>6 DEF CountInv
<1>7. CASE Counts /\ ~ UNCHANGED <<requested, versions>>
  <2>1. PICK msg \in net : HandleVote(msg)
    BY <1>7 DEF Counts
  <2>2. PICK id, pair : id = msg.id /\ pair = [id |-> msg.id, count |-> msg.count]
    OBVIOUS
  <2>3. /\ id \in DOMAIN block /\ pair.count = Len(block[id]) /\ pair.id = id /\ ~ IsRequested(id)
        /\ requested' = Append(requested, pair) /\ versions' = Append(versions, NextVersion) /\ NextVersion \in Nat
    BY <1>0, <1>7, <2>1, <2>2, CountFacts, NextVersionFacts
  <2>4. block[id] \in Seq(Action) /\ Len(block[id]) \in Nat
    BY <1>0, <2>3 DEF BlockTypes
  <2>5. pair \in Pair
    BY <1>0, <2>2, <2>3, <2>4 DEF Pair, BlockTypes
  <2>6. /\ DOMAIN requested' = 1 .. (N + 1) /\ requested'[N + 1] = pair /\ versions'[N + 1] = NextVersion
    BY <1>1, <1>2, <2>3, <2>5, AppendFacts
  <2>7. block' = block
    BY <2>1 DEF HandleVote, clientVars
  <2>8. IsFiniteSet(ActionsTo(N)) /\ NextVersion <= Cardinality(ActionsTo(N)) + 1
    <3>1. CASE N = 0
      <4>1. ActionsTo(N) = {}
        BY <3>1 DEF ActionsTo
      <4>2. IsFiniteSet(ActionsTo(N)) /\ Cardinality(ActionsTo(N)) = 0
        BY <4>1, FS_EmptySet
      <4>3. NextVersion = 1
        <5>1. requested = << >>
          BY <1>1, <1>2, <3>1
        <5>2. QED BY <5>1 DEF NextVersion
      <4>4. QED BY <4>2, <4>3
    <3>2. CASE N # 0
      <4>1. requested # << >> /\ N \in DOMAIN requested
        BY <1>1, <1>2, <3>2
      <4>2. Last(versions) = versions[N] /\ Last(requested) = requested[N]
        BY <1>1, <1>2 DEF Last
      <4>3. NextVersion = versions[N] + requested[N].count
        BY <4>1, <4>2 DEF NextVersion
      <4>4. QED BY <4>1, <4>3 DEF CountInv
    <3>3. QED BY <3>1, <3>2
  <2>9. IsFiniteSet(ToSet(block[id])) /\ Cardinality(ToSet(block[id])) = Len(block[id])
    <3>1. \A i, j \in DOMAIN block[id] : block[id][i] = block[id][j] => i = j
      BY <1>0, <2>3 DEF ActionsOnce
    <3>2. QED BY <2>4, <3>1, SequenceSet
  <2>10. ActionsTo(N) \cap ToSet(block[id]) = {}
    <3>1. SUFFICES ASSUME NEW a \in ActionsTo(N), a \in ToSet(block[id]) PROVE FALSE
      OBVIOUS
    <3>2. PICK k \in 1 .. N : a \in ToSet(block[requested[k].id])
      BY DEF ActionsTo
    <3>3. PICK i \in DOMAIN block[requested[k].id] : a = block[requested[k].id][i]
      BY <3>2 DEF ToSet
    <3>4. PICK j \in DOMAIN block[id] : a = block[id][j]
      BY <3>1 DEF ToSet
    <3>5. \A d, e \in DOMAIN block : \A x \in DOMAIN block[d], y \in DOMAIN block[e] : block[d][x] = block[e][y] => d = e
      BY <1>0 DEF ActionsOnce
    <3>6. requested[k].id = id
      BY <1>3, <2>3, <3>3, <3>4, <3>5
    <3>7. QED BY <1>1, <1>2, <2>3, <3>6 DEF IsRequested
  <2>11. ActionsTo(N + 1)' = ActionsTo(N) \cup ToSet(block[id])
    <3>1. \A k \in 1 .. (N + 1) : k \in 1 .. N \/ k = N + 1
      BY <1>1, <1>2
    <3>2. \A k \in 1 .. N : k \in 1 .. (N + 1)
      BY <1>1, <1>2
    <3>3. N + 1 \in 1 .. (N + 1)
      BY <1>1, <1>2
    <3>4. \A k \in 1 .. N : ToSet(block'[requested'[k].id]) = ToSet(block[requested[k].id])
      BY <1>3
    <3>5. ToSet(block'[requested'[N + 1].id]) = ToSet(block[id])
      BY <2>3, <2>6, <2>7
    <3>6. ASSUME NEW a
          PROVE  (\E k \in 1 .. (N + 1) : a \in ToSet(block'[requested'[k].id]))
                   <=> (\E k \in 1 .. N : a \in ToSet(block[requested[k].id])) \/ a \in ToSet(block[id])
      BY <3>1, <3>2, <3>3, <3>4, <3>5
    <3>7. QED BY <3>6 DEF ActionsTo
  <2>12. /\ IsFiniteSet(ActionsTo(N + 1)')
         /\ Cardinality(ActionsTo(N + 1)') = Cardinality(ActionsTo(N)) + Len(block[id])
    <3>1. Cardinality({}) = 0
      BY FS_EmptySet
    <3>2. PICK A, B : A = ActionsTo(N) /\ B = ToSet(block[id])
      OBVIOUS
    <3>3. /\ IsFiniteSet(A \cup B)
          /\ Cardinality(A \cup B) = Cardinality(A) + Cardinality(B) - Cardinality(A \cap B)
      BY <2>8, <2>9, <3>2, FS_Union
    <3>4. Cardinality(A) \in Nat /\ Cardinality(B) \in Nat
      BY <2>8, <2>9, <3>2, FS_CardinalityType
    <3>5. A \cap B = {} /\ ActionsTo(N + 1)' = A \cup B
      BY <2>10, <2>11, <3>2
    <3>6. Cardinality(A \cap B) = 0 /\ Cardinality(B) = Len(block[id])
      BY <2>9, <3>1, <3>2, <3>5
    <3>7. Cardinality(A \cup B) = Cardinality(A) + Len(block[id])
      BY <3>3, <3>4, <3>6
    <3>8. QED BY <3>2, <3>3, <3>5, <3>7
  <2>13. versions'[N + 1] + requested'[N + 1].count <= Cardinality(ActionsTo(N + 1)') + 1
    <3>1. PICK c, l, v : c = Cardinality(ActionsTo(N)) /\ l = Len(block[id]) /\ v = NextVersion
      OBVIOUS
    <3>2. c \in Nat /\ l \in Nat /\ v \in Nat /\ v <= c + 1
      BY <2>3, <2>4, <2>8, <3>1, FS_CardinalityType
    <3>3. /\ versions'[N + 1] = v /\ requested'[N + 1].count = l
          /\ Cardinality(ActionsTo(N + 1)') = c + l
      BY <2>3, <2>6, <2>12, <3>1
    <3>4. QED BY <3>2, <3>3
  <2>14. ASSUME NEW n \in DOMAIN requested'
         PROVE  /\ IsFiniteSet(ActionsTo(n)')
                /\ versions'[n] + requested'[n].count <= Cardinality(ActionsTo(n)') + 1
    <3>1. n \in 1 .. N \/ n = N + 1
      BY <1>1, <1>2, <2>6
    <3>2. CASE n = N + 1
      BY <2>12, <2>13, <3>2
    <3>3. QED BY <1>5, <3>1, <3>2
  <2>15. QED BY <2>14 DEF CountInv
<1>8. QED BY <1>6, <1>7, Changes

LEMMA FewActionsFit ==
  ASSUME IInv, AppendedInv, CountInv, MaxActions + 1 < IntLimit
  PROVE  NoOverflow
<1>0. BlockTypes /\ LogTypes /\ Numbered
  BY DEF IInv, Types, LogInv
<1>1. SUFFICES ASSUME NEW n \in DOMAIN versions PROVE versions[n] + requested[n].count < IntLimit
  BY DEF NoOverflow
<1>2. n \in DOMAIN requested /\ versions[n] \in Nat /\ requested[n].count \in Nat
      /\ DOMAIN requested = 1 .. Len(requested) /\ Len(requested) \in Nat
  BY <1>0, VersionsIncrease
<1>3. ActionsTo(n) \subseteq Appended
  <2>1. ASSUME NEW a \in ActionsTo(n) PROVE a \in Appended
    <3>1. PICK k \in 1 .. n : a \in ToSet(block[requested[k].id])
      BY DEF ActionsTo
    <3>2. k \in DOMAIN requested
      BY <1>2
    <3>3. requested[k].id \in DOMAIN block
      BY <1>0, <3>2 DEF Numbered
    <3>4. PICK i \in DOMAIN block[requested[k].id] : a = block[requested[k].id][i]
      BY <3>1 DEF ToSet
    <3>5. QED BY <3>3, <3>4, AppendedIs
  <2>2. QED BY <2>1
<1>4. /\ Cardinality(ActionsTo(n)) <= Cardinality(Appended)
      /\ Cardinality(ActionsTo(n)) \in Nat /\ Cardinality(Appended) \in Nat
  BY <1>3, FS_Subset, FS_CardinalityType DEF AppendedInv
<1>5. /\ versions[n] + requested[n].count <= Cardinality(ActionsTo(n)) + 1
      /\ Cardinality(Appended) <= MaxActions
  BY <1>2 DEF CountInv, AppendedInv
<1>6. MaxActions \in Nat /\ IntLimit \in Nat
  BY BlockLogAssumption
<1>7. QED BY <1>2, <1>4, <1>5, <1>6

\* The same from a bound on the actions alone: versions fit in an int as long
\* as fewer actions are appended than an int counts.
THEOREM FewActionsHandOneLog ==
  ASSUME MaxActions + 1 < IntLimit
  PROVE  Spec => HandsOutOneLog
<1>1. ASSUME Init PROVE AppendedInv /\ CountInv
  <2>1. DOMAIN << >> = {}
    OBVIOUS
  <2>2. block = << >> /\ requested = << >> /\ queue = [m \in Machine |-> << >>]
    BY <1>1 DEF Init
  <2>3. Appended = {}
    BY <2>1, <2>2 DEF Appended, ToSet
  <2>4. QED BY <2>1, <2>2, <2>3, FS_EmptySet, BlockLogAssumption DEF AppendedInv, CountInv
<1>2. IInv /\ AppendedInv /\ CountInv /\ [Next]_vars => AppendedInv' /\ CountInv'
  BY AppendedStep, CountStep
<1>3. IInv /\ AppendedInv /\ CountInv => NoOverflow
  BY FewActionsFit
<1>4. QED BY <1>1, <1>2, <1>3, IInvHolds, HandsOutOneLogHolds, PTL DEF Spec
=============================================================================
