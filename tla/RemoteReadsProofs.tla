------------------------ MODULE RemoteReadsProofs ------------------------
(***************************************************************************)
(* The machines of a replica that execute a log together, each its own     *)
(* part, do what one machine would that executes it serially, for any      *)
(* number of machines and keys, any placement of the keys, any log and any *)
(* limit on active actions.                                                *)
(***************************************************************************)
EXTENDS RemoteReads, FiniteSetTheorems, WellFoundedInduction, TLAPS

----------------------------------------------------------------------------
(***************************************************************************)
(* The serial execution.                                                   *)
(***************************************************************************)
\* Every set of numbers that is not empty has a least one.
LEMMA NatSetHasLeast ==
  ASSUME NEW S \in SUBSET Nat, S # {}
  PROVE  \E v \in S : \A w \in S : v <= w
<1> DEFINE R == OpToRel(<, Nat)
<1>1. IsWellFoundedOn(R, Nat)
  BY NatLessThanWellFounded
<1>2. \A x, y \in Nat : <<y, x>> \in R <=> y < x
  BY DEF OpToRel
<1> HIDE DEF R
<1>3. PICK x \in S : \A y \in S : ~ (<<y, x>> \in R)
  BY <1>1, WFMin
<1>4. ASSUME NEW w \in S PROVE x <= w
  <2>1. x \in Nat /\ w \in Nat
    OBVIOUS
  <2>2. ~ (w < x)
    BY <1>2, <1>3, <2>1
  <2>3. QED BY <2>1, <2>2
<1>5. QED BY <1>4

\* What no action has changed, and what action v leaves of what was there.
SerialStart == [k \in Key |-> IF k \in Existing THEN 0 ELSE Absent]

SerialStep(before, v) ==
  IF \E q \in log[v].required : before[q] = Absent THEN before
  ELSE [k \in Key |-> IF k \in log[v].deleted THEN Absent
                      ELSE IF k \in log[v].writeset THEN v ELSE before[k]]

Runs(f, n) == f = [v \in 0 .. n |-> IF v = 0 THEN SerialStart ELSE SerialStep(f[v - 1], v)]

\* There is a function that the recursive definition of Serially describes:
\* a shortest log without one could not be the empty one nor a longer one.
LEMMA SerialExists == \A n \in Nat : \E f : Runs(f, n)
<1> DEFINE S == {n \in Nat : ~ \E f : Runs(f, n)}
<1> SUFFICES ASSUME S # {} PROVE FALSE
  OBVIOUS
<1>1. PICK n \in S : \A w \in S : n <= w
  BY NatSetHasLeast
<1>2. n \in Nat /\ ~ \E f : Runs(f, n)
  OBVIOUS
<1>3. CASE n = 0
  <2>1. Runs([v \in 0 .. 0 |-> SerialStart], 0)
    <3>1. \A v \in 0 .. 0 : v = 0
      OBVIOUS
    <3>2. QED BY <3>1 DEF Runs
  <2>2. QED BY <1>2, <1>3, <2>1
<1>4. CASE n # 0
  <2>1. n - 1 \in Nat /\ n - 1 < n
    BY <1>2, <1>4
  <2>2. n - 1 \notin S
    BY <1>1, <1>2, <2>1
  <2>3. PICK f : Runs(f, n - 1)
    BY <2>1, <2>2
  <2>4. \A v \in 0 .. (n - 1) : f[v] = IF v = 0 THEN SerialStart ELSE SerialStep(f[v - 1], v)
    BY <2>3 DEF Runs
  <2> DEFINE g == [v \in 0 .. n |-> IF v = n THEN SerialStep(f[n - 1], n) ELSE f[v]]
  <2>5. \A v \in 0 .. n : g[v] = IF v = 0 THEN SerialStart ELSE SerialStep(g[v - 1], v)
    <3> TAKE v \in 0 .. n
    <3>1. CASE v = n
      <4>1. g[n] = SerialStep(f[n - 1], n) /\ g[n - 1] = f[n - 1]
        BY <1>2, <2>1
      <4>2. QED BY <1>4, <3>1, <4>1
    <3>2. CASE v # n
      <4>1. v \in 0 .. (n - 1) /\ g[v] = f[v]
        BY <1>2, <3>2
      <4>2. v # 0 => v - 1 \in 0 .. n /\ v - 1 # n
        BY <1>2, <4>1
      <4>3. v # 0 => g[v - 1] = f[v - 1]
        BY <4>2
      <4>4. QED BY <2>4, <4>1, <4>3
    <3>3. QED BY <3>1, <3>2
  <2>6. g = [v \in 0 .. n |-> g[v]]
    OBVIOUS
  <2> HIDE DEF g
  <2>7. g = [v \in 0 .. n |-> IF v = 0 THEN SerialStart ELSE SerialStep(g[v - 1], v)]
    BY <2>5, <2>6
  <2>8. Runs(g, n)
    BY <2>7 DEF Runs
  <2>9. QED BY <1>2, <2>8
<1>5. QED BY <1>3, <1>4

\* The recursive definition of Serially, as an equation for each version.
LEMMA SerialSteps ==
  /\ Serially[0] = SerialStart
  /\ \A v \in Version : Serially[v] = SerialStep(Serially[v - 1], v)
<1>1. PICK f : Runs(f, MaxVersion)
  BY SerialExists, RemoteReadsAssumption
<1> DEFINE Body(g) == [v \in 0 .. MaxVersion |-> IF v = 0 THEN SerialStart ELSE SerialStep(g[v - 1], v)]
<1>2. Serially = CHOOSE g : g = Body(g)
  BY DEF Serially, SerialStart, SerialStep
<1>3. f = Body(f)
  BY <1>1 DEF Runs
<1> HIDE DEF Body
<1>4. Serially = Body(Serially)
  BY <1>2, <1>3
<1>5. \A v \in 0 .. MaxVersion : Serially[v] = IF v = 0 THEN SerialStart ELSE SerialStep(Serially[v - 1], v)
  BY <1>4 DEF Body
<1>6. 0 \in 0 .. MaxVersion /\ \A v \in Version : v \in 0 .. MaxVersion /\ v # 0
  BY RemoteReadsAssumption DEF Version
<1>7. QED BY <1>5, <1>6

\* The keys of an action are keys.
LEMMA FootprintFacts ==
  ASSUME log \in [Version -> Footprint], NEW v \in Version
  PROVE  /\ log[v].readset \subseteq Key /\ log[v].writeset \subseteq Key
         /\ log[v].required \subseteq log[v].readset /\ log[v].deleted \subseteq log[v].writeset
<1>1. log[v] \in FootprintRecord
  BY RemoteReadsAssumption
<1>2. QED BY <1>1 DEF FootprintRecord

Succeeds(v) == \A q \in log[v].required : Serially[v - 1][q] # Absent

\* A version that the serial execution leaves is an earlier one.
LEMMA SerialTypes ==
  ASSUME log \in [Version -> Footprint]
  PROVE  \A n \in 0 .. MaxVersion :
           Serially[n] \in [Key -> (0 .. n) \cup {Absent}]
<1> DEFINE S == {n \in 0 .. MaxVersion : Serially[n] \notin [Key -> (0 .. n) \cup {Absent}]}
<1> SUFFICES ASSUME S # {} PROVE FALSE
  OBVIOUS
<1>0. MaxVersion \in Nat
  BY RemoteReadsAssumption
<1>1. PICK n \in S : \A w \in S : n <= w
  <2>1. S \in SUBSET Nat
    BY <1>0
  <2> HIDE DEF S
  <2>2. QED BY <2>1, NatSetHasLeast
<1>2. n \in 0 .. MaxVersion /\ n \in Nat /\ Serially[n] \notin [Key -> (0 .. n) \cup {Absent}]
  BY <1>0
<1>3. CASE n = 0
  BY <1>2, <1>3, SerialSteps DEF SerialStart
<1>4. CASE n # 0
  <2>1. n \in Version /\ n - 1 \in 0 .. MaxVersion /\ ~ (n <= n - 1)
    BY <1>0, <1>2, <1>4 DEF Version
  <2>2. n - 1 \notin S
    BY <1>1, <2>1
  <2>3. Serially[n - 1] \in [Key -> (0 .. (n - 1)) \cup {Absent}]
    BY <2>1, <2>2
  <2>4. (0 .. (n - 1)) \subseteq (0 .. n) /\ n \in 0 .. n
    BY <1>2, <2>1
  <2>5. Serially[n - 1] \in [Key -> (0 .. n) \cup {Absent}]
    BY <2>3, <2>4
  <2>6. SerialStep(Serially[n - 1], n) \in [Key -> (0 .. n) \cup {Absent}]
    BY <2>4, <2>5 DEF SerialStep
  <2>7. QED BY <1>2, <2>1, <2>6, SerialSteps
<1>5. QED BY <1>3, <1>4

\* What an action does to a key.
LEMMA SerialKeys ==
  ASSUME log \in [Version -> Footprint], NEW v \in Version, NEW k \in Key
  PROVE  Serially[v][k] = IF Succeeds(v) /\ k \in log[v].writeset
                          THEN IF k \in log[v].deleted THEN Absent ELSE v
                          ELSE Serially[v - 1][k]
<1>1. Serially[v] = SerialStep(Serially[v - 1], v)
  BY SerialSteps
<1>2. CASE Succeeds(v)
  <2>1. Serially[v][k] = IF k \in log[v].deleted THEN Absent
                         ELSE IF k \in log[v].writeset THEN v ELSE Serially[v - 1][k]
    BY <1>1, <1>2 DEF SerialStep, Succeeds
  <2>2. QED BY <1>2, <2>1, FootprintFacts
<1>3. CASE ~ Succeeds(v)
  BY <1>1, <1>3 DEF SerialStep, Succeeds
<1>4. QED BY <1>2, <1>3

----------------------------------------------------------------------------
(***************************************************************************)
(* The store and the serial execution.                                     *)
(***************************************************************************)
\* A record that the serial execution leaves, of an action that is done on
\* the machine of the key.
Stored(k, r) ==
  IF r.version = 0 THEN k \in Existing /\ ~ r.erased
  ELSE /\ k \in log[r.version].writeset /\ Succeeds(r.version)
       /\ r.erased = (k \in log[r.version].deleted)
       /\ stage[MachineOf[k]][r.version] = "done"

StoreInv == \A k \in Key : store[k] = {r \in Record : Stored(k, r)}

\* When all that write k have done so up to version n, Get returns what the
\* serial execution has after n: the record of n if there is one, and
\* otherwise what it returns for the version before.
LEMMA GetIsSerial ==
  ASSUME log \in [Version -> Footprint], StoreInv, NEW k \in Key, NEW n0 \in 0 .. MaxVersion,
         \A w \in 1 .. n0 : k \in log[w].writeset => stage[MachineOf[k]][w] = "done"
  PROVE  Get(k, n0 + 1) = Serially[n0][k]
<1> DEFINE S == {n \in 0 .. n0 : Get(k, n + 1) # Serially[n][k]}
<1>0. MaxVersion \in Nat /\ n0 \in Nat /\ Version = 1 .. MaxVersion /\ n0 <= MaxVersion
  BY RemoteReadsAssumption DEF Version
<1> SUFFICES ASSUME S # {} PROVE FALSE
  <2>1. n0 \in 0 .. n0
    BY <1>0
  <2>2. QED BY <2>1
<1>1. PICK n \in S : \A w \in S : n <= w
  <2>1. S \in SUBSET Nat
    BY <1>0
  <2> HIDE DEF S
  <2>2. QED BY <2>1, NatSetHasLeast
<1>2. n \in 0 .. n0 /\ n \in Nat /\ n \in 0 .. MaxVersion /\ Get(k, n + 1) # Serially[n][k]
  BY <1>0
<1> DEFINE Older(v) == {r \in store[k] : r.version < v}
           Result(R) == IF R = {} THEN Absent
                        ELSE LET newest == CHOOSE w \in R : \A u \in R : u.version <= w.version
                             IN  IF newest.erased THEN Absent ELSE newest.version
<1>3. \A v : Get(k, v) = Result(Older(v))
  BY DEF Get
<1>4. \A r \in store[k] : r \in Record /\ Stored(k, r) /\ r.version \in Nat /\ r.erased \in BOOLEAN
  BY <1>0 DEF StoreInv, Record
<1>5. \A r, s \in store[k] : r.version = s.version => r = s
  <2> TAKE r, s \in store[k]
  <2> HAVE r.version = s.version
  <2>1. /\ Stored(k, r) /\ Stored(k, s) /\ r \in Record /\ s \in Record
        /\ r.erased \in BOOLEAN /\ s.erased \in BOOLEAN
    BY <1>4
  <2>2. r.erased = s.erased
    BY <2>1 DEF Stored
  <2>3. QED BY <2>1, <2>2 DEF Record
\* A record that is at least as new as all others is the one that is found.
<1>6. ASSUME NEW R \in SUBSET store[k], NEW w \in R, \A u \in R : u.version <= w.version
      PROVE  Result(R) = IF w.erased THEN Absent ELSE w.version
  <2>1. PICK x : x = CHOOSE y \in R : \A u \in R : u.version <= y.version
    OBVIOUS
  <2>2. x \in R /\ \A u \in R : u.version <= x.version
    BY <1>6, <2>1
  <2>3. /\ x \in store[k] /\ w \in store[k] /\ x.version \in Nat /\ w.version \in Nat
        /\ x.version <= w.version /\ w.version <= x.version
    BY <1>4, <1>6, <2>2
  <2>4. x = w
    BY <1>5, <2>3
  <2>5. QED BY <1>6, <2>1, <2>4
<1>7. /\ Record = [version : 0 .. MaxVersion, erased : BOOLEAN]
      /\ store[k] = {r \in Record : Stored(k, r)}
  BY DEF Record, StoreInv
<1> HIDE DEF Result
<1>8. CASE n = 0
  <2>1. Older(1) = {r \in store[k] : r.version = 0}
    BY <1>4
  <2>2. Serially[0][k] = IF k \in Existing THEN 0 ELSE Absent
    BY SerialSteps DEF SerialStart
  <2>3. CASE k \in Existing
    <3> DEFINE w == [version |-> 0, erased |-> FALSE]
    <3>1. w \in Record /\ Stored(k, w) /\ w.version = 0 /\ ~ w.erased
      BY <1>0, <1>7, <2>3 DEF Stored
    <3>2. w \in Older(1)
      BY <1>7, <2>1, <3>1
    <3>3. \A u \in Older(1) : u.version <= w.version
      BY <2>1, <3>1
    <3>4. Older(1) \in SUBSET store[k]
      OBVIOUS
    <3> HIDE DEF w, Older
    <3>5. Result(Older(1)) = IF w.erased THEN Absent ELSE w.version
      BY <1>6, <3>2, <3>3, <3>4
    <3>6. QED BY <1>2, <1>3, <1>8, <2>2, <2>3, <3>1, <3>5
  <2>4. CASE k \notin Existing
    <3>1. Older(1) = {}
      BY <1>4, <2>1, <2>4 DEF Stored
    <3>2. Result({}) = Absent
      BY DEF Result
    <3>3. QED BY <1>2, <1>3, <1>8, <2>2, <2>4, <3>1, <3>2
  <2>5. QED BY <2>3, <2>4
<1>9. CASE n # 0
  <2>1. /\ n \in Version /\ n - 1 \in 0 .. n0 /\ n - 1 \in Nat /\ ~ (n <= n - 1)
        /\ n \in 1 .. n0 /\ (n - 1) + 1 = n
    BY <1>0, <1>2, <1>9
  <2>2. Get(k, n) = Serially[n - 1][k]
    <3>1. n - 1 \notin S
      BY <1>1, <2>1
    <3>2. QED BY <2>1, <3>1
  <2>3. Serially[n][k] = IF Succeeds(n) /\ k \in log[n].writeset
                         THEN IF k \in log[n].deleted THEN Absent ELSE n
                         ELSE Serially[n - 1][k]
    BY <2>1, SerialKeys
  <2>4. CASE Succeeds(n) /\ k \in log[n].writeset
    <3>1. stage[MachineOf[k]][n] = "done"
      BY <2>1, <2>4
    <3>2. PICK w : w = [version |-> n, erased |-> k \in log[n].deleted]
      OBVIOUS
    <3>3. w \in Record /\ w.version = n /\ w.erased = (k \in log[n].deleted)
      BY <1>2, <1>7, <3>2
    <3>4. Stored(k, w)
      BY <1>9, <2>4, <3>1, <3>3 DEF Stored
    <3>5. w \in Older(n + 1)
      BY <1>2, <1>7, <3>3, <3>4
    <3>6. \A u \in Older(n + 1) : u.version <= w.version
      BY <1>2, <1>4, <3>3
    <3>7. Older(n + 1) \in SUBSET store[k]
      OBVIOUS
    <3> HIDE DEF Older
    <3>8. Result(Older(n + 1)) = IF w.erased THEN Absent ELSE w.version
      BY <1>6, <3>5, <3>6, <3>7
    <3>9. QED BY <1>2, <1>3, <2>3, <2>4, <3>3, <3>8
  <2>5. CASE ~ (Succeeds(n) /\ k \in log[n].writeset)
    <3>1. \A r \in store[k] : r.version # n
      BY <1>4, <1>9, <2>5 DEF Stored
    <3>2. Older(n + 1) = Older(n)
      <4>1. \A r \in store[k] : r.version < n + 1 <=> r.version < n
        BY <1>2, <1>4, <3>1
      <4>2. QED BY <4>1
    <3> HIDE DEF Older
    <3>3. QED BY <1>2, <1>3, <2>2, <2>3, <2>5, <3>2
  <2>6. QED BY <2>4, <2>5
<1>10. QED BY <1>8, <1>9

\* What machine m reads of its own keys, in the serial execution.
SerialLocal(m, v) == {r \in SerialReads(v) : r[1] \in LocalKeys(m)}

\* The serial reads of an action are split between the machines of its keys.
LEMMA SerialReadsFacts ==
  ASSUME log \in [Version -> Footprint], NEW v \in Version
  PROVE  /\ SerialReads(v) \subseteq ReadPair
         /\ \A r \in SerialReads(v) : /\ r[1] \in log[v].readset /\ r[1] \in Key
                                      /\ MachineOf[r[1]] \in Readers(v)
                                      /\ r \in SerialLocal(MachineOf[r[1]], v)
         /\ \A m : SerialLocal(m, v) \subseteq ReadPair
         /\ \A m : \A r \in SerialLocal(m, v) : MachineOf[r[1]] = m /\ r \in SerialReads(v)
         /\ Fails(log[v], SerialReads(v)) <=> ~ Succeeds(v)
<1>0. /\ MaxVersion \in Nat /\ v - 1 \in 0 .. MaxVersion /\ 0 .. (v - 1) \subseteq 0 .. MaxVersion
      /\ log[v].readset \subseteq Key /\ log[v].required \subseteq log[v].readset
  BY RemoteReadsAssumption, FootprintFacts DEF Version
<1>1. Serially[v - 1] \in [Key -> (0 .. (v - 1)) \cup {Absent}]
  BY <1>0, SerialTypes
<1>2. ASSUME NEW r \in SerialReads(v)
      PROVE  /\ r \in ReadPair /\ r[1] \in log[v].readset /\ r[1] \in Key
             /\ r[2] # Absent /\ r[2] = Serially[v - 1][r[1]]
  <2>1. PICK k \in log[v].readset : r = <<k, Serially[v - 1][k]>> /\ r[2] # Absent
    BY DEF SerialReads
  <2>2. /\ k \in Key /\ Serially[v - 1][k] \in (0 .. (v - 1)) \cup {Absent} /\ r[1] = k
        /\ r[2] = Serially[v - 1][k]
    BY <1>0, <1>1, <2>1
  <2>3. Serially[v - 1][k] \in 0 .. MaxVersion
    BY <1>0, <2>1, <2>2
  <2>4. QED BY <2>1, <2>2, <2>3 DEF ReadPair
<1>3. ASSUME NEW r \in SerialReads(v)
      PROVE  MachineOf[r[1]] \in Readers(v) /\ r \in SerialLocal(MachineOf[r[1]], v)
  BY <1>2 DEF Readers, SerialLocal, LocalKeys
<1>4. \A m : \A r \in SerialLocal(m, v) : MachineOf[r[1]] = m /\ r \in SerialReads(v)
  BY DEF SerialLocal, LocalKeys
<1>5. ASSUME NEW k \in log[v].required
      PROVE  (\A r \in SerialReads(v) : r[1] # k) <=> Serially[v - 1][k] = Absent
  <2>1. k \in log[v].readset
    BY <1>0
  <2>2. CASE Serially[v - 1][k] = Absent
    BY <1>2, <2>2
  <2>3. CASE Serially[v - 1][k] # Absent
    <3>1. PICK r : r = <<k, Serially[v - 1][k]>>
      OBVIOUS
    <3>2. r[1] = k /\ r[2] = Serially[v - 1][k]
      BY <3>1
    <3>3. r \in SerialReads(v)
      BY <2>1, <2>3, <3>1, <3>2 DEF SerialReads
    <3>4. QED BY <2>3, <3>2, <3>3
  <2>4. QED BY <2>2, <2>3
<1>6. Fails(log[v], SerialReads(v)) <=> ~ Succeeds(v)
  BY <1>5 DEF Fails, Succeeds
<1>7. QED BY <1>2, <1>3, <1>4, <1>6

\* A machine reads what the serial execution reads: all earlier writers of the
\* keys that it locks are done here.
LEMMA ReadsAreSerial ==
  ASSUME log \in [Version -> Footprint], StoreInv, NEW m \in Machine, NEW v \in Version,
         \A w \in LocalPredecessors(m, v) : stage[m][w] = "done"
  PROVE  LocalReads(m, v) = SerialLocal(m, v)
<1>0. /\ MaxVersion \in Nat /\ v - 1 \in 0 .. MaxVersion /\ (v - 1) + 1 = v
      /\ log[v].readset \subseteq Key
  BY RemoteReadsAssumption, FootprintFacts DEF Version
<1>1. ASSUME NEW k \in log[v].readset \cap LocalKeys(m)
      PROVE  Get(k, v) = Serially[v - 1][k]
  <2>1. k \in Key /\ MachineOf[k] = m
    BY DEF LocalKeys
  <2>2. ASSUME NEW w \in 1 .. (v - 1), k \in log[w].writeset PROVE stage[m][w] = "done"
    <3>1. k \in LocalKeys(m) \cap ((log[w].writeset \cap Touched(log[v])) \cup
                                   (log[v].writeset \cap Touched(log[w])))
      BY <2>2 DEF Touched
    <3>2. w \in LocalPredecessors(m, v)
      BY <3>1 DEF LocalPredecessors
    <3>3. QED BY <3>2
  <2>3. Get(k, (v - 1) + 1) = Serially[v - 1][k]
    BY <1>0, <2>1, <2>2, GetIsSerial
  <2>4. QED BY <1>0, <2>3
<1>2. ASSUME NEW r PROVE r \in LocalReads(m, v) <=> r \in SerialLocal(m, v)
  <2>1. ASSUME r \in LocalReads(m, v) PROVE r \in SerialLocal(m, v)
    <3>1. PICK k \in log[v].readset \cap LocalKeys(m) : r = <<k, Get(k, v)>> /\ r[2] # Absent
      BY <2>1 DEF LocalReads
    <3>2. r = <<k, Serially[v - 1][k]>> /\ r[1] = k
      BY <1>1, <3>1
    <3>3. QED BY <3>1, <3>2 DEF SerialLocal, SerialReads
  <2>2. ASSUME r \in SerialLocal(m, v) PROVE r \in LocalReads(m, v)
    <3>1. PICK k \in log[v].readset : r = <<k, Serially[v - 1][k]>> /\ r[2] # Absent /\ r[1] \in LocalKeys(m)
      BY <2>2 DEF SerialLocal, SerialReads
    <3>2. k \in LocalKeys(m)
      BY <3>1
    <3>3. r = <<k, Get(k, v)>>
      BY <1>1, <3>1, <3>2
    <3>4. QED BY <3>1, <3>2, <3>3 DEF LocalReads
  <2>3. QED BY <2>1, <2>2
<1>3. QED BY <1>2

----------------------------------------------------------------------------
(***************************************************************************)
(* The inductive invariant.                                                *)
(***************************************************************************)
\* A reader's message to a writer.
MessageOf(n, m, v) == [to |-> m, from |-> n, version |-> v, reads |-> SerialLocal(n, v)]

IsSent(x) ==
  /\ x.version \in Version /\ x.to \in Writers(x.version)
  /\ x.from \in RemoteReaders(x.to, x.version)
  /\ stage[x.from][x.version] # "none"
  /\ x = MessageOf(x.from, x.to, x.version)

\* A message is on the network or being pushed, by one thread and on a channel
\* that is open.
MessagesInv ==
  /\ \A x \in network : IsSent(x)
  /\ \A m \in Machine : \A x \in arriving[m] :
       /\ IsSent(x) /\ x.to = m /\ x \notin network
       /\ x.version \in open[m] /\ arriving[m] = {x}

\* The readers whose message is in m's channel, or was.
Travels(n, m, v) == MessageOf(n, m, v) \in network \cup arriving[m]
Pushed(m, v) == {n \in RemoteReaders(m, v) : stage[n][v] # "none" /\ ~ Travels(n, m, v)}

InChannel(r, m, v) == \E i \in DOMAIN channel[m][v] : r \in channel[m][v][i]

\* What m has of the reads of action v, or will have when it has emptied the
\* channel, is what was read by itself and by those who are in Pushed.
HeldInv(m, v) ==
  \A r \in ReadPair : r \in reads[m][v] \/ InChannel(r, m, v) <=>
           \/ \E n \in Pushed(m, v) : r \in SerialLocal(n, v)
           \/ stage[m][v] # "none" /\ r \in SerialLocal(m, v)

\* No key comes twice.
NewInv(m, v) ==
  /\ \A i, j \in DOMAIN channel[m][v] : i # j =>
       \A r \in channel[m][v][i], s \in channel[m][v][j] : r[1] # s[1]
  /\ \A i \in DOMAIN channel[m][v] :
       \A r \in channel[m][v][i], s \in reads[m][v] : r[1] # s[1]

\* A channel of a writer: open from its creation until all messages are
\* received, which are counted.
OpenInv(m, v) ==
  /\ stage[m][v] = "none" => reads[m][v] = {}
  /\ stage[m][v] = "none" /\ v \notin open[m] => created[m][v] = 0
  /\ stage[m][v] = "waiting" => v \in open[m]
  /\ v \in open[m] => created[m][v] = 1 /\ stage[m][v] \in {"none", "waiting"}
  /\ stage[m][v] \in {"executing", "done"} =>
       received[m][v] = Cardinality(RemoteReaders(m, v)) /\ created[m][v] = 1

Unused(m, v) ==
  /\ stage[m][v] \in {"none", "returning", "done"}
  /\ v \notin open[m] /\ created[m][v] = 0 /\ channel[m][v] = << >>

Used(m, v) ==
  /\ stage[m][v] # "returning"
  /\ received[m][v] + Len(channel[m][v]) = Cardinality(Pushed(m, v))
  /\ HeldInv(m, v) /\ NewInv(m, v) /\ OpenInv(m, v)

ChannelInv(m, v) ==
  /\ stage[m][v] # "none" => m \in Runners(v)
  /\ IF m \in Writers(v) THEN Used(m, v) ELSE Unused(m, v)

IInv ==
  /\ TypeOK /\ StoreInv /\ MessagesInv
  /\ \A m \in Machine, v \in Version : ChannelInv(m, v)

----------------------------------------------------------------------------
(***************************************************************************)
(* Counting messages.                                                      *)
(***************************************************************************)
\* The machines of an action are finitely many, and a machine is not remote to
\* itself.
LEMMA MachineFacts ==
  ASSUME log \in [Version -> Footprint], NEW v \in Version
  PROVE  /\ Readers(v) \subseteq Machine /\ Writers(v) \subseteq Machine
         /\ \A m : RemoteReaders(m, v) \subseteq Machine /\ m \notin RemoteReaders(m, v)
         /\ \A m : Pushed(m, v) \subseteq RemoteReaders(m, v)
         /\ \A m : IsFiniteSet(RemoteReaders(m, v)) /\ Cardinality(RemoteReaders(m, v)) \in Nat
         /\ \A m : IsFiniteSet(Pushed(m, v)) /\ Cardinality(Pushed(m, v)) \in Nat
<1>1. Readers(v) \subseteq Machine /\ Writers(v) \subseteq Machine
  BY FootprintFacts, RemoteReadsAssumption DEF Readers, Writers
<1>2. \A m : RemoteReaders(m, v) \subseteq Machine /\ m \notin RemoteReaders(m, v) /\ Pushed(m, v) \subseteq RemoteReaders(m, v)
  BY <1>1 DEF RemoteReaders, Pushed
<1>3. IsFiniteSet(Machine)
  BY RemoteReadsAssumption
<1>4. ASSUME NEW T \in SUBSET Machine PROVE IsFiniteSet(T) /\ Cardinality(T) \in Nat
  BY <1>3, FS_Subset, FS_CardinalityType
<1>5. ASSUME NEW m
      PROVE  /\ IsFiniteSet(RemoteReaders(m, v)) /\ Cardinality(RemoteReaders(m, v)) \in Nat
             /\ IsFiniteSet(Pushed(m, v)) /\ Cardinality(Pushed(m, v)) \in Nat
  <2>1. RemoteReaders(m, v) \in SUBSET Machine /\ Pushed(m, v) \in SUBSET Machine
    BY <1>2
  <2>2. QED BY <1>4, <2>1
<1>6. QED BY <1>1, <1>2, <1>5

\* What depends on the log only.
LEMMA LogFrame ==
  ASSUME log' = log
  PROVE  /\ Serially' = Serially
         /\ \A v : /\ Readers(v)' = Readers(v) /\ Writers(v)' = Writers(v) /\ Runners(v)' = Runners(v)
                   /\ Succeeds(v)' = Succeeds(v) /\ SerialReads(v)' = SerialReads(v)
         /\ \A m, v : RemoteReaders(m, v)' = RemoteReaders(m, v) /\ SerialLocal(m, v)' = SerialLocal(m, v)
         /\ \A n, m, v : MessageOf(n, m, v)' = MessageOf(n, m, v)
<1>1. Serially' = Serially
  BY DEF Serially
<1>2. \A v : /\ Readers(v)' = Readers(v) /\ Writers(v)' = Writers(v) /\ Runners(v)' = Runners(v)
  BY DEF Readers, Writers, Runners
<1>3. \A v : Succeeds(v)' = Succeeds(v) /\ SerialReads(v)' = SerialReads(v)
  BY <1>1 DEF Succeeds, SerialReads
<1>4. \A m, v : RemoteReaders(m, v)' = RemoteReaders(m, v) /\ SerialLocal(m, v)' = SerialLocal(m, v)
  BY <1>2, <1>3 DEF RemoteReaders, SerialLocal
<1>5. \A n, m, v : MessageOf(n, m, v)' = MessageOf(n, m, v)
  BY <1>4 DEF MessageOf
<1>6. QED BY <1>1, <1>2, <1>3, <1>4, <1>5

\* When as many messages are received as there are other readers, all have
\* come, and have been taken out of the channel.
LEMMA AllAreHere ==
  ASSUME IInv, NEW m \in Machine, NEW v \in Version, m \in Writers(v), AllReceived(m, v)
  PROVE  /\ channel[m][v] = << >>
         /\ Pushed(m, v) = RemoteReaders(m, v)
         /\ \A n \in RemoteReaders(m, v) : stage[n][v] # "none" /\ ~ Travels(n, m, v)
         /\ \A x \in network \cup arriving[m] : x.to = m => x.version # v
         /\ stage[m][v] # "none" => reads[m][v] = SerialReads(v)
<1>0. TypeOK /\ Used(m, v) /\ MessagesInv /\ log \in [Version -> Footprint]
  BY DEF IInv, ChannelInv, TypeOK
<1>1. /\ received[m][v] \in Nat /\ channel[m][v] \in Seq(SUBSET ReadPair) /\ Len(channel[m][v]) \in Nat
      /\ reads[m][v] \subseteq ReadPair
  BY <1>0 DEF TypeOK
<1>2. /\ Pushed(m, v) \subseteq RemoteReaders(m, v) /\ IsFiniteSet(RemoteReaders(m, v))
      /\ Cardinality(RemoteReaders(m, v)) \in Nat /\ Cardinality(Pushed(m, v)) \in Nat
      /\ RemoteReaders(m, v) \subseteq Machine
  BY <1>0, MachineFacts
<1>3. Cardinality(Pushed(m, v)) <= Cardinality(RemoteReaders(m, v))
  BY <1>2, FS_Subset
<1>4. /\ received[m][v] + Len(channel[m][v]) = Cardinality(Pushed(m, v))
      /\ received[m][v] = Cardinality(RemoteReaders(m, v))
  BY <1>0 DEF Used, AllReceived
<1>5. Len(channel[m][v]) = 0 /\ Cardinality(Pushed(m, v)) = Cardinality(RemoteReaders(m, v))
  BY <1>1, <1>2, <1>3, <1>4
<1>6. channel[m][v] = << >>
  BY <1>1, <1>5
<1>7. Pushed(m, v) = RemoteReaders(m, v)
  BY <1>2, <1>5, FS_Subset
<1>8. \A n \in RemoteReaders(m, v) : stage[n][v] # "none" /\ ~ Travels(n, m, v)
  BY <1>7 DEF Pushed
<1>9. ASSUME NEW x \in network \cup arriving[m], x.to = m, x.version = v PROVE FALSE
  <2>1. IsSent(x)
    BY <1>0 DEF MessagesInv
  <2>2. x.from \in RemoteReaders(m, v) /\ x = MessageOf(x.from, m, v)
    BY <1>9, <2>1 DEF IsSent
  <2>3. QED BY <1>8, <2>2 DEF Travels
<1>10. ASSUME stage[m][v] # "none" PROVE reads[m][v] = SerialReads(v)
  <2>0. HeldInv(m, v) /\ \A r : ~ InChannel(r, m, v)
    BY <1>0, <1>6 DEF Used, InChannel
  <2>1. ASSUME NEW r \in reads[m][v] PROVE r \in SerialReads(v)
    <3>1. r \in ReadPair
      BY <1>1
    <3>2. (\E n \in Pushed(m, v) : r \in SerialLocal(n, v)) \/ r \in SerialLocal(m, v)
      BY <2>0, <3>1 DEF HeldInv
    <3>3. QED BY <3>2 DEF SerialLocal
  <2>2. ASSUME NEW r \in SerialReads(v) PROVE r \in reads[m][v]
    <3>1. r \in ReadPair /\ MachineOf[r[1]] \in Readers(v) /\ r \in SerialLocal(MachineOf[r[1]], v)
      BY <1>0, SerialReadsFacts
    <3>2. MachineOf[r[1]] = m \/ MachineOf[r[1]] \in Pushed(m, v)
      BY <1>7, <3>1 DEF RemoteReaders
    <3>3. (\E n \in Pushed(m, v) : r \in SerialLocal(n, v)) \/ r \in SerialLocal(m, v)
      BY <3>1, <3>2
    <3>4. QED BY <1>10, <2>0, <3>1, <3>3 DEF HeldInv
  <2>3. QED BY <2>1, <2>2
<1>11. QED BY <1>6, <1>7, <1>8, <1>9, <1>10

\* Who executes an action has read what the serial execution reads.
LEMMA ExecutedReads ==
  ASSUME IInv, NEW m \in Machine, NEW v \in Version, m \in Writers(v), stage[m][v] \in {"executing", "done"}
  PROVE  /\ AllReceived(m, v) /\ reads[m][v] = SerialReads(v) /\ channel[m][v] = << >>
         /\ v \notin open[m]
<1>1. Used(m, v)
  BY DEF IInv, ChannelInv
<1>2. AllReceived(m, v) /\ stage[m][v] # "none" /\ v \notin open[m]
  BY <1>1 DEF Used, OpenInv, AllReceived
<1>3. QED BY <1>2, AllAreHere

\* Nothing that is said of the channel of m for v changes.
LEMMA ChannelFrame ==
  ASSUME log' = log, NEW m \in Machine, NEW v \in Version, ChannelInv(m, v),
         stage[m][v]' = stage[m][v], reads[m][v]' = reads[m][v],
         received[m][v]' = received[m][v], channel[m][v]' = channel[m][v],
         created[m][v]' = created[m][v], (v \in open[m])' <=> v \in open[m],
         m \in Writers(v) => Pushed(m, v)' = Pushed(m, v)
  PROVE  ChannelInv(m, v)'
<1>1. /\ Writers(v)' = Writers(v) /\ Runners(v)' = Runners(v) /\ RemoteReaders(m, v)' = RemoteReaders(m, v)
      /\ \A n : SerialLocal(n, v)' = SerialLocal(n, v)
  BY LogFrame
<1>2. CASE m \in Writers(v)
  <2>1. Used(m, v) /\ Pushed(m, v)' = Pushed(m, v)
    BY <1>2 DEF ChannelInv
  <2>2. \A r : InChannel(r, m, v)' <=> InChannel(r, m, v)
    BY DEF InChannel
  <2>3. HeldInv(m, v)'
    BY <1>1, <2>1, <2>2 DEF HeldInv, Used
  <2>4. NewInv(m, v)'
    BY <2>1 DEF NewInv, Used
  <2>5. OpenInv(m, v)'
    BY <1>1, <2>1 DEF OpenInv, Used
  <2>6. QED BY <1>1, <1>2, <2>1, <2>3, <2>4, <2>5 DEF ChannelInv, Used
<1>3. CASE m \notin Writers(v)
  BY <1>1, <1>3 DEF ChannelInv, Unused
<1>4. QED BY <1>2, <1>3

----------------------------------------------------------------------------
(***************************************************************************)
(* What the invariant implies.                                             *)
(***************************************************************************)
LEMMA InvSerial == IInv => WritersReadSerially /\ StoreIsSerial
<1> SUFFICES ASSUME IInv PROVE WritersReadSerially /\ StoreIsSerial
  OBVIOUS
<1>1. WritersReadSerially
  BY ExecutedReads DEF WritersReadSerially, Executed
<1>2. ASSUME NEW v \in Version, \A w \in 1 .. v : Finished(w)
      PROVE  Serially[v] = [k \in Key |-> Get(k, v + 1)]
  <2>1. /\ log \in [Version -> Footprint] /\ StoreInv /\ MaxVersion \in Nat /\ v \in 0 .. MaxVersion
        /\ \A w \in 1 .. v : w \in Version
    BY RemoteReadsAssumption DEF IInv, TypeOK, Version
  <2>2. ASSUME NEW k \in Key PROVE Get(k, v + 1) = Serially[v][k]
    <3>1. ASSUME NEW w \in 1 .. v, k \in log[w].writeset PROVE stage[MachineOf[k]][w] = "done"
      <4>1. MachineOf[k] \in Runners(w)
        BY <3>1 DEF Runners, Writers
      <4>2. QED BY <1>2, <4>1 DEF Finished
    <3>2. QED BY <2>1, <3>1, GetIsSerial
  <2>3. Serially[v] \in [Key -> (0 .. v) \cup {Absent}]
    BY <2>1, SerialTypes
  <2>4. QED BY <2>2, <2>3
<1>3. QED BY <1>1, <1>2 DEF StoreIsSerial

LEMMA InvConsistent == IInv => Consistent
<1> SUFFICES ASSUME IInv PROVE Consistent
  OBVIOUS
<1>0. TypeOK /\ MessagesInv /\ log \in [Version -> Footprint] /\ \A m \in Machine, v \in Version : ChannelInv(m, v)
  BY DEF IInv, TypeOK
<1>1. RemoteReadsAreNew
  <2>1. SUFFICES ASSUME NEW m \in Machine, NEW v \in Version, channel[m][v] # << >>,
                        NEW r \in Head(channel[m][v]), NEW s \in reads[m][v], stage[m][v] = "waiting"
                 PROVE  r[1] # s[1]
    BY DEF RemoteReadsAreNew
  <2>2. NewInv(m, v)
    <3>1. ChannelInv(m, v)
      BY <1>0
    <3>2. QED BY <2>1, <3>1 DEF ChannelInv, Used, Unused
  <2>3. channel[m][v] \in Seq(SUBSET ReadPair)
    BY <1>0 DEF TypeOK
  <2>4. 1 \in DOMAIN channel[m][v] /\ Head(channel[m][v]) = channel[m][v][1]
    BY <2>1, <2>3
  <2>5. QED BY <2>1, <2>2, <2>4 DEF NewInv
<1>2. ASSUME NEW m \in Machine, NEW v \in Version PROVE created[m][v] <= 1
  <2>1. ChannelInv(m, v) /\ stage[m][v] \in Stage
    BY <1>0 DEF TypeOK
  <2>2. CASE m \in Writers(v)
    <3>1. OpenInv(m, v) /\ stage[m][v] # "returning"
      BY <2>1, <2>2 DEF ChannelInv, Used
    <3>2. created[m][v] = 0 \/ created[m][v] = 1
      BY <2>1, <3>1 DEF OpenInv, Stage
    <3>3. QED BY <3>2
  <2>3. CASE m \notin Writers(v)
    BY <2>1, <2>3 DEF ChannelInv, Unused
  <2>4. QED BY <2>2, <2>3
<1>3. \A m \in Machine : \A x \in arriving[m] : x.version \in open[m]
  BY <1>0 DEF MessagesInv
<1>4. ASSUME NEW v \in Version, Finished(v)
      PROVE  /\ \A m \in Machine : v \notin open[m] /\ channel[m][v] = << >>
             /\ \A x \in network : x.version # v
  <2>1. ASSUME NEW m \in Machine, m \in Writers(v) PROVE stage[m][v] = "done"
    BY <1>4, <2>1 DEF Finished, Runners
  <2>2. ASSUME NEW m \in Machine PROVE v \notin open[m] /\ channel[m][v] = << >>
    <3>1. CASE m \in Writers(v)
      BY <2>1, <3>1, ExecutedReads
    <3>2. CASE m \notin Writers(v)
      BY <1>0, <3>2 DEF ChannelInv, Unused
    <3>3. QED BY <3>1, <3>2
  <2>3. ASSUME NEW x \in network, x.version = v PROVE FALSE
    <3>1. IsSent(x) /\ x \in Message
      BY <1>0 DEF MessagesInv, TypeOK
    <3>2. x.to \in Machine /\ x.to \in Writers(v)
      BY <2>3, <3>1 DEF IsSent, Message
    <3>3. AllReceived(x.to, v)
      BY <2>1, <3>2, ExecutedReads
    <3>4. QED BY <2>3, <3>2, <3>3, AllAreHere
  <2>4. QED BY <2>2, <2>3
<1>5. ChannelsAreUsedOnce
  BY <1>2, <1>3, <1>4 DEF ChannelsAreUsedOnce
<1>6. QED BY <1>0, <1>1, <1>5 DEF Consistent

----------------------------------------------------------------------------
(***************************************************************************)
(* The invariant holds initially, and every step preserves it.             *)
(***************************************************************************)
LEMMA InitInv == Init => IInv
<1> SUFFICES ASSUME Init PROVE IInv
  OBVIOUS
<1>0. MaxVersion \in Nat /\ log \in [Version -> Footprint] /\ 0 \in 0 .. MaxVersion
  BY RemoteReadsAssumption DEF Init
<1>1. TypeOK
  <2>1. store \in [Key -> SUBSET Record]
    <3>1. [version |-> 0, erased |-> FALSE] \in Record
      BY <1>0 DEF Record
    <3>2. QED BY <3>1 DEF Init
  <2>2. << >> \in Seq(SUBSET ReadPair)
    OBVIOUS
  <2>3. channel \in [Machine -> [Version -> Seq(SUBSET ReadPair)]]
    BY <2>2 DEF Init
  <2>4. QED BY <1>0, <2>1, <2>3 DEF Init, TypeOK, Stage
<1>2. StoreInv
  <2>1. SUFFICES ASSUME NEW k \in Key PROVE store[k] = {r \in Record : Stored(k, r)}
    BY DEF StoreInv
  <2>2. ASSUME NEW r \in Record PROVE Stored(k, r) <=> k \in Existing /\ r = [version |-> 0, erased |-> FALSE]
    <3>1. CASE r.version = 0
      BY <2>2, <3>1 DEF Stored, Record
    <3>2. CASE r.version # 0
      <4>1. r.version \in Version /\ MachineOf[k] \in Machine
        BY <1>0, <3>2, RemoteReadsAssumption DEF Record, Version
      <4>2. stage[MachineOf[k]][r.version] = "none"
        BY <4>1 DEF Init
      <4>3. QED BY <3>2, <4>2 DEF Stored
    <3>3. QED BY <3>1, <3>2
  <2>3. [version |-> 0, erased |-> FALSE] \in Record
    BY <1>0 DEF Record
  <2>4. store[k] = IF k \in Existing THEN {[version |-> 0, erased |-> FALSE]} ELSE {}
    BY DEF Init
  <2>5. QED BY <2>2, <2>3, <2>4
<1>3. MessagesInv
  BY DEF Init, MessagesInv
<1>4. ASSUME NEW m \in Machine, NEW v \in Version PROVE ChannelInv(m, v)
  <2>1. /\ stage[m][v] = "none" /\ reads[m][v] = {} /\ received[m][v] = 0 /\ channel[m][v] = << >>
        /\ open[m] = {} /\ created[m][v] = 0
    BY DEF Init
  <2>2. Pushed(m, v) = {}
    <3>1. \A n \in RemoteReaders(m, v) : stage[n][v] = "none"
      <4>1. RemoteReaders(m, v) \subseteq Machine
        BY <1>0, MachineFacts
      <4>2. QED BY <4>1 DEF Init
    <3>2. QED BY <3>1 DEF Pushed
  <2>3. Cardinality({}) = 0 /\ Len(<< >>) = 0 /\ DOMAIN << >> = {}
    BY FS_EmptySet
  <2>4. HeldInv(m, v)
    BY <2>1, <2>2, <2>3 DEF HeldInv, InChannel
  <2>5. NewInv(m, v) /\ OpenInv(m, v)
    BY <2>1, <2>3 DEF NewInv, OpenInv
  <2>6. received[m][v] + Len(channel[m][v]) = Cardinality(Pushed(m, v))
    BY <2>1, <2>2, <2>3
  <2>7. QED BY <2>1, <2>4, <2>5, <2>6 DEF ChannelInv, Used, Unused
<1>5. QED BY <1>1, <1>2, <1>3, <1>4 DEF IInv

----------------------------------------------------------------------------
(***************************************************************************)
(* Receive and CloseChannel.                                               *)
(***************************************************************************)
\* A step of no writer that is done keeps the store.
LEMMA StoreFrame ==
  ASSUME StoreInv, log' = log, store' = store,
         \A k \in Key, v \in Version : k \in log[v].writeset =>
           (stage'[MachineOf[k]][v] = "done" <=> stage[MachineOf[k]][v] = "done")
  PROVE  StoreInv'
<1>1. SUFFICES ASSUME NEW k \in Key PROVE store[k] = {r \in Record : Stored(k, r)'}
  BY DEF StoreInv
<1>2. ASSUME NEW r \in Record PROVE Stored(k, r)' <=> Stored(k, r)
  <2>1. r.version \in 0 .. MaxVersion /\ MaxVersion \in Nat
    BY RemoteReadsAssumption DEF Record
  <2>2. r.version # 0 => r.version \in Version
    BY <2>1 DEF Version
  <2>3. Succeeds(r.version)' = Succeeds(r.version)
    BY LogFrame
  <2>4. QED BY <2>2, <2>3 DEF Stored
<1>3. QED BY <1>2 DEF StoreInv

\* Who has sent what stays, if nothing travels and nobody begins.
LEMMA StillPushed ==
  ASSUME log' = log, NEW m \in Machine, NEW v \in Version,
         \A n \in RemoteReaders(m, v) :
           (stage'[n][v] # "none" /\ ~ Travels(n, m, v)') <=> (stage[n][v] # "none" /\ ~ Travels(n, m, v))
  PROVE  Pushed(m, v)' = Pushed(m, v)
<1>1. RemoteReaders(m, v)' = RemoteReaders(m, v)
  BY LogFrame
<1>2. QED BY <1>1 DEF Pushed

\* What travels, if no message is sent or arrives.
LEMMA SameNet ==
  ASSUME log' = log, network' = network, arriving' = arriving
  PROVE  \A n, m, v : Travels(n, m, v)' <=> Travels(n, m, v)
BY LogFrame DEF Travels

\* A message that is sent stays a message of an action that its reader began.
LEMMA SentFrame ==
  ASSUME log' = log, NEW x, IsSent(x),
         stage[x.from][x.version] # "none" => stage'[x.from][x.version] # "none"
  PROVE  IsSent(x)'
BY LogFrame DEF IsSent

LEMMA ReceiveStep ==
  ASSUME IInv, NEW m \in Machine, NEW v \in Version, Receive(m, v)
  PROVE  IInv'
<1>0. /\ TypeOK /\ StoreInv /\ MessagesInv /\ log \in [Version -> Footprint] /\ ChannelInv(m, v)
      /\ \A n \in Machine, w \in Version : ChannelInv(n, w)
  BY DEF IInv, TypeOK
<1>1. /\ stage[m][v] = "waiting" /\ channel[m][v] # << >>
      /\ reads' = [reads EXCEPT ![m][v] = @ \cup Head(channel[m][v])]
      /\ received' = [received EXCEPT ![m][v] = @ + 1]
      /\ channel' = [channel EXCEPT ![m][v] = Tail(@)]
      /\ UNCHANGED <<log, stage, network, arriving, open, created, store, reply>>
  BY DEF Receive
<1>2. /\ channel[m][v] \in Seq(SUBSET ReadPair) /\ reads[m][v] \subseteq ReadPair /\ received[m][v] \in Nat
      /\ reads \in [Machine -> [Version -> SUBSET ReadPair]] /\ received \in [Machine -> [Version -> Nat]]
      /\ channel \in [Machine -> [Version -> Seq(SUBSET ReadPair)]]
  BY <1>0 DEF TypeOK
<1> DEFINE c == channel[m][v]
<1>3. /\ Tail(c) \in Seq(SUBSET ReadPair) /\ Head(c) = c[1] /\ Head(c) \in SUBSET ReadPair
      /\ Len(c) \in Nat /\ Len(Tail(c)) = Len(c) - 1 /\ DOMAIN c = 1 .. Len(c) /\ Len(c) > 0
      /\ DOMAIN Tail(c) = 1 .. (Len(c) - 1)
      /\ \A i \in DOMAIN Tail(c) : i + 1 \in DOMAIN c /\ Tail(c)[i] = c[i + 1] /\ i + 1 # 1
  BY <1>1, <1>2
<1>4. TypeOK'
  <2>1. reads' \in [Machine -> [Version -> SUBSET ReadPair]]
    BY <1>1, <1>2, <1>3
  <2>2. received' \in [Machine -> [Version -> Nat]]
    BY <1>1, <1>2
  <2>3. channel' \in [Machine -> [Version -> Seq(SUBSET ReadPair)]]
    BY <1>1, <1>2, <1>3
  <2>4. QED BY <1>0, <1>1, <2>1, <2>2, <2>3 DEF TypeOK
<1>5. StoreInv'
  BY <1>0, <1>1, StoreFrame
<1>6. MessagesInv'
  BY <1>0, <1>1, SentFrame DEF MessagesInv
<1>7. \A n \in Machine, w \in Version : Pushed(n, w)' = Pushed(n, w)
  BY <1>1, SameNet, StillPushed
<1>8. ASSUME NEW n \in Machine, NEW w \in Version PROVE ChannelInv(n, w)'
  <2>1. CASE ~ (n = m /\ w = v)
    <3>1. /\ reads[n][w]' = reads[n][w] /\ received[n][w]' = received[n][w]
          /\ channel[n][w]' = channel[n][w]
      BY <1>1, <1>2, <2>1
    <3>2. QED BY <1>0, <1>1, <1>7, <3>1, ChannelFrame
  <2>2. CASE n = m /\ w = v
    <3>1. /\ reads'[m][v] = reads[m][v] \cup Head(c) /\ received'[m][v] = received[m][v] + 1
          /\ channel'[m][v] = Tail(c)
      BY <1>1, <1>2
    <3>2. m \in Writers(v) /\ Used(m, v)
      BY <1>0, <1>1 DEF ChannelInv, Unused
    <3>3. ASSUME NEW r PROVE (r \in reads'[m][v] \/ InChannel(r, m, v)') <=> (r \in reads[m][v] \/ InChannel(r, m, v))
      <4>1. InChannel(r, m, v) <=> r \in Head(c) \/ \E i \in DOMAIN Tail(c) : r \in Tail(c)[i]
        <5>1. ASSUME NEW i \in DOMAIN c, r \in c[i] PROVE r \in Head(c) \/ \E j \in DOMAIN Tail(c) : r \in Tail(c)[j]
          <6>1. CASE i = 1
            BY <1>3, <5>1, <6>1
          <6>2. CASE i # 1
            <7>1. i - 1 \in DOMAIN Tail(c) /\ (i - 1) + 1 = i
              BY <1>3, <6>2
            <7>2. Tail(c)[i - 1] = c[i]
              BY <1>3, <7>1
            <7>3. QED BY <5>1, <7>1, <7>2
          <6>3. QED BY <6>1, <6>2
        <5>2. 1 \in DOMAIN c
          BY <1>3
        <5>3. QED BY <1>3, <5>1, <5>2 DEF InChannel
      <4>2. InChannel(r, m, v)' <=> \E i \in DOMAIN Tail(c) : r \in Tail(c)[i]
        BY <3>1 DEF InChannel
      <4>3. QED BY <3>1, <4>1, <4>2
    <3>4. HeldInv(m, v)'
      <4>1. HeldInv(m, v) /\ \A k : SerialLocal(k, v)' = SerialLocal(k, v)
        BY <1>1, <3>2, LogFrame DEF Used
      <4>2. Pushed(m, v)' = Pushed(m, v) /\ stage'[m][v] = stage[m][v]
        BY <1>1, <1>7
      <4>3. QED BY <3>3, <4>1, <4>2 DEF HeldInv
    <3>5. NewInv(m, v)'
      <4>0. NewInv(m, v)
        BY <3>2 DEF Used
      <4>1. ASSUME NEW i \in DOMAIN Tail(c), NEW j \in DOMAIN Tail(c), i # j,
                   NEW r \in Tail(c)[i], NEW s \in Tail(c)[j]
            PROVE  r[1] # s[1]
        <5>1. /\ i + 1 \in DOMAIN c /\ j + 1 \in DOMAIN c /\ i + 1 # j + 1
              /\ r \in c[i + 1] /\ s \in c[j + 1]
          BY <1>3, <4>1
        <5>2. QED BY <4>0, <5>1 DEF NewInv
      <4>2. ASSUME NEW i \in DOMAIN Tail(c), NEW r \in Tail(c)[i], NEW s \in reads[m][v] \cup Head(c)
            PROVE  r[1] # s[1]
        <5>1. /\ i + 1 \in DOMAIN c /\ 1 \in DOMAIN c /\ i + 1 # 1 /\ r \in c[i + 1]
              /\ (s \in c[1] \/ s \in reads[m][v])
          BY <1>3, <4>2
        <5>2. QED BY <4>0, <5>1 DEF NewInv
      <4>3. QED BY <3>1, <4>1, <4>2 DEF NewInv
    <3>6. OpenInv(m, v)'
      BY <1>1, <3>2, <3>1 DEF Used, OpenInv
    <3>7. received'[m][v] + Len(channel'[m][v]) = Cardinality(Pushed(m, v)')
      <4>1. received[m][v] + Len(c) = Cardinality(Pushed(m, v))
        BY <3>2 DEF Used
      <4>2. QED BY <1>2, <1>3, <1>7, <3>1, <4>1
    <3>8. Used(m, v)'
      BY <1>1, <3>4, <3>5, <3>6, <3>7 DEF Used
    <3>9. Writers(v)' = Writers(v) /\ Runners(v)' = Runners(v)
      BY <1>1, LogFrame
    <3>10. QED BY <1>0, <1>1, <2>2, <3>2, <3>8, <3>9 DEF ChannelInv
  <2>3. QED BY <2>1, <2>2
<1>9. QED BY <1>4, <1>5, <1>6, <1>8 DEF IInv

LEMMA CloseStep ==
  ASSUME IInv, NEW m \in Machine, NEW v \in Version, CloseChannel(m, v)
  PROVE  IInv'
<1>0. /\ TypeOK /\ StoreInv /\ MessagesInv /\ log \in [Version -> Footprint] /\ ChannelInv(m, v)
      /\ \A n \in Machine, w \in Version : ChannelInv(n, w)
  BY DEF IInv, TypeOK
<1>1. /\ stage[m][v] = "waiting" /\ AllReceived(m, v)
      /\ open' = [open EXCEPT ![m] = @ \ {v}]
      /\ channel' = [channel EXCEPT ![m][v] = << >>]
      /\ stage' = [stage EXCEPT ![m][v] = "executing"]
      /\ UNCHANGED <<log, reads, received, network, arriving, created, store, reply>>
  BY DEF CloseChannel
<1>2. /\ open \in [Machine -> SUBSET Version] /\ channel \in [Machine -> [Version -> Seq(SUBSET ReadPair)]]
      /\ stage \in [Machine -> [Version -> Stage]]
  BY <1>0 DEF TypeOK
<1>3. m \in Writers(v) /\ Used(m, v)
  BY <1>0, <1>1 DEF ChannelInv, Unused
<1>4. channel[m][v] = << >> /\ \A x \in network \cup arriving[m] : x.to = m => x.version # v
  BY <1>1, <1>3, AllAreHere
<1>5. channel' = channel
  <2>1. \A n \in Machine : channel'[n] = channel[n]
    BY <1>1, <1>2, <1>4
  <2>2. QED BY <1>1, <1>2, <2>1
<1>6. \A n \in Machine, w \in Version :
        stage'[n][w] = IF n = m /\ w = v THEN "executing" ELSE stage[n][w]
  BY <1>1, <1>2
<1>7. \A n \in Machine : open'[n] = IF n = m THEN open[m] \ {v} ELSE open[n]
  BY <1>1, <1>2
<1>8. TypeOK'
  <2>1. open' \in [Machine -> SUBSET Version]
    BY <1>1, <1>2
  <2>2. stage' \in [Machine -> [Version -> Stage]]
    BY <1>1, <1>2 DEF Stage
  <2>3. QED BY <1>0, <1>1, <1>5, <2>1, <2>2 DEF TypeOK
<1>9. StoreInv'
  <2>1. \A k \in Key : MachineOf[k] \in Machine
    BY RemoteReadsAssumption
  <2>2. QED BY <1>0, <1>1, <1>6, <2>1, StoreFrame
<1>10. MessagesInv'
  <2>1. ASSUME NEW x \in Message, IsSent(x) PROVE IsSent(x)'
    <3>1. x.from \in Machine /\ x.version \in Version
      BY DEF Message
    <3>2. QED BY <1>1, <1>6, <2>1, <3>1, SentFrame
  <2>2. \A x \in network : IsSent(x)'
    BY <1>0, <2>1 DEF MessagesInv, TypeOK
  <2>3. ASSUME NEW n \in Machine, NEW x \in arriving[n]
        PROVE  /\ IsSent(x)' /\ x.to = n /\ x \notin network /\ x.version \in open'[n]
               /\ arriving[n] = {x}
    <3>1. /\ IsSent(x) /\ x.to = n /\ x \notin network /\ x.version \in open[n]
          /\ arriving[n] = {x} /\ x \in Message
      BY <1>0 DEF MessagesInv, TypeOK
    <3>2. x.version \in open'[n]
      BY <1>4, <1>7, <3>1
    <3>3. QED BY <2>1, <3>1, <3>2
  <2>4. QED BY <1>1, <2>2, <2>3 DEF MessagesInv
<1>11. ASSUME NEW n \in Machine, NEW w \in Version PROVE Pushed(n, w)' = Pushed(n, w)
  <2>1. \A k \in RemoteReaders(n, w) : stage'[k][w] # "none" <=> stage[k][w] # "none"
    <3>1. RemoteReaders(n, w) \subseteq Machine
      BY <1>0, MachineFacts
    <3>2. QED BY <1>1, <1>6, <3>1
  <2>2. QED BY <1>1, <2>1, SameNet, StillPushed
<1>12. ASSUME NEW n \in Machine, NEW w \in Version PROVE ChannelInv(n, w)'
  <2>1. CASE ~ (n = m /\ w = v)
    <3>1. (w \in open'[n]) <=> w \in open[n]
      BY <1>7, <2>1
    <3>2. stage'[n][w] = stage[n][w]
      BY <1>6, <2>1
    <3>3. QED BY <1>0, <1>1, <1>5, <1>11, <3>1, <3>2, ChannelFrame
  <2>2. CASE n = m /\ w = v
    <3>1. stage'[m][v] = "executing" /\ v \notin open'[m]
      BY <1>6, <1>7
    <3>2. Writers(v)' = Writers(v) /\ Runners(v)' = Runners(v) /\ RemoteReaders(m, v)' = RemoteReaders(m, v)
          /\ \A k : SerialLocal(k, v)' = SerialLocal(k, v)
      BY <1>1, LogFrame
    <3>3. HeldInv(m, v)'
      <4>1. \A r : InChannel(r, m, v)' <=> InChannel(r, m, v)
        BY <1>5 DEF InChannel
      <4>2. HeldInv(m, v) /\ Pushed(m, v)' = Pushed(m, v)
        BY <1>3, <1>11 DEF Used
      <4>3. QED BY <1>1, <3>1, <3>2, <4>1, <4>2 DEF HeldInv
    <3>4. NewInv(m, v)'
      BY <1>1, <1>3, <1>5 DEF Used, NewInv
    <3>5. OpenInv(m, v)'
      BY <1>1, <1>3, <3>1, <3>2 DEF Used, OpenInv, AllReceived
    <3>6. Used(m, v)'
      BY <1>1, <1>3, <1>5, <1>11, <3>1, <3>3, <3>4, <3>5 DEF Used
    <3>7. QED BY <1>0, <1>1, <1>3, <2>2, <3>2, <3>6 DEF ChannelInv
  <2>3. QED BY <2>1, <2>2
<1>13. QED BY <1>8, <1>9, <1>10, <1>12 DEF IInv

----------------------------------------------------------------------------
(***************************************************************************)
(* Execute and Return.                                                     *)
(***************************************************************************)
\* A worker that ends: nothing that concerns messages or channels changes.
LEMMA DoneStep ==
  ASSUME IInv, NEW m \in Machine, NEW v \in Version, stage[m][v] \in {"executing", "returning"},
         stage' = [stage EXCEPT ![m][v] = "done"],
         UNCHANGED <<log, reads, received, dataVars>>
  PROVE  /\ stage' \in [Machine -> [Version -> Stage]]
         /\ \A n \in Machine, w \in Version :
              stage'[n][w] = IF n = m /\ w = v THEN "done" ELSE stage[n][w]
         /\ MessagesInv'
         /\ \A n \in Machine, w \in Version : ChannelInv(n, w)'
<1>0. /\ TypeOK /\ MessagesInv /\ log \in [Version -> Footprint] /\ ChannelInv(m, v)
      /\ \A n \in Machine, w \in Version : ChannelInv(n, w)
      /\ stage \in [Machine -> [Version -> Stage]]
  BY DEF IInv, TypeOK
<1>1. UNCHANGED <<log, reads, received, network, arriving, open, channel, created>>
  BY DEF dataVars
<1>2. \A n \in Machine, w \in Version :
        stage'[n][w] = IF n = m /\ w = v THEN "done" ELSE stage[n][w]
  BY <1>0
<1>3. MessagesInv'
  <2>1. ASSUME NEW x \in Message, IsSent(x) PROVE IsSent(x)'
    <3>1. x.from \in Machine /\ x.version \in Version
      BY DEF Message
    <3>2. QED BY <1>1, <1>2, <2>1, <3>1, SentFrame
  <2>2. QED BY <1>0, <1>1, <2>1 DEF MessagesInv, TypeOK
<1>4. ASSUME NEW n \in Machine, NEW w \in Version PROVE Pushed(n, w)' = Pushed(n, w)
  <2>1. \A k \in RemoteReaders(n, w) : stage'[k][w] # "none" <=> stage[k][w] # "none"
    <3>1. RemoteReaders(n, w) \subseteq Machine
      BY <1>0, MachineFacts
    <3>2. QED BY <1>2, <3>1
  <2>2. QED BY <1>1, <2>1, SameNet, StillPushed
<1>5. ASSUME NEW n \in Machine, NEW w \in Version PROVE ChannelInv(n, w)'
  <2>1. CASE ~ (n = m /\ w = v)
    BY <1>0, <1>1, <1>2, <1>4, <2>1, ChannelFrame
  <2>2. CASE n = m /\ w = v
    <3>1. stage'[m][v] = "done"
      BY <1>2
    <3>2. Writers(v)' = Writers(v) /\ Runners(v)' = Runners(v) /\ RemoteReaders(m, v)' = RemoteReaders(m, v)
          /\ \A k : SerialLocal(k, v)' = SerialLocal(k, v)
      BY <1>1, LogFrame
    <3>3. CASE m \in Writers(v)
      <4>1. Used(m, v) /\ stage[m][v] = "executing"
        BY <1>0, <3>3 DEF ChannelInv, Used
      <4>2. HeldInv(m, v)'
        <5>1. \A r : InChannel(r, m, v)' <=> InChannel(r, m, v)
          BY <1>1 DEF InChannel
        <5>2. HeldInv(m, v) /\ Pushed(m, v)' = Pushed(m, v)
          BY <1>4, <4>1 DEF Used
        <5>3. QED BY <1>1, <3>1, <3>2, <4>1, <5>1, <5>2 DEF HeldInv
      <4>3. NewInv(m, v)'
        BY <1>1, <4>1 DEF Used, NewInv
      <4>4. OpenInv(m, v)'
        BY <1>1, <3>1, <3>2, <4>1 DEF Used, OpenInv
      <4>5. Used(m, v)'
        BY <1>1, <1>4, <3>1, <4>1, <4>2, <4>3, <4>4 DEF Used
      <4>6. QED BY <1>0, <2>2, <3>2, <3>3, <4>1, <4>5 DEF ChannelInv
    <3>4. CASE m \notin Writers(v)
      BY <1>0, <1>1, <2>2, <3>1, <3>2, <3>4 DEF ChannelInv, Unused
    <3>5. QED BY <3>3, <3>4
  <2>3. QED BY <2>1, <2>2
<1>6. stage' \in [Machine -> [Version -> Stage]]
  BY <1>0 DEF Stage
<1>7. QED BY <1>2, <1>3, <1>5, <1>6

LEMMA ReturnStep ==
  ASSUME IInv, NEW m \in Machine, NEW v \in Version, Return(m, v)
  PROVE  IInv'
<1>0. TypeOK /\ StoreInv /\ ChannelInv(m, v) /\ log \in [Version -> Footprint]
  BY DEF IInv, TypeOK
<1>1. /\ stage[m][v] = "returning" /\ stage' = [stage EXCEPT ![m][v] = "done"]
      /\ reply' = [reply EXCEPT ![m][v] = "empty"]
      /\ UNCHANGED <<log, reads, received, dataVars, store>>
  BY DEF Return
<1>2. /\ stage' \in [Machine -> [Version -> Stage]] /\ MessagesInv'
      /\ \A n \in Machine, w \in Version : ChannelInv(n, w)'
      /\ \A n \in Machine, w \in Version : stage'[n][w] = IF n = m /\ w = v THEN "done" ELSE stage[n][w]
  BY <1>1, DoneStep
<1>3. m \notin Writers(v)
  BY <1>0, <1>1 DEF ChannelInv, Used
<1>4. StoreInv'
  <2>1. ASSUME NEW k \in Key, NEW w \in Version, k \in log[w].writeset
        PROVE  stage'[MachineOf[k]][w] = "done" <=> stage[MachineOf[k]][w] = "done"
    <3>1. MachineOf[k] \in Machine /\ MachineOf[k] \in Writers(w)
      BY <2>1, RemoteReadsAssumption DEF Writers
    <3>2. QED BY <1>2, <1>3, <3>1
  <2>2. QED BY <1>0, <1>1, <2>1, StoreFrame
<1>5. TypeOK'
  <2>1. reply' \in [Machine -> [Version -> {"none", "empty", "failure", "success"}]]
    BY <1>0, <1>1 DEF TypeOK
  <2>2. QED BY <1>0, <1>1, <1>2, <2>1 DEF TypeOK, dataVars
<1>6. QED BY <1>2, <1>4, <1>5 DEF IInv

LEMMA ExecuteStep ==
  ASSUME IInv, NEW m \in Machine, NEW v \in Version, Execute(m, v)
  PROVE  IInv'
<1>0. TypeOK /\ StoreInv /\ ChannelInv(m, v) /\ log \in [Version -> Footprint] /\ MaxVersion \in Nat
  BY RemoteReadsAssumption DEF IInv, TypeOK
<1>1. /\ stage[m][v] = "executing" /\ stage' = [stage EXCEPT ![m][v] = "done"]
      /\ store' = Install(m, v)
      /\ reply' = [reply EXCEPT ![m][v] = IF Fails(log[v], reads[m][v]) THEN "failure" ELSE "success"]
      /\ UNCHANGED <<log, reads, received, dataVars>>
  BY DEF Execute
<1>2. /\ stage' \in [Machine -> [Version -> Stage]] /\ MessagesInv'
      /\ \A n \in Machine, w \in Version : ChannelInv(n, w)'
      /\ \A n \in Machine, w \in Version : stage'[n][w] = IF n = m /\ w = v THEN "done" ELSE stage[n][w]
  BY <1>1, DoneStep
<1>3. m \in Writers(v)
  BY <1>0, <1>1 DEF ChannelInv, Unused
<1>4. Fails(log[v], reads[m][v]) <=> ~ Succeeds(v)
  <2>1. reads[m][v] = SerialReads(v)
    BY <1>1, <1>3, ExecutedReads
  <2>2. QED BY <1>0, <2>1, SerialReadsFacts
<1> DEFINE new(k) == [version |-> v, erased |-> k \in log[v].deleted]
<1>5. \A k \in Key : store'[k] = IF k \in log[v].writeset \cap LocalKeys(m) /\ Succeeds(v)
                                 THEN store[k] \cup {new(k)} ELSE store[k]
  BY <1>1, <1>4 DEF Install
<1>6. v \in 1 .. MaxVersion /\ v # 0 /\ v \in 0 .. MaxVersion
  BY <1>0 DEF Version
<1>7. \A k \in Key : new(k) \in Record
  BY <1>6 DEF Record
<1>8. StoreInv'
  <2>1. SUFFICES ASSUME NEW k \in Key PROVE store'[k] = {r \in Record : Stored(k, r)'}
    BY DEF StoreInv
  <2>2. MachineOf[k] \in Machine /\ (k \in LocalKeys(m) <=> MachineOf[k] = m)
    BY RemoteReadsAssumption DEF LocalKeys
  <2>3. ASSUME NEW r \in Record
        PROVE  Stored(k, r)' <=> Stored(k, r) \/ (r = new(k) /\ k \in log[v].writeset \cap LocalKeys(m) /\ Succeeds(v))
    <3>0. /\ r.version \in 0 .. MaxVersion /\ r.erased \in BOOLEAN
          /\ Succeeds(r.version)' = Succeeds(r.version)
      BY <1>1, LogFrame DEF Record
    <3>1. CASE r.version = v /\ k \in LocalKeys(m)
      <4>1. r = new(k) <=> r.erased = (k \in log[v].deleted)
        BY <3>1 DEF Record
      <4>2. stage'[MachineOf[k]][r.version] = "done" /\ stage[MachineOf[k]][r.version] # "done"
        BY <1>1, <1>2, <2>2, <3>1
      <4>3. ~ Stored(k, r)
        BY <1>6, <3>1, <4>2 DEF Stored
      <4>4. Stored(k, r)' <=> k \in log[v].writeset /\ Succeeds(v) /\ r.erased = (k \in log[v].deleted)
        BY <1>1, <1>6, <3>0, <3>1, <4>2 DEF Stored
      <4>5. QED BY <3>1, <4>1, <4>3, <4>4
    <3>2. CASE r.version # v \/ k \notin LocalKeys(m)
      <4>1. ~ (r = new(k) /\ k \in log[v].writeset \cap LocalKeys(m))
        BY <3>2
      <4>2. r.version # 0 => stage'[MachineOf[k]][r.version] = stage[MachineOf[k]][r.version]
        <5>1. r.version # 0 => r.version \in Version
          BY <1>0, <3>0 DEF Version
        <5>2. QED BY <1>2, <2>2, <3>2, <5>1
      <4>3. QED BY <1>1, <3>0, <4>1, <4>2 DEF Stored
    <3>3. QED BY <3>1, <3>2
  <2>4. store[k] = {r \in Record : Stored(k, r)} /\ new(k) \in Record
    BY <1>0, <1>7 DEF StoreInv
  <2>5. QED BY <1>5, <2>3, <2>4
<1>9. TypeOK'
  <2>1. reply' \in [Machine -> [Version -> {"none", "empty", "failure", "success"}]]
    BY <1>0, <1>1 DEF TypeOK
  <2>2. store' \in [Key -> SUBSET Record]
    <3>1. \A k \in Key : store'[k] \subseteq Record
      BY <1>0, <1>5, <1>7 DEF TypeOK
    <3>2. store' = [k \in Key |-> store'[k]]
      BY <1>1 DEF Install
    <3>3. QED BY <3>1, <3>2
  <2>3. QED BY <1>0, <1>1, <1>2, <2>1, <2>2 DEF TypeOK, dataVars
<1>10. QED BY <1>2, <1>8, <1>9 DEF IInv

----------------------------------------------------------------------------
(***************************************************************************)
(* Arrive and Push.                                                        *)
(***************************************************************************)
\* The channel of m for v is opened, if it was not: what else is known of it
\* stays true.
LEMMA OpenFrame ==
  ASSUME TypeOK, NEW m \in Machine, NEW v \in Version, OpenChannel(m, v)
  PROVE  /\ open' \in [Machine -> SUBSET Version] /\ created' \in [Machine -> [Version -> Nat]]
         /\ \A n \in Machine, w \in Version :
              /\ (w \in open'[n]) <=> w \in open[n] \/ (n = m /\ w = v)
              /\ created'[n][w] = IF n = m /\ w = v /\ v \notin open[m] THEN created[n][w] + 1 ELSE created[n][w]
         /\ \A n \in Machine : open[n] \subseteq open'[n]
<1>1. open \in [Machine -> SUBSET Version] /\ created \in [Machine -> [Version -> Nat]]
  BY DEF TypeOK
<1>2. /\ open' = [open EXCEPT ![m] = @ \cup {v}]
      /\ created' = [created EXCEPT ![m][v] = IF v \in open[m] THEN @ ELSE @ + 1]
  BY DEF OpenChannel
<1>3. open' \in [Machine -> SUBSET Version]
  BY <1>1, <1>2
<1>4. created' \in [Machine -> [Version -> Nat]]
  BY <1>1, <1>2
<1>5. \A n \in Machine, w \in Version : (w \in open'[n]) <=> w \in open[n] \/ (n = m /\ w = v)
  BY <1>1, <1>2
<1>6. \A n \in Machine, w \in Version :
        created'[n][w] = IF n = m /\ w = v /\ v \notin open[m] THEN created[n][w] + 1 ELSE created[n][w]
  BY <1>1, <1>2
<1>7. \A n \in Machine : open[n] \subseteq open'[n]
  BY <1>1, <1>2
<1>8. QED BY <1>3, <1>4, <1>5, <1>6, <1>7

LEMMA ArriveStep ==
  ASSUME IInv, NEW m \in Machine, NEW msg \in network, Arrive(m, msg)
  PROVE  IInv'
<1>0. /\ TypeOK /\ StoreInv /\ MessagesInv /\ log \in [Version -> Footprint]
      /\ \A n \in Machine, w \in Version : ChannelInv(n, w)
      /\ arriving \in [Machine -> SUBSET Message] /\ network \in SUBSET Message
  BY DEF IInv, TypeOK
<1>1. /\ arriving[m] = {} /\ msg.to = m
      /\ network' = network \ {msg}
      /\ arriving' = [arriving EXCEPT ![m] = {msg}]
      /\ OpenChannel(m, msg.version)
      /\ UNCHANGED <<log, stage, reads, received, channel, store, reply>>
  BY DEF Arrive, workVars
<1>2. PICK v \in Version : v = msg.version
  BY <1>0 DEF Message
<1>3. IsSent(msg) /\ msg \in Message
  BY <1>0 DEF MessagesInv
<1>4. m \in Writers(v) /\ msg.from \in RemoteReaders(m, v) /\ msg = MessageOf(msg.from, m, v)
  BY <1>1, <1>2, <1>3 DEF IsSent
<1>5. /\ open' \in [Machine -> SUBSET Version] /\ created' \in [Machine -> [Version -> Nat]]
      /\ \A n \in Machine, w \in Version :
           /\ (w \in open'[n]) <=> w \in open[n] \/ (n = m /\ w = v)
           /\ created'[n][w] = IF n = m /\ w = v /\ v \notin open[m] THEN created[n][w] + 1 ELSE created[n][w]
      /\ \A n \in Machine : open[n] \subseteq open'[n]
  BY <1>0, <1>1, <1>2, OpenFrame
<1>6. \A n \in Machine : arriving'[n] = IF n = m THEN {msg} ELSE arriving[n]
  BY <1>0, <1>1
<1>7. TypeOK'
  <2>1. arriving' \in [Machine -> SUBSET Message]
    BY <1>0, <1>1, <1>3
  <2>2. network' \in SUBSET Message
    BY <1>0, <1>1
  <2>3. QED BY <1>0, <1>1, <1>5, <2>1, <2>2 DEF TypeOK
<1>8. StoreInv'
  BY <1>0, <1>1, StoreFrame
<1>9. MessagesInv'
  <2>1. \A x : IsSent(x) => IsSent(x)'
    BY <1>1, SentFrame
  <2>2. \A x \in network' : IsSent(x)'
    BY <1>0, <1>1, <2>1 DEF MessagesInv
  <2>3. ASSUME NEW n \in Machine, NEW x \in arriving'[n]
        PROVE  /\ IsSent(x)' /\ x.to = n /\ x \notin network' /\ x.version \in open'[n]
               /\ arriving'[n] = {x}
    <3>1. CASE n = m
      <4>1. x = msg /\ arriving'[n] = {x}
        BY <1>6, <2>3, <3>1
      <4>2. msg.version \in open'[m]
        BY <1>2, <1>5
      <4>3. QED BY <1>1, <1>3, <2>1, <3>1, <4>1, <4>2
    <3>2. CASE n # m
      <4>1. x \in arriving[n] /\ arriving'[n] = arriving[n]
        BY <1>6, <2>3, <3>2
      <4>2. IsSent(x) /\ x.to = n /\ x \notin network /\ x.version \in open[n] /\ arriving[n] = {x}
        BY <1>0, <4>1 DEF MessagesInv
      <4>3. QED BY <1>1, <1>5, <2>1, <4>1, <4>2
    <3>3. QED BY <3>1, <3>2
  <2>4. QED BY <2>2, <2>3 DEF MessagesInv
<1>10. ASSUME NEW n \in Machine, NEW w \in Version PROVE Pushed(n, w)' = Pushed(n, w)
  <2>1. ASSUME NEW k PROVE Travels(k, n, w)' <=> Travels(k, n, w)
    <3>1. MessageOf(k, n, w)' = MessageOf(k, n, w) /\ MessageOf(k, n, w).to = n
      BY <1>1, LogFrame DEF MessageOf
    <3>2. CASE n = m
      BY <1>1, <1>6, <3>1, <3>2 DEF Travels
    <3>3. CASE n # m
      <4>1. MessageOf(k, n, w) # msg
        BY <1>1, <3>1, <3>3
      <4>2. QED BY <1>1, <1>6, <3>1, <3>3, <4>1 DEF Travels
    <3>4. QED BY <3>2, <3>3
  <2>2. QED BY <1>1, <2>1, StillPushed
\* The channel is not closed yet, because this message has not come.
<1>11. stage[m][v] \in {"none", "waiting"}
  <2>1. Travels(msg.from, m, v)
    BY <1>4 DEF Travels
  <2>2. ~ AllReceived(m, v)
    BY <1>0, <1>4, <2>1, AllAreHere DEF IInv
  <2>3. Used(m, v) /\ stage[m][v] \in Stage
    BY <1>0, <1>4 DEF ChannelInv, TypeOK
  <2>4. QED BY <2>2, <2>3 DEF Used, OpenInv, AllReceived, Stage
<1>12. ASSUME NEW n \in Machine, NEW w \in Version PROVE ChannelInv(n, w)'
  <2>1. CASE ~ (n = m /\ w = v)
    <3>1. ((w \in open'[n]) <=> w \in open[n]) /\ created'[n][w] = created[n][w]
      BY <1>5, <2>1
    <3>2. QED BY <1>0, <1>1, <1>10, <3>1, ChannelFrame
  <2>2. CASE n = m /\ w = v
    <3>1. Writers(v)' = Writers(v) /\ Runners(v)' = Runners(v) /\ RemoteReaders(m, v)' = RemoteReaders(m, v)
          /\ \A k : SerialLocal(k, v)' = SerialLocal(k, v)
      BY <1>1, LogFrame
    <3>2. Used(m, v) /\ ChannelInv(m, v)
      BY <1>0, <1>4 DEF ChannelInv
    <3>3. HeldInv(m, v)'
      <4>1. \A r : InChannel(r, m, v)' <=> InChannel(r, m, v)
        BY <1>1 DEF InChannel
      <4>2. HeldInv(m, v) /\ Pushed(m, v)' = Pushed(m, v)
        BY <1>10, <3>2 DEF Used
      <4>3. QED BY <1>1, <3>1, <4>1, <4>2 DEF HeldInv
    <3>4. NewInv(m, v)'
      BY <1>1, <3>2 DEF Used, NewInv
    <3>5. OpenInv(m, v)'
      <4>1. v \in open'[m] /\ created'[m][v] = IF v \in open[m] THEN created[m][v] ELSE created[m][v] + 1
        BY <1>5
      <4>2. OpenInv(m, v)
        BY <3>2 DEF Used
      <4>3. created'[m][v] = 1
        BY <1>11, <4>1, <4>2 DEF OpenInv
      <4>4. QED BY <1>1, <1>11, <4>1, <4>2, <4>3 DEF OpenInv
    <3>6. Used(m, v)'
      BY <1>1, <1>10, <3>2, <3>3, <3>4, <3>5 DEF Used
    <3>7. QED BY <1>1, <1>4, <2>2, <3>1, <3>2, <3>6 DEF ChannelInv
  <2>3. QED BY <2>1, <2>2
<1>13. QED BY <1>7, <1>8, <1>9, <1>12 DEF IInv

LEMMA PushStep ==
  ASSUME IInv, NEW m \in Machine, Push(m)
  PROVE  IInv'
<1>0. /\ TypeOK /\ StoreInv /\ MessagesInv /\ log \in [Version -> Footprint]
      /\ \A n \in Machine, w \in Version : ChannelInv(n, w)
      /\ arriving \in [Machine -> SUBSET Message]
      /\ channel \in [Machine -> [Version -> Seq(SUBSET ReadPair)]]
  BY DEF IInv, TypeOK
<1>1. PICK msg \in arriving[m] :
        channel' = [channel EXCEPT ![m][msg.version] =
          IF msg.version \in open[m] THEN Append(@, msg.reads) ELSE @]
  BY DEF Push
<1>2. /\ arriving' = [arriving EXCEPT ![m] = {}]
      /\ UNCHANGED <<log, stage, reads, received, network, open, created, store, reply>>
  BY DEF Push, workVars
<1>3. /\ IsSent(msg) /\ msg.to = m /\ msg \notin network /\ msg.version \in open[m]
      /\ arriving[m] = {msg} /\ msg \in Message
  BY <1>0, <1>1 DEF MessagesInv
<1>4. PICK v \in Version : v = msg.version
  BY <1>3 DEF Message
<1>5. PICK n0 : n0 = msg.from
  OBVIOUS
<1>6. /\ m \in Writers(v) /\ n0 \in RemoteReaders(m, v) /\ msg = MessageOf(n0, m, v) /\ stage[n0][v] # "none"
      /\ msg.reads = SerialLocal(n0, v) /\ msg.reads \in SUBSET ReadPair
  BY <1>3, <1>4, <1>5 DEF IsSent, MessageOf, Message
<1>7. /\ \A n \in Machine, w \in Version :
           channel'[n][w] = IF n = m /\ w = v THEN Append(channel[m][v], SerialLocal(n0, v)) ELSE channel[n][w]
      /\ \A n \in Machine : arriving'[n] = IF n = m THEN {} ELSE arriving[n]
  BY <1>0, <1>1, <1>2, <1>3, <1>4, <1>6
<1> DEFINE c == channel[m][v]
<1>8. /\ c \in Seq(SUBSET ReadPair) /\ Len(c) \in Nat /\ DOMAIN c = 1 .. Len(c)
      /\ Append(c, SerialLocal(n0, v)) \in Seq(SUBSET ReadPair)
      /\ Len(Append(c, SerialLocal(n0, v))) = Len(c) + 1
      /\ DOMAIN Append(c, SerialLocal(n0, v)) = 1 .. (Len(c) + 1)
      /\ Append(c, SerialLocal(n0, v))[Len(c) + 1] = SerialLocal(n0, v)
      /\ \A i \in 1 .. Len(c) : Append(c, SerialLocal(n0, v))[i] = c[i]
  <2>1. c \in Seq(SUBSET ReadPair) /\ SerialLocal(n0, v) \in SUBSET ReadPair
    BY <1>0, <1>6
  <2> HIDE DEF c
  <2>2. QED BY <2>1
<1>9. TypeOK'
  <2>1. arriving' \in [Machine -> SUBSET Message]
    BY <1>0, <1>2
  <2>2. channel' \in [Machine -> [Version -> Seq(SUBSET ReadPair)]]
    BY <1>0, <1>1, <1>3, <1>4, <1>6, <1>8
  <2>3. QED BY <1>0, <1>2, <2>1, <2>2 DEF TypeOK
<1>10. StoreInv'
  BY <1>0, <1>2, StoreFrame
<1>11. MessagesInv'
  <2>1. \A x : IsSent(x) => IsSent(x)'
    BY <1>2, SentFrame
  <2>2. QED BY <1>0, <1>2, <1>7, <2>1 DEF MessagesInv
<1>12. ASSUME NEW k, NEW n \in Machine, NEW w \in Version
       PROVE  Travels(k, n, w)' <=> Travels(k, n, w) /\ ~ (k = n0 /\ n = m /\ w = v)
  <2>1. MessageOf(k, n, w)' = MessageOf(k, n, w)
    BY <1>2, LogFrame
  <2>2. MessageOf(k, n, w) = msg <=> k = n0 /\ n = m /\ w = v
    BY <1>6 DEF MessageOf
  <2>3. CASE n = m
    BY <1>2, <1>3, <1>7, <2>1, <2>2, <2>3 DEF Travels
  <2>4. CASE n # m
    BY <1>2, <1>7, <2>1, <2>4 DEF Travels
  <2>5. QED BY <2>3, <2>4
<1>13. n0 \notin Pushed(m, v) /\ n0 # m
  <2>1. Travels(n0, m, v)
    BY <1>1, <1>6 DEF Travels
  <2>2. QED BY <1>6, <2>1 DEF Pushed, RemoteReaders
<1>14. Pushed(m, v)' = Pushed(m, v) \cup {n0}
  <2>1. RemoteReaders(m, v)' = RemoteReaders(m, v)
    BY <1>2, LogFrame
  <2>2. QED BY <1>2, <1>6, <1>12, <2>1 DEF Pushed
<1>15. ASSUME NEW n \in Machine, NEW w \in Version PROVE ChannelInv(n, w)'
  <2>1. CASE ~ (n = m /\ w = v)
    <3>1. Pushed(n, w)' = Pushed(n, w)
      BY <1>2, <1>12, <2>1, StillPushed
    <3>2. channel'[n][w] = channel[n][w]
      BY <1>7, <2>1
    <3>3. QED BY <1>0, <1>2, <3>1, <3>2, ChannelFrame
  <2>2. CASE n = m /\ w = v
    <3>1. Writers(v)' = Writers(v) /\ Runners(v)' = Runners(v) /\ RemoteReaders(m, v)' = RemoteReaders(m, v)
          /\ \A k : SerialLocal(k, v)' = SerialLocal(k, v)
      BY <1>2, LogFrame
    <3>2. Used(m, v) /\ ChannelInv(m, v) /\ HeldInv(m, v) /\ NewInv(m, v) /\ OpenInv(m, v)
      BY <1>0, <1>6 DEF ChannelInv, Used
    <3>3. channel'[m][v] = Append(c, SerialLocal(n0, v))
      BY <1>7
    <3>4. ASSUME NEW r PROVE InChannel(r, m, v)' <=> InChannel(r, m, v) \/ r \in SerialLocal(n0, v)
      <4>1. DOMAIN channel'[m][v] = DOMAIN c \cup {Len(c) + 1}
        BY <1>8, <3>3
      <4>2. InChannel(r, m, v)' <=> \E i \in DOMAIN channel'[m][v] : r \in channel'[m][v][i]
        BY DEF InChannel
      <4>3. channel'[m][v][Len(c) + 1] = SerialLocal(n0, v) /\ \A i \in DOMAIN c : channel'[m][v][i] = c[i]
        BY <1>8, <3>3
      <4>4. QED BY <4>1, <4>2, <4>3 DEF InChannel
    <3>5. HeldInv(m, v)'
      BY <1>2, <1>14, <3>1, <3>2, <3>4 DEF HeldInv
    <3>6. NewInv(m, v)'
      <4>1. ASSUME NEW r \in SerialLocal(n0, v), NEW s \in ReadPair, s \in reads[m][v] \/ InChannel(s, m, v)
            PROVE  r[1] # s[1]
        <5>1. MachineOf[r[1]] = n0
          BY <1>0, SerialReadsFacts
        <5>2. PICK k : (k \in Pushed(m, v) \/ k = m) /\ s \in SerialLocal(k, v)
          BY <3>2, <4>1 DEF HeldInv
        <5>3. MachineOf[s[1]] = k
          BY <1>0, <5>2, SerialReadsFacts
        <5>4. QED BY <1>13, <5>1, <5>2, <5>3
      <4>2. /\ \A i \in DOMAIN c : \A s \in c[i] : s \in ReadPair /\ InChannel(s, m, v)
            /\ \A s \in reads[m][v] : s \in ReadPair
        <5>1. reads[m][v] \subseteq ReadPair /\ \A i \in DOMAIN c : c[i] \subseteq ReadPair
          BY <1>0, <1>8 DEF TypeOK
        <5>2. QED BY <5>1 DEF InChannel
      <4>3. DOMAIN channel'[m][v] = DOMAIN c \cup {Len(c) + 1} /\ Len(c) + 1 \notin DOMAIN c
        BY <1>8, <3>3
      <4>4. channel'[m][v][Len(c) + 1] = SerialLocal(n0, v) /\ \A i \in DOMAIN c : channel'[m][v][i] = c[i]
        BY <1>8, <3>3
      <4>5. ASSUME NEW i \in DOMAIN channel'[m][v], NEW j \in DOMAIN channel'[m][v], i # j,
                   NEW r \in channel'[m][v][i], NEW s \in channel'[m][v][j]
            PROVE  r[1] # s[1]
        <5>1. CASE i \in DOMAIN c /\ j \in DOMAIN c
          BY <3>2, <4>4, <4>5, <5>1 DEF NewInv
        <5>2. CASE i = Len(c) + 1
          <6>1. j \in DOMAIN c /\ r \in SerialLocal(n0, v) /\ s \in c[j]
            BY <4>3, <4>4, <4>5, <5>2
          <6>2. QED BY <4>1, <4>2, <6>1
        <5>3. CASE j = Len(c) + 1
          <6>1. i \in DOMAIN c /\ s \in SerialLocal(n0, v) /\ r \in c[i]
            BY <4>3, <4>4, <4>5, <5>3
          <6>2. s[1] # r[1]
            BY <4>1, <4>2, <6>1
          <6>3. QED BY <6>2
        <5>4. QED BY <4>3, <4>5, <5>1, <5>2, <5>3
      <4>6. ASSUME NEW i \in DOMAIN channel'[m][v], NEW r \in channel'[m][v][i], NEW s \in reads[m][v]
            PROVE  r[1] # s[1]
        <5>1. CASE i \in DOMAIN c
          BY <3>2, <4>4, <4>6, <5>1 DEF NewInv
        <5>2. CASE i = Len(c) + 1
          BY <4>1, <4>2, <4>4, <4>6, <5>2
        <5>3. QED BY <4>3, <4>6, <5>1, <5>2
      <4>7. QED BY <1>2, <4>5, <4>6 DEF NewInv
    <3>7. OpenInv(m, v)'
      BY <1>2, <3>1, <3>2 DEF OpenInv
    <3>8. received'[m][v] + Len(channel'[m][v]) = Cardinality(Pushed(m, v)')
      <4>1. IsFiniteSet(Pushed(m, v)) /\ Cardinality(Pushed(m, v)) \in Nat
        BY <1>0, MachineFacts
      <4>2. Cardinality(Pushed(m, v) \cup {n0}) = Cardinality(Pushed(m, v)) + 1
        BY <1>13, <4>1, FS_AddElement
      <4>3. received[m][v] + Len(c) = Cardinality(Pushed(m, v)) /\ received[m][v] \in Nat
        BY <1>0, <3>2 DEF Used, TypeOK
      <4>4. QED BY <1>2, <1>8, <1>14, <3>3, <4>1, <4>2, <4>3
    <3>9. Used(m, v)'
      BY <1>2, <3>2, <3>5, <3>6, <3>7, <3>8 DEF Used
    <3>10. QED BY <1>2, <1>6, <2>2, <3>1, <3>2, <3>9 DEF ChannelInv
  <2>3. QED BY <2>1, <2>2
<1>16. QED BY <1>9, <1>10, <1>11, <1>15 DEF IInv

----------------------------------------------------------------------------
(***************************************************************************)
(* Begin, and all steps.                                                   *)
(***************************************************************************)
LEMMA BeginStep ==
  ASSUME IInv, NEW m \in Machine, NEW v \in Version, Begin(m, v)
  PROVE  IInv'
<1>0. /\ TypeOK /\ StoreInv /\ MessagesInv /\ log \in [Version -> Footprint] /\ ChannelInv(m, v)
      /\ \A n \in Machine, w \in Version : ChannelInv(n, w)
      /\ stage \in [Machine -> [Version -> Stage]] /\ network \in SUBSET Message
      /\ reads \in [Machine -> [Version -> SUBSET ReadPair]]
  BY DEF IInv, TypeOK
<1>1. /\ stage[m][v] = "none" /\ m \in Runners(v)
      /\ \A w \in LocalPredecessors(m, v) : stage[m][w] = "done"
      /\ reads' = [reads EXCEPT ![m][v] = LocalReads(m, v)]
      /\ Send(m, v)
      /\ UNCHANGED <<log, received, arriving, channel, store, reply>>
  BY DEF Begin
<1>2. LocalReads(m, v) = SerialLocal(m, v)
  BY <1>0, <1>1, ReadsAreSerial
<1>3. SerialLocal(m, v) \subseteq ReadPair
  BY <1>0, SerialReadsFacts
<1> DEFINE next == IF m \in Writers(v) THEN "waiting" ELSE "returning"
<1>4. stage' = [stage EXCEPT ![m][v] = next]
  BY DEF Begin
<1>5. /\ stage' \in [Machine -> [Version -> Stage]]
      /\ \A n \in Machine, w \in Version : stage'[n][w] = IF n = m /\ w = v THEN next ELSE stage[n][w]
  <2>1. next \in Stage
    BY DEF Stage
  <2> HIDE DEF next
  <2>2. QED BY <1>0, <1>4, <2>1
<1>6. \A n \in Machine, w \in Version :
        /\ stage[n][w] # "none" => stage'[n][w] # "none"
        /\ ~ (n = m /\ w = v) => stage'[n][w] = stage[n][w]
  BY <1>5
<1>7. /\ reads' \in [Machine -> [Version -> SUBSET ReadPair]]
      /\ \A n \in Machine, w \in Version :
           reads'[n][w] = IF n = m /\ w = v THEN SerialLocal(m, v) ELSE reads[n][w]
  BY <1>0, <1>1, <1>2, <1>3
<1> DEFINE sent == IF m \in Readers(v) THEN {MessageOf(m, w, v) : w \in RemoteWriters(m, v)} ELSE {}
<1>8. network' = network \cup sent
  BY <1>1, <1>2 DEF Send, MessagesTo, MessageOf
<1>9. /\ open' \in [Machine -> SUBSET Version] /\ created' \in [Machine -> [Version -> Nat]]
      /\ \A n \in Machine, w \in Version :
           /\ (w \in open'[n]) <=> w \in open[n] \/ (n = m /\ w = v /\ m \in Writers(v))
           /\ created'[n][w] = IF n = m /\ w = v /\ m \in Writers(v) /\ v \notin open[m]
                               THEN created[n][w] + 1 ELSE created[n][w]
      /\ \A n \in Machine : open[n] \subseteq open'[n]
  <2>1. CASE m \in Writers(v)
    <3>1. OpenChannel(m, v)
      BY <2>1 DEF Begin
    <3>2. QED BY <1>0, <2>1, <3>1, OpenFrame
  <2>2. CASE m \notin Writers(v)
    <3>1. UNCHANGED <<open, created>>
      BY <2>2 DEF Begin
    <3>2. QED BY <1>0, <2>2, <3>1 DEF TypeOK
  <2>3. QED BY <2>1, <2>2
<1>10. \A x \in sent : /\ x \in Message /\ IsSent(x)' /\ x.from = m /\ x.version = v
  <2> TAKE x \in sent
  <2>1. m \in Readers(v)
    OBVIOUS
  <2>2. PICK w \in RemoteWriters(m, v) : x = MessageOf(m, w, v)
    BY <2>1
  <2>3. w \in Writers(v) /\ w # m /\ w \in Machine
    BY <1>0, MachineFacts DEF RemoteWriters
  <2>4. m \in RemoteReaders(w, v)
    BY <2>1, <2>3 DEF RemoteReaders
  <2>5. x.to = w /\ x.from = m /\ x.version = v /\ x.reads = SerialLocal(m, v) /\ x \in Message
    BY <1>3, <2>3, <2>2 DEF MessageOf, Message
  <2>6. x = MessageOf(m, w, v)'
    BY <1>1, <2>2, LogFrame
  <2>7. stage'[m][v] # "none"
    BY <1>5
  <2>8. Writers(v)' = Writers(v) /\ RemoteReaders(w, v)' = RemoteReaders(w, v)
    BY <1>1, LogFrame
  <2>9. IsSent(x)'
    BY <2>3, <2>4, <2>5, <2>6, <2>7, <2>8 DEF IsSent
  <2>10. QED BY <2>5, <2>9
<1> HIDE DEF sent
<1>11. TypeOK'
  <2>1. network' \in SUBSET Message
    BY <1>0, <1>8, <1>10
  <2>2. QED BY <1>0, <1>1, <1>5, <1>7, <1>9, <2>1 DEF TypeOK
<1>12. StoreInv'
  <2>1. \A k \in Key : MachineOf[k] \in Machine
    BY RemoteReadsAssumption
  <2>2. \A n \in Machine, w \in Version : stage'[n][w] = "done" <=> stage[n][w] = "done"
    BY <1>1, <1>5
  <2>3. QED BY <1>0, <1>1, <2>1, <2>2, StoreFrame
<1>13. \A x \in Message : IsSent(x) => IsSent(x)' /\ x \notin sent
  <2> TAKE x \in Message
  <2> HAVE IsSent(x)
  <2>1. x.from \in Machine /\ x.version \in Version /\ stage[x.from][x.version] # "none"
    BY DEF Message, IsSent
  <2>2. IsSent(x)'
    BY <1>1, <1>6, <2>1, SentFrame
  <2>3. ~ (x.from = m /\ x.version = v)
    BY <1>1, <2>1
  <2>4. QED BY <1>10, <2>2, <2>3
<1>14. MessagesInv'
  <2>1. \A x \in network' : IsSent(x)'
    BY <1>0, <1>8, <1>10, <1>13 DEF MessagesInv
  <2>2. ASSUME NEW n \in Machine, NEW x \in arriving[n]
        PROVE  /\ IsSent(x)' /\ x.to = n /\ x \notin network' /\ x.version \in open'[n]
               /\ arriving[n] = {x}
    <3>1. /\ IsSent(x) /\ x.to = n /\ x \notin network /\ x.version \in open[n]
          /\ arriving[n] = {x} /\ x \in Message
      BY <1>0 DEF MessagesInv, TypeOK
    <3>2. QED BY <1>8, <1>9, <1>13, <3>1
  <2>3. QED BY <1>1, <2>1, <2>2 DEF MessagesInv
\* The message of a reader that begins is on the network: nobody has it yet.
<1>15. ASSUME NEW n \in Machine, NEW w \in Version, n \in Writers(w) PROVE Pushed(n, w)' = Pushed(n, w)
  <2>1. ASSUME NEW k \in RemoteReaders(n, w)
        PROVE  (stage'[k][w] # "none" /\ ~ Travels(k, n, w)') <=> (stage[k][w] # "none" /\ ~ Travels(k, n, w))
    <3>1. k \in Machine /\ k \in Readers(w) /\ k # n
      BY <1>0, MachineFacts DEF RemoteReaders
    <3>2. MessageOf(k, n, w)' = MessageOf(k, n, w)
      BY <1>1, LogFrame
    <3>3. CASE k = m /\ w = v
      <4>1. n \in RemoteWriters(m, v)
        BY <1>15, <3>1, <3>3 DEF RemoteWriters
      <4>2. MessageOf(k, n, w) \in sent
        BY <3>1, <3>3, <4>1 DEF sent
      <4>3. Travels(k, n, w)'
        BY <1>8, <3>2, <4>2 DEF Travels
      <4>4. QED BY <1>1, <3>3, <4>3
    <3>4. CASE ~ (k = m /\ w = v)
      <4>1. MessageOf(k, n, w).from = k /\ MessageOf(k, n, w).version = w
        BY DEF MessageOf
      <4>2. MessageOf(k, n, w) \notin sent
        BY <1>10, <3>4, <4>1
      <4>3. Travels(k, n, w)' <=> Travels(k, n, w)
        BY <1>1, <1>8, <3>2, <4>2 DEF Travels
      <4>4. QED BY <1>6, <3>1, <3>4, <4>3
    <3>5. QED BY <3>3, <3>4
  <2>2. QED BY <1>1, <2>1, StillPushed
<1>16. ASSUME NEW n \in Machine, NEW w \in Version PROVE ChannelInv(n, w)'
  <2>1. CASE ~ (n = m /\ w = v)
    <3>1. ((w \in open'[n]) <=> w \in open[n]) /\ created'[n][w] = created[n][w]
      BY <1>9, <2>1
    <3>2. stage'[n][w] = stage[n][w] /\ reads'[n][w] = reads[n][w]
      BY <1>6, <1>7, <2>1
    <3>3. QED BY <1>0, <1>1, <1>15, <3>1, <3>2, ChannelFrame
  <2>2. CASE n = m /\ w = v
    <3>1. Writers(v)' = Writers(v) /\ Runners(v)' = Runners(v) /\ RemoteReaders(m, v)' = RemoteReaders(m, v)
          /\ \A k : SerialLocal(k, v)' = SerialLocal(k, v)
      BY <1>1, LogFrame
    <3>2. stage'[m][v] = next /\ reads'[m][v] = SerialLocal(m, v)
      BY <1>5, <1>7
    <3>3. CASE m \notin Writers(v)
      <4>1. Unused(m, v)
        BY <1>0, <3>3 DEF ChannelInv
      <4>2. v \notin open'[m] /\ created'[m][v] = created[m][v]
        BY <1>9, <3>3, <4>1 DEF Unused
      <4>3. Unused(m, v)'
        BY <1>1, <3>2, <3>3, <4>1, <4>2 DEF Unused
      <4>4. QED BY <1>1, <2>2, <3>1, <3>3, <4>3 DEF ChannelInv
    <3>4. CASE m \in Writers(v)
      <4>0. Used(m, v) /\ HeldInv(m, v) /\ NewInv(m, v) /\ OpenInv(m, v) /\ reads[m][v] = {}
        BY <1>0, <1>1, <3>4 DEF ChannelInv, Used, OpenInv
      <4>1. stage'[m][v] = "waiting"
        BY <3>2, <3>4
      <4>2. \A r : InChannel(r, m, v)' <=> InChannel(r, m, v)
        BY <1>1 DEF InChannel
      <4>3. Pushed(m, v)' = Pushed(m, v)
        BY <1>15, <3>4
      <4>4. HeldInv(m, v)'
        BY <1>1, <3>1, <3>2, <4>0, <4>1, <4>2, <4>3 DEF HeldInv
      <4>5. NewInv(m, v)'
        <5>1. ASSUME NEW i \in DOMAIN channel[m][v], NEW r \in channel[m][v][i], NEW s \in SerialLocal(m, v)
              PROVE  r[1] # s[1]
          <6>1. channel[m][v] \in Seq(SUBSET ReadPair)
            BY <1>0 DEF TypeOK
          <6>2. r \in ReadPair /\ InChannel(r, m, v)
            BY <5>1, <6>1 DEF InChannel
          <6>3. PICK k \in Pushed(m, v) : r \in SerialLocal(k, v)
            BY <1>1, <4>0, <6>2 DEF HeldInv
          <6>4. k # m
            BY <1>0, <6>3, MachineFacts
          <6>5. MachineOf[r[1]] = k /\ MachineOf[s[1]] = m
            BY <1>0, <6>3, SerialReadsFacts
          <6>6. QED BY <6>4, <6>5
        <5>2. QED BY <1>1, <3>2, <4>0, <5>1 DEF NewInv
      <4>6. OpenInv(m, v)'
        <5>1. v \in open'[m] /\ created'[m][v] = IF v \in open[m] THEN created[m][v] ELSE created[m][v] + 1
          BY <1>9, <3>4
        <5>2. created'[m][v] = 1
          BY <1>1, <4>0, <5>1 DEF OpenInv
        <5>3. QED BY <4>1, <5>1, <5>2 DEF OpenInv
      <4>7. Used(m, v)'
        BY <1>1, <4>0, <4>1, <4>3, <4>4, <4>5, <4>6 DEF Used
      <4>8. QED BY <1>1, <2>2, <3>1, <3>4, <4>7 DEF ChannelInv
    <3>5. QED BY <3>3, <3>4
  <2>3. QED BY <2>1, <2>2
<1>17. QED BY <1>11, <1>12, <1>14, <1>16 DEF IInv

LEMMA NextInv == IInv /\ [Next]_vars => IInv'
<1> SUFFICES ASSUME IInv, [Next]_vars PROVE IInv'
  OBVIOUS
<1>1. CASE Next
  <2>1. ASSUME NEW m \in Machine, NEW msg \in network, Arrive(m, msg) PROVE IInv'
    BY <2>1, ArriveStep
  <2>2. ASSUME NEW m \in Machine, Push(m) PROVE IInv'
    BY <2>2, PushStep
  <2>3. ASSUME NEW m \in Machine, NEW v \in Version, Worker(m, v) PROVE IInv'
    BY <2>3, BeginStep, ReceiveStep, CloseStep, ExecuteStep, ReturnStep DEF Worker
  <2>4. QED BY <1>1, <2>1, <2>2, <2>3 DEF Next, Connection
<1>2. CASE UNCHANGED vars
  <2>1. UNCHANGED <<log, stage, reads, received, network, arriving, open, channel, created, store, reply>>
    BY <1>2 DEF vars, workVars, dataVars
  <2>2. TypeOK' /\ MessagesInv'
    BY <2>1, SentFrame DEF IInv, TypeOK, MessagesInv
  <2>3. StoreInv'
    BY <2>1, StoreFrame DEF IInv
  <2>4. \A m \in Machine, v \in Version : ChannelInv(m, v)'
    BY <2>1, SameNet, StillPushed, ChannelFrame DEF IInv
  <2>5. QED BY <2>2, <2>3, <2>4 DEF IInv
<1>3. QED BY <1>1, <1>2

----------------------------------------------------------------------------
(***************************************************************************)
(* The theorems.                                                           *)
(***************************************************************************)
\* The inductive invariant.
THEOREM IInvHolds == Spec => []IInv
<1>1. QED BY InitInv, NextInv, PTL DEF Spec

\* The types are right; a data channel is created once, is there when a message
\* that was looked up is pushed, and is gone with all messages when the action
\* is over; and no message brings a key that a context has: the CHECK of the
\* constructor never fails (metadata_store.cc:137-222).
THEOREM ConsistentHolds == Spec => []Consistent
BY IInvHolds, InvConsistent, PTL

\* All machines that execute an action have read what the serial execution of
\* the log reads, of all keys, although every key was read by its own machine
\* at its own time: so they write and answer the same (metadata_store.cc:137-222).
THEOREM WritersReadSeriallyHolds == Spec => []WritersReadSerially
BY IInvHolds, InvSerial, PTL

\* Once a prefix of the log is executed on all machines, a read at the version
\* after it sees what the serial execution leaves: no action is half installed
\* and none is aborted on one machine only (metadata_store.cc:137-242).
THEOREM StoreIsSerialHolds == Spec => []StoreIsSerial
BY IInvHolds, InvSerial, PTL
============================================================================
