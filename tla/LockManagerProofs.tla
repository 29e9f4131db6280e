------------------------- MODULE LockManagerProofs -------------------------
(***************************************************************************)
(* LockManager keeps its documented invariant, and its wait counters are   *)
(* exact, for any number of actions and keys.                              *)
(***************************************************************************)
EXTENDS LockManager, FiniteSetTheorems, TLAPS

Types ==
  /\ lockTable \in [Key -> Seq(LockRequest(Action))]
  /\ waiting \in [Action -> Nat]
  /\ called \in SUBSET (Action \X Key)
  /\ granted \in SUBSET (Action \X Key)
  /\ cancelled \in SUBSET Action

RequestsAreCalled ==
  \A k \in Key : /\ Distinct(lockTable[k])
                 /\ \A a \in Action : Requested(lockTable[k], a) => <<a, k>> \in called

OwnersOf(k) == {a \in Action : <<a, k>> \in granted}

OwnersAreGranted == \A k \in Key : OwnersOf(k) = Owners(lockTable[k])

\* The queues of requests, with the grants read off them, and the counters.
IInv == Types /\ RequestsAreCalled /\ OwnersAreGranted /\ WaitingCountsPending

----------------------------------------------------------------------------
(***************************************************************************)
(* One queue: what pushing and erasing a request do to the owners of a     *)
(* lock.  The code grants incrementally; these lemmas say that it always   *)
(* ends up with the owners that lock_manager.h reads off the queue.        *)
(***************************************************************************)
\* Owners are actions with a request.
LEMMA OwnersAreRequested ==
  ASSUME NEW A, NEW q \in Seq(LockRequest(A)), NEW a \in Owners(q)
  PROVE  a \in A /\ Requested(q, a)
<1>1. PICK i \in DOMAIN q : q[i].action = a
  BY DEF Owners
<1>2. q[i] \in LockRequest(A)
  OBVIOUS
<1>3. QED BY <1>1, <1>2 DEF LockRequest, Requested

\* The first request of an action that has one.
LEMMA TargetOfRequest ==
  ASSUME NEW A, NEW q \in Seq(LockRequest(A)), NEW a, Requested(q, a), Distinct(q)
  PROVE  Target(q, a) \in DOMAIN q /\ q[Target(q, a)].action = a
<1>1. PICK i \in DOMAIN q : q[i].action = a
  BY DEF Requested
<1>2. \A j \in 1 .. (i - 1) : q[j].action # a
  <2>1. DOMAIN q = 1 .. Len(q) /\ Len(q) \in Nat
    OBVIOUS
  <2>2. QED BY <1>1, <2>1 DEF Distinct
<1>3. QED BY <1>1, <1>2 DEF Target

----------------------------------------------------------------------------
\* Pushing a request of a new action makes the action an owner iff the push
\* is reported as granted, and changes nothing for the others.
LEMMA PushOwners ==
  ASSUME NEW A, NEW q \in Seq(LockRequest(A)), NEW a \in A, NEW m \in LockMode,
         Distinct(q), ~ Requested(q, a)
  PROVE  LET q2 == Append(q, [action |-> a, mode |-> m])
         IN  /\ q2 \in Seq(LockRequest(A))
             /\ Distinct(q2)
             /\ \A b : Requested(q2, b) <=> Requested(q, b) \/ b = a
             /\ a \notin Owners(q)
             /\ Owners(q2) = IF GrantedOnPush(q, m) THEN Owners(q) \cup {a}
                                                    ELSE Owners(q)
<1> DEFINE q2 == Append(q, [action |-> a, mode |-> m])
           n  == Len(q) + 1
<1>1. /\ q2 \in Seq(LockRequest(A))
      /\ Len(q2) = n /\ DOMAIN q2 = 1 .. n /\ DOMAIN q = 1 .. Len(q)
      /\ Len(q) \in Nat
      /\ \A i \in 1 .. Len(q) : q2[i] = q[i]
      /\ q2[n] = [action |-> a, mode |-> m]
  BY DEF LockRequest
<1>2. \A i \in 1 .. Len(q) : q[i].mode \in LockMode
  <2>1. \A i \in 1 .. Len(q) : q[i] \in LockRequest(A)
    OBVIOUS
  <2>2. QED BY <2>1 DEF LockRequest
<1> HIDE DEF q2
<1>3. Distinct(q2)
  BY <1>1 DEF Distinct, Requested
<1>4. \A b : Requested(q2, b) <=> Requested(q, b) \/ b = a
  BY <1>1 DEF Requested
<1>5. a \notin Owners(q)
  BY <1>1 DEF Owners, Requested
<1>6. \A i \in 1 .. Len(q) : Holds(q2, i) <=> Holds(q, i)
  BY <1>1 DEF Holds
<1>7. Holds(q2, n) <=> GrantedOnPush(q, m)
  BY <1>1, <1>2 DEF Holds, GrantedOnPush, WriteRequestsPrecede, LockMode, SHARED, EXCLUSIVE
<1>8. Owners(q2) = IF GrantedOnPush(q, m) THEN Owners(q) \cup {a} ELSE Owners(q)
  <2>1. \A b : b \in Owners(q2) <=> b \in Owners(q) \/ (b = a /\ Holds(q2, n))
    BY <1>1, <1>6 DEF Owners
  <2>2. QED
    BY <2>1, <1>7
<1>9. QED
  BY <1>1, <1>3, <1>4, <1>5, <1>8 DEF q2

----------------------------------------------------------------------------
\* Erasing the request at position t removes its action, gives the lock to
\* NewOwners, who had not held it, and changes nothing for the others.
LEMMA EraseOwners ==
  ASSUME NEW A, NEW q \in Seq(LockRequest(A)), NEW t \in DOMAIN q, Distinct(q)
  PROVE  /\ Erase(q, t) \in Seq(LockRequest(A))
         /\ Distinct(Erase(q, t))
         /\ \A b : Requested(Erase(q, t), b) <=> Requested(q, b) /\ b # q[t].action
         /\ \A b \in NewOwners(q, t) : Requested(q, b) /\ b # q[t].action /\ b \notin Owners(q)
         /\ Owners(Erase(q, t)) = (Owners(q) \ {q[t].action}) \cup NewOwners(q, t)
<1> DEFINE q2 == Erase(q, t)
           n  == Len(q)
           At(i) == IF i < t THEN i ELSE i + 1
           \* position i inherits the lock
           Inherits(i) == /\ t < i
                          /\ \/ t = 1
                             \/ \A j \in 1 .. (t - 1) : q[j].mode = SHARED
                          /\ ~ Holds(q, i)
                          /\ \/ i = 2
                             \/ \A j \in (1 .. i) \ {t} : q[j].mode = SHARED
<1>1. /\ n \in Nat /\ DOMAIN q = 1 .. n /\ t \in 1 .. n
      /\ \A i \in 1 .. n : q[i] \in LockRequest(A)
  OBVIOUS
<1>2. /\ \A i \in 1 .. n : q[i].mode \in LockMode
      /\ \A i \in 1 .. n : q[i].mode = SHARED \/ q[i].mode = EXCLUSIVE
      /\ SHARED # EXCLUSIVE
  BY <1>1 DEF LockRequest, LockMode, SHARED, EXCLUSIVE
<1>3. /\ q2 \in Seq(LockRequest(A))
      /\ DOMAIN q2 = 1 .. (n - 1)
      /\ \A i \in 1 .. (n - 1) : q2[i] = q[At(i)]
  BY <1>1 DEF Erase
<1>4. \A i \in 1 .. (n - 1) : At(i) \in (1 .. n) \ {t}
  BY <1>1
<1>5. \A i \in (1 .. n) \ {t} : \E j \in 1 .. (n - 1) : At(j) = i
  <2>1. TAKE i \in (1 .. n) \ {t}
  <2>2. CASE i < t
    BY <2>2, <1>1
  <2>3. CASE i > t
    <3>1. i - 1 \in 1 .. (n - 1) /\ At(i - 1) = i
      BY <2>3, <1>1
    <3>2. QED BY <3>1
  <2>4. QED BY <2>2, <2>3, <1>1
<1>6. \A i, j \in 1 .. (n - 1) : At(i) = At(j) => i = j
  BY <1>1
<1> HIDE DEF q2, At
<1>7. Distinct(q2)
  <2>1. ASSUME NEW i \in 1 .. (n - 1), NEW j \in 1 .. (n - 1), q2[i].action = q2[j].action
        PROVE  i = j
    <3>1. q[At(i)].action = q[At(j)].action
      BY <1>3, <2>1
    <3>2. At(i) = At(j)
      BY <1>1, <1>4, <3>1 DEF Distinct
    <3>3. QED BY <1>6, <3>2
  <2>2. QED BY <1>3, <2>1 DEF Distinct
<1>8. \A b : Requested(q2, b) <=> Requested(q, b) /\ b # q[t].action
  <2>1. ASSUME NEW b, Requested(q2, b)
        PROVE  Requested(q, b) /\ b # q[t].action
    <3>1. PICK j \in 1 .. (n - 1) : q2[j].action = b
      BY <1>3, <2>1 DEF Requested
    <3>2. q[At(j)].action = b /\ At(j) \in (1 .. n) \ {t}
      BY <1>3, <1>4, <3>1
    <3>3. QED BY <1>1, <3>2 DEF Requested, Distinct
  <2>2. ASSUME NEW b, Requested(q, b), b # q[t].action
        PROVE  Requested(q2, b)
    <3>1. PICK i \in 1 .. n : q[i].action = b
      BY <1>1, <2>2 DEF Requested
    <3>2. PICK j \in 1 .. (n - 1) : At(j) = i
      BY <1>5, <2>2, <3>1
    <3>3. QED BY <1>3, <3>1, <3>2 DEF Requested
  <2>3. QED BY <2>1, <2>2
<1> USE DEF At
<1>9. \A j \in 1 .. (n - 1) :
        Holds(q2, j) <=> Holds(q, At(j)) \/ Inherits(At(j))
  <2> SUFFICES ASSUME NEW j \in 1 .. (n - 1)
               PROVE  Holds(q2, j) <=> Holds(q, At(j)) \/ Inherits(At(j))
    OBVIOUS
  <2>1. Holds(q2, j) <=> j = 1 \/ \A i \in 1 .. j : q[At(i)].mode = SHARED
    <3>1. \A i \in 1 .. j : q2[i] = q[At(i)]
      <4>1. \A i \in 1 .. j : i \in 1 .. (n - 1)
        BY <1>1
      <4>2. QED BY <1>3, <4>1
    <3> HIDE DEF At
    <3>2. QED BY <3>1 DEF Holds
  <2>2. CASE j < t
    <3>1. j \in Nat /\ t \in Nat /\ \A i \in 1 .. j : At(i) = i
      BY <2>2, <1>1
    <3>2. At(j) = j /\ ~ Inherits(j)
      BY <2>2, <1>1
    <3> HIDE DEF At, Inherits
    <3>3. Holds(q, j) <=> j = 1 \/ \A i \in 1 .. j : q[At(i)].mode = SHARED
      BY <3>1 DEF Holds
    <3>4. QED BY <2>1, <3>2, <3>3
  <2>3. CASE j >= t
    <3>1. At(j) = j + 1
      BY <2>3
    <3>2. (\A i \in 1 .. j : q[At(i)].mode = SHARED)
            <=> (\A i \in (1 .. (j + 1)) \ {t} : q[i].mode = SHARED)
      <4>1. \A i \in 1 .. j : At(i) \in (1 .. (j + 1)) \ {t}
        BY <1>1
      <4>2. ASSUME NEW i \in (1 .. (j + 1)) \ {t}
            PROVE  \E k \in 1 .. j : At(k) = i
        <5>1. CASE i < t
          <6>1. i \in 1 .. j /\ At(i) = i
            BY <5>1, <2>3, <1>1
          <6>2. QED BY <6>1
        <5>2. CASE i > t
          <6>1. i - 1 \in 1 .. j /\ At(i - 1) = i
            BY <5>2, <1>1
          <6>2. QED BY <6>1
        <5>3. QED BY <5>1, <5>2, <1>1
      <4>3. QED BY <4>1, <4>2
    <3>3. Holds(q, j + 1) <=> \A i \in 1 .. (j + 1) : q[i].mode = SHARED
      BY <1>1 DEF Holds
    <3>4. (j = 1) <=> (j + 1 = 2)
      OBVIOUS
    <3>5. t < j + 1 /\ t \in 1 .. (j + 1)
      BY <2>3, <1>1
    <3>6. (j = 1 => t = 1)
      BY <2>3, <1>1
    <3>7. (\A i \in (1 .. (j + 1)) \ {t} : q[i].mode = SHARED)
             => \A i \in 1 .. (t - 1) : q[i].mode = SHARED
      BY <3>5, <1>1
    <3>8. QED
      BY <2>1, <3>1, <3>2, <3>3, <3>4, <3>5, <3>6, <3>7
  <2>4. QED BY <2>2, <2>3, <1>1
<1> HIDE DEF At
<1>10. ASSUME NEW b
       PROVE  b \in NewOwners(q, t) <=> \E i \in 1 .. n : q[i].action = b /\ Inherits(i)
  <2>1. CASE t = n
    BY <2>1, <1>1 DEF NewOwners
  <2>2. CASE t # n /\ q[t + 1].mode = EXCLUSIVE
    <3>1. b \in NewOwners(q, t) <=> t = 1 /\ b = q[2].action
      BY <2>2, <1>1, <1>2 DEF NewOwners
    <3>2. \A i \in 1 .. n : Inherits(i) <=> t = 1 /\ i = 2
      BY <2>2, <1>1, <1>2 DEF Holds
    <3>3. QED BY <2>2, <3>1, <3>2, <1>1
  <2>3. CASE t # n /\ q[t + 1].mode = SHARED
    <3> DEFINE Frees == /\ q[t].mode = EXCLUSIVE
                        /\ \A j \in 1 .. (t - 1) : q[j].mode = SHARED
    <3>1. b \in NewOwners(q, t) <=> Frees /\ b \in SharedRun(q, t + 1)
      BY <2>3, <1>1, <1>2 DEF NewOwners, WriteRequestsPrecede
    <3>2. b \in SharedRun(q, t + 1) <=>
            \E i \in 1 .. n : /\ q[i].action = b /\ t < i
                             /\ \A j \in (t + 1) .. i : q[j].mode = SHARED
      BY <1>1 DEF SharedRun
    <3>3. \A i \in 1 .. n : Inherits(i) <=>
            Frees /\ t < i /\ \A j \in (t + 1) .. i : q[j].mode = SHARED
      BY <2>3, <1>1, <1>2 DEF Holds
    <3>4. QED BY <3>1, <3>2, <3>3
  <2>4. QED BY <2>1, <2>2, <2>3, <1>1, <1>2
<1>11. \A b \in NewOwners(q, t) : Requested(q, b) /\ b # q[t].action /\ b \notin Owners(q)
  BY <1>1, <1>10 DEF Requested, Owners, Distinct
<1>12. Owners(q2) = (Owners(q) \ {q[t].action}) \cup NewOwners(q, t)
  <2>1. ASSUME NEW b
        PROVE  b \in Owners(q2) <=>
                 (b \in Owners(q) /\ b # q[t].action) \/ b \in NewOwners(q, t)
    <3>1. b \in Owners(q2) <=> \E j \in 1 .. (n - 1) :
            q[At(j)].action = b /\ (Holds(q, At(j)) \/ Inherits(At(j)))
      BY <1>3, <1>9 DEF Owners
    <3>2. b \in Owners(q2) <=> \E i \in (1 .. n) \ {t} :
            q[i].action = b /\ (Holds(q, i) \/ Inherits(i))
      BY <3>1, <1>4, <1>5
    <3>3. \A i \in 1 .. n : q[i].action = q[t].action <=> i = t
      BY <1>1 DEF Distinct
    <3>4. QED BY <3>2, <3>3, <1>1, <1>10 DEF Owners
  <2>2. QED BY <2>1
<1>13. QED
  BY <1>3, <1>7, <1>8, <1>11, <1>12 DEF q2

----------------------------------------------------------------------------
LEMMA GrantsMatch == Types /\ OwnersAreGranted => GrantsMatchQueue
<1> SUFFICES ASSUME Types, OwnersAreGranted PROVE GrantsMatchQueue
  OBVIOUS
<1>1. ASSUME NEW p \in granted
      PROVE  \E k \in Key : p \in Owners(lockTable[k]) \X {k}
  <2>1. PICK a \in Action, k \in Key : p = <<a, k>>
    BY DEF Types
  <2>2. a \in Owners(lockTable[k])
    BY <2>1, <1>1 DEF OwnersAreGranted, OwnersOf
  <2>3. QED BY <2>1, <2>2
<1>2. ASSUME NEW k \in Key, NEW p \in Owners(lockTable[k]) \X {k}
      PROVE  p \in granted
  <2>1. PICK a \in Owners(lockTable[k]) : p = <<a, k>>
    OBVIOUS
  <2>2. a \in OwnersOf(k)
    BY DEF OwnersAreGranted
  <2>3. QED BY <2>1, <2>2 DEF OwnersOf
<1>3. QED BY <1>1, <1>2 DEF GrantsMatchQueue

LEMMA PendingIsFinite ==
  ASSUME NEW a
  PROVE  IsFiniteSet(PendingKeys(a)) /\ Cardinality(PendingKeys(a)) \in Nat
<1>1. PendingKeys(a) \subseteq Key
  BY DEF PendingKeys
<1>2. QED BY <1>1, LockManagerAssumption, FS_Subset, FS_CardinalityType

----------------------------------------------------------------------------
LEMMA InitInv == Init => IInv
<1> SUFFICES ASSUME Init PROVE IInv
  OBVIOUS
<1>1. Types
  BY DEF Init, Types
<1>2. RequestsAreCalled
  BY DEF Init, RequestsAreCalled, Distinct, Requested
<1>3. OwnersAreGranted
  BY DEF Init, OwnersAreGranted, OwnersOf, Owners
<1>4. WaitingCountsPending
  <2>1. \A a \in Action : PendingKeys(a) = {}
    BY DEF Init, PendingKeys, Requested
  <2>2. Cardinality({}) = 0
    BY FS_EmptySet
  <2>3. \A a \in Action : waiting[a] = 0
    BY DEF Init
  <2>4. QED BY <2>1, <2>2, <2>3 DEF WaitingCountsPending
<1>5. QED BY <1>1, <1>2, <1>3, <1>4 DEF IInv

\* A request adds its key to the pending ones of its action, if it is not
\* granted, and changes the pending keys of nobody else.
LEMMA RequestPending ==
  ASSUME IInv, NEW a \in Action, NEW k \in Key, NEW m \in LockMode, Request(a, k, m)
  PROVE  \A b \in Action :
           PendingKeys(b)' = IF b = a /\ ~ GrantedOnPush(lockTable[k], m)
                             THEN PendingKeys(b) \cup {k} ELSE PendingKeys(b)
<1> DEFINE q == lockTable[k]
           r == [action |-> a, mode |-> m]
<1> USE DEF IInv
<1>1. /\ q \in Seq(LockRequest(Action))
      /\ Distinct(q)
      /\ ~ Requested(q, a)
  BY DEF Types, RequestsAreCalled, Request, MayRequest
<1>2. lockTable' = [lockTable EXCEPT ![k] = Append(q, r)]
  BY DEF Request
<1>3. /\ \A b : Requested(Append(q, r), b) <=> Requested(q, b) \/ b = a
      /\ a \notin Owners(q)
  BY <1>1, PushOwners
<1>4. ASSUME NEW b \in Action
      PROVE  PendingKeys(b)' = IF b = a /\ ~ GrantedOnPush(q, m)
                               THEN PendingKeys(b) \cup {k} ELSE PendingKeys(b)
  <2>1. ASSUME NEW l \in Key, l # k
        PROVE  /\ Requested(lockTable'[l], b) <=> Requested(lockTable[l], b)
               /\ <<b, l>> \in granted' <=> <<b, l>> \in granted
    BY <2>1, <1>2 DEF Types, Request
  <2>2. Requested(lockTable'[k], b) <=> Requested(q, b) \/ b = a
    BY <1>2, <1>3 DEF Types
  <2>3. <<b, k>> \in granted' <=> <<b, k>> \in granted \/ (b = a /\ GrantedOnPush(q, m))
    BY DEF Request
  <2>4. <<a, k>> \notin granted
    BY <1>3 DEF OwnersAreGranted, OwnersOf
  <2>5. QED BY <2>1, <2>2, <2>3, <2>4, <1>1 DEF PendingKeys
<1>5. QED BY <1>4

LEMMA RequestInv ==
  ASSUME IInv, NEW a \in Action, NEW k \in Key, NEW m \in LockMode, Request(a, k, m)
  PROVE  IInv'
<1> DEFINE q == lockTable[k]
           r == [action |-> a, mode |-> m]
<1> USE DEF IInv
<1>1. /\ q \in Seq(LockRequest(Action))
      /\ Distinct(q)
      /\ ~ Requested(q, a)
  BY DEF Types, RequestsAreCalled, Request, MayRequest
<1>2. lockTable' = [lockTable EXCEPT ![k] = Append(q, r)] /\ called' = called \cup {<<a, k>>}
  BY DEF Request
<1>3. /\ Append(q, r) \in Seq(LockRequest(Action))
      /\ Distinct(Append(q, r))
      /\ \A b : Requested(Append(q, r), b) <=> Requested(q, b) \/ b = a
      /\ a \notin Owners(q)
      /\ Owners(Append(q, r)) = IF GrantedOnPush(q, m) THEN Owners(q) \cup {a} ELSE Owners(q)
  BY <1>1, PushOwners
<1>4. Types'
  BY <1>2, <1>3 DEF Types, Request
<1>5. RequestsAreCalled'
  BY <1>2, <1>3 DEF Types, RequestsAreCalled
<1>6. OwnersAreGranted'
  BY <1>2, <1>3 DEF Types, OwnersAreGranted, OwnersOf, Request
<1>7. \A b \in Action :
        PendingKeys(b)' = IF b = a /\ ~ GrantedOnPush(q, m)
                          THEN PendingKeys(b) \cup {k} ELSE PendingKeys(b)
  BY RequestPending
<1>8. k \notin PendingKeys(a)
  BY <1>1 DEF PendingKeys
<1>9. WaitingCountsPending'
  <2> SUFFICES ASSUME NEW b \in Action
               PROVE  /\ waiting'[b] >= Cardinality(PendingKeys(b)')
                      /\ b \notin cancelled' => waiting'[b] = Cardinality(PendingKeys(b)')
    BY DEF WaitingCountsPending
  <2>1. CASE b = a /\ ~ GrantedOnPush(q, m)
    <3>1. Cardinality(PendingKeys(b)') = Cardinality(PendingKeys(b)) + 1
      BY <2>1, <1>7, <1>8, PendingIsFinite, FS_AddElement
    <3>2. waiting'[b] = waiting[b] + 1 /\ cancelled' = cancelled
      BY <2>1 DEF Request, Types
    <3>3. QED BY <3>1, <3>2, PendingIsFinite DEF WaitingCountsPending, Types
  <2>2. CASE ~ (b = a /\ ~ GrantedOnPush(q, m))
    <3>1. PendingKeys(b)' = PendingKeys(b)
      BY <2>2, <1>7
    <3>2. waiting'[b] = waiting[b] /\ cancelled' = cancelled
      BY <2>2 DEF Request, Types
    <3>3. QED BY <3>1, <3>2 DEF WaitingCountsPending
  <2>3. QED BY <2>1, <2>2
<1>10. QED BY <1>4, <1>5, <1>6, <1>9

\* The release of a request takes its key from the pending ones of its action
\* and of the heirs, who were all waiting for it.
LEMMA ReleasePending ==
  ASSUME IInv, NEW a \in Action, NEW k \in Key, ReleaseRequest(a, k)
  PROVE  LET q   == lockTable[k]
             new == NewOwners(q, Target(q, a))
         IN  /\ new \subseteq Action \ {a}
             /\ \A b \in new : k \in PendingKeys(b) /\ Requested(q, b)
             /\ \A b \in Action :
                  PendingKeys(b)' = IF b = a \/ b \in new THEN PendingKeys(b) \ {k}
                                                        ELSE PendingKeys(b)
<1> DEFINE q   == lockTable[k]
           t   == Target(q, a)
           new == NewOwners(q, t)
<1> USE DEF IInv
<1>1. q \in Seq(LockRequest(Action)) /\ Distinct(q) /\ Requested(q, a)
  BY DEF Types, RequestsAreCalled, ReleaseRequest
<1>2. t \in DOMAIN q /\ q[t].action = a
  BY <1>1, TargetOfRequest
<1>3. /\ Erase(q, t) \in Seq(LockRequest(Action))
      /\ Distinct(Erase(q, t))
      /\ \A b : Requested(Erase(q, t), b) <=> Requested(q, b) /\ b # a
      /\ \A b \in new : Requested(q, b) /\ b # a /\ b \notin Owners(q)
      /\ Owners(Erase(q, t)) = (Owners(q) \ {a}) \cup new
  <2> HIDE DEF q, t
  <2>1. QED BY <1>1, <1>2, EraseOwners
<1>4. /\ lockTable' = [lockTable EXCEPT ![k] = Erase(q, t)]
      /\ waiting' = [b \in Action |-> IF b \in new THEN waiting[b] - 1 ELSE waiting[b]]
      /\ granted' = (granted \ {<<a, k>>}) \cup {<<b, k>> : b \in new}
      /\ cancelled' = IF <<a, k>> \in granted THEN cancelled ELSE cancelled \cup {a}
      /\ called' = called
  BY DEF ReleaseRequest
<1> HIDE DEF q, t, new
<1>5. new \subseteq Action
  <2>1. Owners(Erase(q, t)) \subseteq Action
    BY <1>3, OwnersAreRequested
  <2>2. QED BY <2>1, <1>3
<1>6. \A b \in new : k \in PendingKeys(b)
  BY <1>3, <1>5 DEF PendingKeys, OwnersAreGranted, OwnersOf, q
<1>7. ASSUME NEW b \in Action, b # a
       PROVE  PendingKeys(b)' = IF b \in new THEN PendingKeys(b) \ {k} ELSE PendingKeys(b)
  <2>1. ASSUME NEW l \in Key
        PROVE  /\ Requested(lockTable'[l], b) <=> Requested(lockTable[l], b)
               /\ <<b, l>> \in granted' <=> <<b, l>> \in granted \/ (l = k /\ b \in new)
    BY <1>3, <1>4, <1>7 DEF Types, q
  <2>2. QED BY <2>1 DEF PendingKeys
<1>8. PendingKeys(a)' = PendingKeys(a) \ {k}
  <2>1. ASSUME NEW l \in Key, l # k
        PROVE  /\ Requested(lockTable'[l], a) <=> Requested(lockTable[l], a)
               /\ <<a, l>> \in granted' <=> <<a, l>> \in granted
    BY <2>1, <1>4 DEF Types
  <2>2. ~ Requested(lockTable'[k], a)
    BY <1>3, <1>4 DEF Types
  <2>3. QED BY <2>1, <2>2 DEF PendingKeys
<1> USE DEF q, t, new
<1>9. QED BY <1>3, <1>5, <1>6, <1>7, <1>8

LEMMA ReleaseInv ==
  ASSUME IInv, NEW a \in Action, NEW k \in Key, ReleaseRequest(a, k)
  PROVE  IInv'
<1> DEFINE q   == lockTable[k]
           t   == Target(q, a)
           new == NewOwners(q, t)
<1> USE DEF IInv
<1>1. q \in Seq(LockRequest(Action)) /\ Distinct(q) /\ Requested(q, a)
  BY DEF Types, RequestsAreCalled, ReleaseRequest
<1>2. t \in DOMAIN q /\ q[t].action = a
  BY <1>1, TargetOfRequest
<1>3. /\ Erase(q, t) \in Seq(LockRequest(Action))
      /\ Distinct(Erase(q, t))
      /\ \A b : Requested(Erase(q, t), b) <=> Requested(q, b) /\ b # a
      /\ \A b \in new : Requested(q, b) /\ b # a /\ b \notin Owners(q)
      /\ Owners(Erase(q, t)) = (Owners(q) \ {a}) \cup new
  <2> HIDE DEF q, t
  <2>1. QED BY <1>1, <1>2, EraseOwners
<1>4. /\ lockTable' = [lockTable EXCEPT ![k] = Erase(q, t)]
      /\ waiting' = [b \in Action |-> IF b \in new THEN waiting[b] - 1 ELSE waiting[b]]
      /\ granted' = (granted \ {<<a, k>>}) \cup {<<b, k>> : b \in new}
      /\ cancelled' = IF <<a, k>> \in granted THEN cancelled ELSE cancelled \cup {a}
      /\ called' = called
  BY DEF ReleaseRequest
<1> HIDE DEF q, t, new
<1>5. new \subseteq Action /\ a \notin new
  BY ReleasePending DEF q, t, new
<1>6. \A b \in new : k \in PendingKeys(b)
  BY ReleasePending DEF q, t, new
<1>7. \A b \in new : Cardinality(PendingKeys(b)) >= 1
  <2>1. ASSUME NEW b \in new PROVE Cardinality(PendingKeys(b)) >= 1
    <3>1. PendingKeys(b) # {}
      BY <1>6
    <3>2. QED BY <3>1, PendingIsFinite, FS_EmptySet
  <2>2. QED BY <2>1
<1>8. Types'
  <2>1. \A b \in new : waiting[b] >= 1
    <3>1. ASSUME NEW b \in new PROVE waiting[b] >= 1
      <4>1. Cardinality(PendingKeys(b)) \in Nat
        BY PendingIsFinite
      <4>2. waiting[b] >= Cardinality(PendingKeys(b)) /\ waiting[b] \in Nat
        BY <1>5 DEF WaitingCountsPending, Types
      <4>3. QED BY <4>1, <4>2, <1>7
    <3>2. QED BY <3>1
  <2>2. waiting' \in [Action -> Nat]
    BY <2>1, <1>4 DEF Types
  <2>3. QED BY <2>2, <1>3, <1>4, <1>5 DEF Types
<1>9. RequestsAreCalled'
  BY <1>3, <1>4 DEF Types, RequestsAreCalled, q
<1>10. OwnersAreGranted'
  <2>1. ASSUME NEW l \in Key, l # k PROVE OwnersOf(l)' = Owners(lockTable'[l])
    BY <2>1, <1>4 DEF Types, OwnersAreGranted, OwnersOf
  <2>2. OwnersOf(k)' = (OwnersOf(k) \ {a}) \cup new
    BY <1>4, <1>5 DEF OwnersOf
  <2>3. OwnersOf(k)' = Owners(lockTable'[k])
    BY <2>2, <1>3, <1>4 DEF Types, OwnersAreGranted, q
  <2>4. QED BY <2>1, <2>3 DEF OwnersAreGranted
<1>11. ASSUME NEW b \in Action, b # a
       PROVE  PendingKeys(b)' = IF b \in new THEN PendingKeys(b) \ {k} ELSE PendingKeys(b)
  BY <1>11, ReleasePending DEF q, t, new
<1>12. PendingKeys(a)' = PendingKeys(a) \ {k}
  BY ReleasePending DEF q, t, new
<1>13. a \notin new
  BY <1>3
<1>14. <<a, k>> \in granted => k \notin PendingKeys(a)
  BY DEF PendingKeys
<1>15. WaitingCountsPending'
  <2> SUFFICES ASSUME NEW b \in Action
               PROVE  /\ waiting'[b] >= Cardinality(PendingKeys(b)')
                      /\ b \notin cancelled' => waiting'[b] = Cardinality(PendingKeys(b)')
    BY DEF WaitingCountsPending
  <2>1. CASE b \in new
    <3>1. Cardinality(PendingKeys(b)') = Cardinality(PendingKeys(b)) - 1
      BY <2>1, <1>6, <1>11, <1>13, PendingIsFinite, FS_RemoveElement
    <3>2. waiting'[b] = waiting[b] - 1 /\ (b \notin cancelled' => b \notin cancelled)
      BY <2>1, <1>4
    <3>3. QED BY <3>1, <3>2, PendingIsFinite DEF WaitingCountsPending, Types
  <2>2. CASE b \notin new /\ b # a
    <3>1. waiting'[b] = waiting[b] /\ (b \notin cancelled' => b \notin cancelled)
      BY <2>2, <1>4
    <3>2. QED BY <2>2, <3>1, <1>11 DEF WaitingCountsPending
  <2>3. CASE b = a
    <3>1. waiting'[a] = waiting[a]
      BY <1>4, <1>13
    <3>2. Cardinality(PendingKeys(a)') <= Cardinality(PendingKeys(a))
      BY <1>12, PendingIsFinite, FS_Subset
    <3>3. a \notin cancelled' => PendingKeys(a)' = PendingKeys(a) /\ a \notin cancelled
      BY <1>4, <1>12, <1>14
    <3>4. Cardinality(PendingKeys(a)') \in Nat
      BY <1>12, PendingIsFinite, FS_Subset, FS_CardinalityType
    <3>5. QED
      BY <2>3, <3>1, <3>2, <3>3, <3>4, PendingIsFinite DEF WaitingCountsPending, Types
  <2>4. QED BY <2>1, <2>2, <2>3
<1>16. QED BY <1>8, <1>9, <1>10, <1>15

LEMMA StutterInv ==
  IInv /\ UNCHANGED <<lockTable, waiting, called, granted, cancelled>> => IInv'
BY DEF IInv, Types, RequestsAreCalled, OwnersAreGranted, OwnersOf,
       WaitingCountsPending, PendingKeys

----------------------------------------------------------------------------
\* What ready_ holds: each action once, after its last request was made and
\* while none of its requests is pending.
IsReady(a) == \E i \in DOMAIN ready : ready[i] = a

ReadyInv ==
  /\ ready \in Seq(Action)
  /\ current \in Action \cup {NoAction}
  /\ \A i, j \in DOMAIN ready : ready[i] = ready[j] => i = j
  /\ \A a \in Action : IsReady(a) =>
       /\ PendingKeys(a) = {}
       /\ a # current
       /\ \E l \in Key : <<a, l>> \in called

\* The sequence of the woken actions is one of Action without repetitions.
LEMMA OrderIsSequence ==
  ASSUME NEW q \in Seq(LockRequest(Action)), NEW A,
         \A b \in A : Requested(q, b), NEW s \in InQueueOrder(q, A), Distinct(q)
  PROVE  /\ s \in Seq(A)
         /\ \A i, j \in DOMAIN s : s[i] = s[j] => i = j
<1> DEFINE T == {q[i].action : i \in DOMAIN q}
           f == [i \in DOMAIN q |-> q[i].action]
<1>1. IsFiniteSet(T)
  <2>1. f \in Surjection(DOMAIN q, T)
    BY DEF Surjection
  <2>2. IsFiniteSet(1 .. Len(q))
    BY FS_Interval
  <2>3. DOMAIN q = 1 .. Len(q)
    OBVIOUS
  <2>4. QED BY <2>1, <2>2, <2>3, FS_Surjection
<1>2. A \subseteq T
  BY DEF Requested
<1>3. Cardinality(A) \in Nat
  BY <1>1, <1>2, FS_Subset, FS_CardinalityType
<1>4. s \in [1 .. Cardinality(A) -> A]
  BY DEF InQueueOrder
<1>5. s \in Seq(A)
  BY <1>3, <1>4
<1>6. \A b \in A : Target(q, b) \in Nat
  <2>1. ASSUME NEW b \in A PROVE Target(q, b) \in Nat
    <3>1. Target(q, b) \in DOMAIN q
      BY TargetOfRequest
    <3>2. QED BY <3>1
  <2>2. QED BY <2>1
<1>7. ASSUME NEW i \in DOMAIN s, NEW j \in DOMAIN s, s[i] = s[j], i < j PROVE FALSE
  <2>1. Target(q, s[i]) < Target(q, s[j])
    BY <1>7 DEF InQueueOrder
  <2>2. s[i] \in A
    BY <1>4
  <2>3. QED BY <2>1, <2>2, <1>6, <1>7
<1>8. \A i, j \in DOMAIN s : s[i] = s[j] => i = j
  <2> SUFFICES ASSUME NEW i \in DOMAIN s, NEW j \in DOMAIN s, s[i] = s[j] PROVE i = j
    OBVIOUS
  <2>1. i \in Nat /\ j \in Nat
    BY <1>3, <1>4
  <2>2. QED BY <1>7, <2>1
<1>9. QED BY <1>5, <1>8

LEMMA RequestReady ==
  ASSUME IInv, ReadyInv, NEW a \in Action, NEW k \in Key, NEW m \in LockMode, Request(a, k, m)
  PROVE  ReadyInv'
<1>1. /\ ready' = ready /\ current' = a /\ called' = called \cup {<<a, k>>}
      /\ a = current \/ \A l \in Key : <<a, l>> \notin called
  BY DEF Request, MayRequest
<1>2. ~ IsReady(a)
  BY <1>1 DEF ReadyInv
<1>3. \A b \in Action : b # a => PendingKeys(b)' = PendingKeys(b)
  BY RequestPending
<1>4. \A b : IsReady(b)' <=> IsReady(b)
  BY <1>1 DEF IsReady
<1>5. QED BY <1>1, <1>2, <1>3, <1>4 DEF ReadyInv

\* Only an action whose last pending request is granted is woken, so it was
\* not in ready_ and has no pending request now.
LEMMA ReleaseReady ==
  ASSUME IInv, ReadyInv, NEW a \in Action, NEW k \in Key, ReleaseRequest(a, k)
  PROVE  ReadyInv'
<1> DEFINE q   == lockTable[k]
           new == NewOwners(q, Target(q, a))
           W   == {b \in new : waiting[b] = 1}
<1>1. PICK woken \in InQueueOrder(q, W) : ready' = ready \o woken
  BY DEF ReleaseRequest, Woken
<1>2. current' = NoAction /\ called' = called
  BY DEF ReleaseRequest
<1>3. q \in Seq(LockRequest(Action)) /\ Distinct(q)
  BY DEF IInv, Types, RequestsAreCalled
<1>4. /\ new \subseteq Action \ {a}
      /\ \A b \in new : k \in PendingKeys(b) /\ Requested(q, b)
      /\ \A b \in Action :
           PendingKeys(b)' = IF b = a \/ b \in new THEN PendingKeys(b) \ {k}
                                                 ELSE PendingKeys(b)
  BY ReleasePending
<1> HIDE DEF q, new
<1>5. /\ woken \in Seq(W)
      /\ \A i, j \in DOMAIN woken : woken[i] = woken[j] => i = j
  BY <1>1, <1>3, <1>4, OrderIsSequence
<1>6. ASSUME NEW b \in W
      PROVE  b \in Action /\ ~ IsReady(b) /\ PendingKeys(b)' = {}
             /\ \E l \in Key : <<b, l>> \in called
  <2>1. k \in PendingKeys(b) /\ b \in Action /\ Requested(q, b)
    BY <1>4
  <2>2. waiting[b] >= Cardinality(PendingKeys(b)) /\ waiting[b] = 1
    BY <2>1 DEF IInv, WaitingCountsPending
  <2>3. Cardinality(PendingKeys(b) \ {k}) = Cardinality(PendingKeys(b)) - 1
    BY <2>1, PendingIsFinite, FS_RemoveElement
  <2>4. IsFiniteSet(PendingKeys(b) \ {k}) /\ Cardinality(PendingKeys(b) \ {k}) \in Nat
    BY PendingIsFinite, FS_Subset, FS_CardinalityType
  <2>5. Cardinality(PendingKeys(b) \ {k}) = 0
    BY <2>2, <2>3, <2>4, PendingIsFinite
  <2>6. PendingKeys(b) \ {k} = {}
    BY <2>4, <2>5, FS_EmptySet
  <2>7. <<b, k>> \in called
    BY <2>1 DEF IInv, RequestsAreCalled, q
  <2>8. QED BY <2>1, <2>6, <2>7, <1>4 DEF ReadyInv
<1>7. W \subseteq Action
  BY <1>6
<1> HIDE DEF W
<1>8. ready \in Seq(Action) /\ woken \in Seq(Action)
  BY <1>5, <1>7 DEF ReadyInv
<1>9. \A b : IsReady(b)' => IsReady(b) \/ \E i \in DOMAIN woken : woken[i] = b
  <2> SUFFICES ASSUME NEW b, NEW i \in DOMAIN ready', ready'[i] = b
               PROVE  IsReady(b) \/ \E j \in DOMAIN woken : woken[j] = b
    BY DEF IsReady
  <2>1. CASE i <= Len(ready)
    BY <2>1, <1>1, <1>8 DEF IsReady
  <2>2. CASE i > Len(ready)
    <3>1. i - Len(ready) \in DOMAIN woken /\ woken[i - Len(ready)] = b
      BY <2>2, <1>1, <1>8
    <3>2. QED BY <3>1
  <2>3. QED BY <2>1, <2>2, <1>1, <1>8
<1>10. \A i, j \in DOMAIN ready' : ready'[i] = ready'[j] => i = j
  <2>1. \A i \in DOMAIN ready : IsReady(ready[i])
    BY DEF IsReady
  <2>2. \A i \in DOMAIN woken : ~ IsReady(woken[i])
    BY <1>5, <1>6
  <2>3. \A i \in DOMAIN ready, j \in DOMAIN woken : ready[i] # woken[j]
    BY <2>1, <2>2
  <2>4. QED BY <1>1, <1>5, <1>8, <2>3 DEF ReadyInv
<1>11. ASSUME NEW b \in Action, IsReady(b)'
       PROVE  PendingKeys(b)' = {} /\ b # current' /\ \E l \in Key : <<b, l>> \in called'
  <2>1. b # current'
    BY <1>2, LockManagerAssumption
  <2>2. CASE IsReady(b)
    <3>1. PendingKeys(b) = {} /\ \E l \in Key : <<b, l>> \in called
      BY <2>2 DEF ReadyInv
    <3>2. PendingKeys(b)' = {}
      BY <3>1, <1>4
    <3>3. QED BY <2>1, <3>1, <3>2, <1>2
  <2>3. CASE \E i \in DOMAIN woken : woken[i] = b
    <3>1. b \in W
      BY <2>3, <1>5
    <3>2. QED BY <3>1, <2>1, <1>6, <1>2
  <2>4. QED BY <2>2, <2>3, <1>9, <1>11
<1>12. ready' \in Seq(Action) /\ current' \in Action \cup {NoAction}
  BY <1>1, <1>2, <1>8
<1>13. QED BY <1>10, <1>11, <1>12 DEF ReadyInv

LEMMA ReadyReady ==
  ASSUME ReadyInv, Ready
  PROVE  ReadyInv'
<1>1. /\ ready # << >> /\ ready' = Tail(ready) /\ ready \in Seq(Action)
      /\ UNCHANGED <<lockTable, granted, current, called>>
  BY DEF Ready, ReadyInv
<1>2. \A b : IsReady(b)' => IsReady(b)
  BY <1>1 DEF IsReady
<1>3. \A b : PendingKeys(b)' = PendingKeys(b)
  BY <1>1 DEF PendingKeys
<1>4. \A i, j \in DOMAIN ready' : ready'[i] = ready'[j] => i = j
  BY <1>1 DEF ReadyInv
<1>5. ready' \in Seq(Action)
  BY <1>1
<1>6. QED BY <1>1, <1>2, <1>3, <1>4, <1>5 DEF ReadyInv

----------------------------------------------------------------------------
\* The inductive invariant holds in every reachable state.
THEOREM Invariance == Spec => []IInv
<1>1. IInv /\ [Next]_vars => IInv'
  <2> SUFFICES ASSUME IInv, [Next]_vars PROVE IInv'
    OBVIOUS
  <2>1. ASSUME NEW a \in Action, NEW k \in Key, WriteLock(a, k) PROVE IInv'
    BY <2>1, RequestInv DEF WriteLock, LockMode
  <2>2. ASSUME NEW a \in Action, NEW k \in Key, ReadLock(a, k) PROVE IInv'
    BY <2>2, RequestInv DEF ReadLock, LockMode
  <2>3. ASSUME NEW a \in Action, NEW k \in Key, Release(a, k) PROVE IInv'
    BY <2>3, ReleaseInv, StutterInv DEF Release, ReleaseNothing
  <2>4. CASE Ready
    BY <2>4, StutterInv DEF Ready
  <2>5. CASE UNCHANGED vars
    BY <2>5, StutterInv DEF vars
  <2>6. QED BY <2>1, <2>2, <2>3, <2>4, <2>5 DEF Next
<1>2. QED BY InitInv, <1>1, PTL DEF Spec

\* What the callers were told agrees with the queues, always.
THEOREM GrantsCorrect == Spec => []GrantsMatchQueue
<1>1. IInv => GrantsMatchQueue
  BY GrantsMatch DEF IInv
<1>2. QED BY Invariance, <1>1, PTL

\* The wait counters are exact, and the CHECK in Release never fails.
THEOREM CountersExact == Spec => []WaitingCountsPending
<1>1. IInv => WaitingCountsPending
  BY DEF IInv
<1>2. QED BY Invariance, <1>1, PTL

\* ready_ always holds what ReadyInv says.
THEOREM ReadyInvariance == Spec => [](IInv /\ ReadyInv)
<1>1. Init => ReadyInv
  BY DEF Init, ReadyInv, IsReady
<1>2. IInv /\ ReadyInv /\ [Next]_vars => ReadyInv'
  <2> SUFFICES ASSUME IInv, ReadyInv, [Next]_vars PROVE ReadyInv'
    OBVIOUS
  <2>1. ASSUME NEW a \in Action, NEW k \in Key, WriteLock(a, k) PROVE ReadyInv'
    BY <2>1, RequestReady DEF WriteLock, LockMode
  <2>2. ASSUME NEW a \in Action, NEW k \in Key, ReadLock(a, k) PROVE ReadyInv'
    BY <2>2, RequestReady DEF ReadLock, LockMode
  <2>3. ASSUME NEW a \in Action, NEW k \in Key, Release(a, k) PROVE ReadyInv'
    <3>1. CASE ReleaseNothing(a, k)
      <4>1. /\ UNCHANGED <<lockTable, granted, ready, called>>
            /\ current' = NoAction
        BY <3>1 DEF ReleaseNothing
      <4>2. /\ \A b : IsReady(b)' <=> IsReady(b)
            /\ \A b : PendingKeys(b)' = PendingKeys(b)
        BY <4>1 DEF IsReady, PendingKeys
      <4>3. QED BY <4>1, <4>2, LockManagerAssumption DEF ReadyInv
    <3>2. QED BY <2>3, <3>1, ReleaseReady DEF Release
  <2>4. CASE Ready
    BY <2>4, ReadyReady
  <2>5. CASE UNCHANGED vars
    BY <2>5 DEF vars, ReadyInv, IsReady, PendingKeys
  <2>6. QED BY <2>1, <2>2, <2>3, <2>4, <2>5 DEF Next
<1>3. QED BY Invariance, <1>1, <1>2, PTL DEF Spec

\* Every variable keeps its type, so no counter goes below zero, and every
\* counter is exact.
THEOREM TypesCorrect == Spec => []Consistent
<1>1. IInv /\ ReadyInv => Consistent
  BY DEF IInv, Types, ReadyInv, TypeOK, Consistent
<1>2. QED BY ReadyInvariance, <1>1, PTL

\* Whatever is returned by Ready holds every lock it asked for, and is
\* returned once.
THEOREM ReadyCorrect == Spec => []ReadyHoldsAllLocks
<1>1. IInv /\ ReadyInv => ReadyHoldsAllLocks
  BY DEF ReadyInv, IsReady, ReadyHoldsAllLocks
<1>2. QED BY ReadyInvariance, <1>1, PTL

\* A grant ends with the release of its own request and with nothing else.
THEOREM GrantsStay == Spec => GrantsAreStable
<1> DEFINE Stable == \A a \in Action, k \in Key :
             (<<a, k>> \in granted /\ <<a, k>> \notin granted') => ~ Requested(lockTable'[k], a)
<1>1. IInv /\ [Next]_vars => Stable
  <2> SUFFICES ASSUME IInv, [Next]_vars, NEW b \in Action, NEW l \in Key,
                      <<b, l>> \in granted, <<b, l>> \notin granted'
               PROVE  ~ Requested(lockTable'[l], b)
    OBVIOUS
  <2>1. PICK a \in Action, k \in Key : ReleaseRequest(a, k)
    BY DEF Next, WriteLock, ReadLock, Request, Release, ReleaseNothing, Ready, vars
  <2>2. b = a /\ l = k
    BY <2>1 DEF ReleaseRequest
  <2>3. /\ lockTable[k] \in Seq(LockRequest(Action)) /\ Distinct(lockTable[k])
        /\ Requested(lockTable[k], a)
    BY <2>1 DEF IInv, Types, RequestsAreCalled, ReleaseRequest
  <2>4. /\ Target(lockTable[k], a) \in DOMAIN lockTable[k]
        /\ lockTable[k][Target(lockTable[k], a)].action = a
    BY <2>3, TargetOfRequest
  <2>5. ~ Requested(Erase(lockTable[k], Target(lockTable[k], a)), a)
    BY <2>3, <2>4, EraseOwners
  <2>6. lockTable'[k] = Erase(lockTable[k], Target(lockTable[k], a))
    BY <2>1 DEF ReleaseRequest, IInv, Types
  <2>7. QED BY <2>2, <2>5, <2>6
<1>2. QED BY Invariance, <1>1, PTL DEF Spec, GrantsAreStable
============================================================================
