--------------------------- MODULE RemasterProofs ---------------------------
(***************************************************************************)
(* Remastering, for any machines, paths and actions: the bookkeeping of    *)
(* REMASTER is consistent; all machines of one replica are told of a move  *)
(* before machines of others are; and that replica is the old master of    *)
(* the path until two actions ask for different masters of it.             *)
(***************************************************************************)
EXTENDS Remaster, TLAPS

USE DEF wants

----------------------------------------------------------------------------
(***************************************************************************)
(* Types, batches and answers.                                             *)
(***************************************************************************)
SyncMessage(m, n, req) == [kind |-> "SYNC", from |-> m, to |-> n, request |-> req]

LEMMA InitConsistent == Init => Consistent
<1> SUFFICES ASSUME Init PROVE Consistent
  OBVIOUS
<1>1. TypeOK
  BY RemasterAssumption DEF Init, TypeOK, At, PlaceRecord, None
<1>2. BatchedWhereItStarted
  BY DEF Init, BatchedWhereItStarted, At, None
<1>3. AnswersAreOwed
  BY DEF Init, AnswersAreOwed, Expects
<1>4. QED BY <1>1, <1>2, <1>3 DEF Consistent

\* What an action sends is a set of messages of the kind it names.
LEMMA SendType ==
  ASSUME NEW kind \in {"REMASTER", "SYNC", "FOLLOW", "ASYNC"}, NEW m \in Machine,
         NEW tos \in SUBSET Machine, NEW req \in Request
  PROVE  /\ Send(kind, m, tos, req) \subseteq Message
         /\ \A msg \in Send(kind, m, tos, req) :
              msg.kind = kind /\ msg.from = m /\ msg.to \in tos /\ msg.request = req
         /\ \A n \in tos : [kind |-> kind, from |-> m, to |-> n, request |-> req] \in Send(kind, m, tos, req)
BY DEF Send, Message

LEMMA LookupType ==
  ASSUME TypeOK, NEW m \in Machine, NEW p \in Path
  PROVE  LookupReplicaByDir(m, p) \in Replica
BY RemasterAssumption DEF TypeOK, LookupReplicaByDir

LEMMA RemasteringsType ==
  ASSUME TypeOK, NEW m \in Machine, NEW a \in Action, NEW r \in Replica,
         NEW sent \in Remasterings(m, a, r), NEW msg \in sent
  PROVE  /\ msg \in Message
         /\ msg.kind = "REMASTER"
         /\ msg.request.master = r
         /\ msg.request.path \in paths[a]
         /\ LookupReplicaByDir(m, msg.request.path) # r
         /\ ReplicaOf[msg.to] = LookupReplicaByDir(m, msg.request.path)
<1> DEFINE moved == {p \in paths[a] : LookupReplicaByDir(m, p) # r}
<1>1. PICK f \in [moved -> Machine] :
        /\ \A p \in moved : ReplicaOf[f[p]] = LookupReplicaByDir(m, p)
        /\ sent = {[kind |-> "REMASTER", from |-> m, to |-> f[p], request |-> [path |-> p, master |-> r]] : p \in moved}
  BY DEF Remasterings
<1>2. PICK p \in moved : msg = [kind |-> "REMASTER", from |-> m, to |-> f[p], request |-> [path |-> p, master |-> r]]
  BY <1>1
<1>3. p \in Path /\ f[p] \in Machine
  BY <1>1 DEF TypeOK
<1>4. msg \in Message
  BY <1>2, <1>3 DEF Message, Request
<1>5. QED BY <1>1, <1>2, <1>4

LEMMA MachineForType ==
  ASSUME NEW m \in Machine, NEW r \in Replica
  PROVE  MachineFor(m, r) \subseteq Machine
BY DEF MachineFor, MachinesOf

LEMMA RouteConsistent ==
  ASSUME Consistent, NEW a \in Action, RouteAction(a)
  PROVE  Consistent'
<1> USE DEF Consistent
<1> DEFINE m == place[a].machine
<1>0. m \in Machine /\ place[a] \in PlaceRecord
  BY DEF TypeOK, PlaceRecord
<1>1. InvolvedReplicas(m, a) \subseteq Replica
  BY <1>0, LookupType, RemasterAssumption DEF InvolvedReplicas, TypeOK
<1>2. /\ place[a].at = "client"
      /\ UNCHANGED <<wants, masters, origin, syncing, remasters, postponed, epoch, leaving>>
  BY DEF RouteAction, queues, loop
<1>3. PICK n \in Machine : place' = [place EXCEPT ![a] = At("sent", n)]
  BY <1>0, <1>1, MachineForType, RemasterAssumption DEF RouteAction, Destinations, TypeOK
<1>4. /\ dest' \in [Action -> Replica \cup {None}]
      /\ asks' \in [Action -> Nat]
      /\ net' \subseteq Message
      /\ \A msg \in net' \ net : msg.kind = "REMASTER"
      /\ net \subseteq net'
  <2>1. CASE UNCHANGED <<dest, asks, net>>
    BY <2>1 DEF TypeOK
  <2>2. ASSUME NEW r \in Destinations(m, a), dest' = [dest EXCEPT ![a] = r],
               IF asks[a] > 0
               THEN /\ asks' = [asks EXCEPT ![a] = @ - 1]
                    /\ \E sent \in Remasterings(m, a, r) : net' = net \cup sent
               ELSE UNCHANGED <<asks, net>>
        PROVE  <1>4!1 /\ <1>4!2 /\ <1>4!3 /\ <1>4!4 /\ <1>4!5
    <3>1. r \in Replica
      BY <1>1 DEF Destinations, TypeOK
    <3>2. dest' \in [Action -> Replica \cup {None}]
      BY <2>2, <3>1 DEF TypeOK
    <3>3. asks' \in [Action -> Nat]
      BY <2>2 DEF TypeOK
    <3>4. CASE net' = net
      BY <3>2, <3>3, <3>4 DEF TypeOK
    <3>5. ASSUME NEW sent \in Remasterings(m, a, r), net' = net \cup sent
          PROVE  <1>4!3 /\ <1>4!4 /\ <1>4!5
      BY <1>0, <3>1, <3>5, RemasteringsType DEF TypeOK
    <3>6. QED BY <2>2, <3>2, <3>3, <3>4, <3>5
  <2>3. QED BY <2>1, <2>2 DEF RouteAction
<1>5. TypeOK'
  BY <1>2, <1>3, <1>4 DEF TypeOK, At, PlaceRecord
<1>6. BatchedWhereItStarted'
  BY <1>2, <1>3 DEF BatchedWhereItStarted, TypeOK, At
<1>7. AnswersAreOwed'
  <2>1. \A x, n1, req : SyncMessage(x, n1, req) \in net' <=> SyncMessage(x, n1, req) \in net
    BY <1>4 DEF SyncMessage
  <2>2. \A x, n1, req : Expects(x, n1, req)' <=> Expects(x, n1, req)
    BY <1>2 DEF Expects
  <2>3. QED BY <2>1, <2>2 DEF AnswersAreOwed, SyncMessage
<1>8. QED BY <1>5, <1>6, <1>7

LEMMA AppendConsistent ==
  ASSUME Consistent, NEW a \in Action, Append(a)
  PROVE  Consistent'
<1> USE DEF Consistent
<1>1. TypeOK'
  <2>1. place[a] \in PlaceRecord /\ place \in [Action -> PlaceRecord]
    BY DEF TypeOK
  <2>2. PICK w \in {"forgotten", "queued"} : place' = [place EXCEPT ![a] = [place[a] EXCEPT !.at = w]]
    BY DEF Append
  <2>3. [place[a] EXCEPT !.at = w] \in PlaceRecord
    BY <2>1, <2>2 DEF PlaceRecord
  <2>4. place' \in [Action -> PlaceRecord]
    BY <2>1, <2>2, <2>3
  <2>5. QED BY <2>4 DEF Append, TypeOK, queues, loop
<1>2. BatchedWhereItStarted'
  BY DEF Append, BatchedWhereItStarted, TypeOK, queues, loop, PlaceRecord
<1>3. AnswersAreOwed'
  BY DEF Append, AnswersAreOwed, Expects
<1>4. QED BY <1>1, <1>2, <1>3

\* REMASTER.
LEMMA RemasterConsistent ==
  ASSUME Consistent, NEW msg \in net, Remaster(msg)
  PROVE  Consistent'
<1> USE DEF Consistent
<1> DEFINE m == msg.to  req == msg.request
<1>0. msg \in Message /\ m \in Machine /\ req \in Request /\ DOMAIN syncing = Machine
  BY DEF TypeOK, Message
<1>1. /\ msg.kind = "REMASTER"
      /\ req \notin DOMAIN syncing[m]
      /\ net' = (net \ {msg}) \cup Send("SYNC", m, Peers(m), req)
      /\ syncing' = [syncing EXCEPT ![m] = [q \in DOMAIN syncing[m] \cup {req} |->
           IF q = req THEN Peers(m) ELSE syncing[m][q]]]
      /\ UNCHANGED <<wants, masters, place, dest, asks, origin, remasters, postponed, epoch, leaving>>
  BY DEF Remaster, routing, queues, loop
<1>2. Peers(m) \in SUBSET Machine
  BY DEF Peers
<1>3. TypeOK'
  <2>1. net' \subseteq Message
    BY <1>0, <1>1, <1>2, SendType DEF TypeOK
  <2>2. /\ DOMAIN syncing' = Machine
        /\ \A n \in Machine : syncing'[n] \in [DOMAIN syncing'[n] -> SUBSET Machine]
        /\ \A n \in Machine : DOMAIN syncing'[n] \subseteq Request
    BY <1>0, <1>1, <1>2 DEF TypeOK
  <2>3. QED BY <1>1, <2>1, <2>2 DEF TypeOK
<1>4. BatchedWhereItStarted'
  BY <1>1 DEF BatchedWhereItStarted
<1>5. AnswersAreOwed'
  <2>1. ASSUME NEW x \in Machine, NEW n \in Machine, NEW q \in Request
        PROVE  SyncMessage(x, n, q) \in net' <=>
                 SyncMessage(x, n, q) \in net \/ (x = m /\ n \in Peers(m) /\ q = req)
    <3>1. SyncMessage(x, n, q) # msg
      BY <1>1 DEF SyncMessage
    <3>2. /\ SyncMessage(x, n, q).from = x
          /\ SyncMessage(x, n, q).to = n
          /\ SyncMessage(x, n, q).request = q
      BY DEF SyncMessage
    <3>3. SyncMessage(x, n, q) \in Send("SYNC", m, Peers(m), req) => x = m /\ n \in Peers(m) /\ q = req
      BY <3>2, <1>0, <1>2, SendType
    <3>4. x = m /\ n \in Peers(m) /\ q = req => SyncMessage(x, n, q) \in Send("SYNC", m, Peers(m), req)
      BY <1>0, <1>2, SendType DEF SyncMessage
    <3>5. QED BY <1>1, <3>1, <3>3, <3>4
  <2>2. \A x, n \in Machine, q \in Request :
          Expects(x, n, q)' <=> Expects(x, n, q) \/ (x = m /\ n \in Peers(m) /\ q = req)
    BY <1>0, <1>1 DEF Expects
  <2>3. QED BY <2>1, <2>2 DEF AnswersAreOwed, SyncMessage
<1>6. QED BY <1>3, <1>4, <1>5

\* REMASTER_SYNC: the message and the expectation of its answer go together.
LEMMA SyncConsistent ==
  ASSUME Consistent, NEW msg \in net, RemasterSync(msg)
  PROVE  Consistent'
<1> USE DEF Consistent
<1> DEFINE m == msg.from  k == msg.to  req == msg.request
<1>0. msg \in Message /\ m \in Machine /\ k \in Machine /\ req \in Request /\ DOMAIN syncing = Machine
  BY DEF TypeOK, Message
<1>1. /\ msg = SyncMessage(m, k, req)
      /\ net' = net \ {msg}
      /\ syncing' = [syncing EXCEPT ![m][req] = syncing[m][req] \ {k}]
      /\ remasters' = [remasters EXCEPT ![k] = @ \cup {req}]
      /\ UNCHANGED <<wants, masters, place, dest, asks, origin, postponed, epoch, leaving>>
  BY <1>0 DEF RemasterSync, Answered, Push, SyncMessage, Message, routing, loop
<1>a. req \in DOMAIN syncing[m] /\ k \in syncing[m][req]
  BY <1>0, <1>1 DEF AnswersAreOwed, Expects, SyncMessage
<1>b. /\ syncing'[m] = [syncing[m] EXCEPT ![req] = syncing[m][req] \ {k}]
      /\ \A n \in Machine \ {m} : syncing'[n] = syncing[n]
      /\ DOMAIN syncing' = Machine
  BY <1>0, <1>1
<1>2. TypeOK'
  <2>1. /\ DOMAIN syncing' = Machine
        /\ \A n \in Machine : syncing'[n] \in [DOMAIN syncing'[n] -> SUBSET Machine]
        /\ \A n \in Machine : DOMAIN syncing'[n] \subseteq Request
    <3>1. syncing[m] \in [DOMAIN syncing[m] -> SUBSET Machine] /\ DOMAIN syncing[m] \subseteq Request
      BY <1>0 DEF TypeOK
    <3>2. /\ syncing'[m] \in [DOMAIN syncing[m] -> SUBSET Machine]
          /\ DOMAIN syncing'[m] = DOMAIN syncing[m]
      BY <3>1, <1>a, <1>b
    <3>3. \A n \in Machine \ {m} :
            syncing'[n] \in [DOMAIN syncing'[n] -> SUBSET Machine] /\ DOMAIN syncing'[n] \subseteq Request
      BY <1>b DEF TypeOK
    <3>4. QED BY <1>b, <3>1, <3>2, <3>3
  <2>2. remasters' \in [Machine -> SUBSET Request]
    BY <1>0, <1>1 DEF TypeOK
  <2>3. QED BY <1>1, <2>1, <2>2 DEF TypeOK
<1>3. BatchedWhereItStarted'
  BY <1>1 DEF BatchedWhereItStarted
<1>4. AnswersAreOwed'
  <2>1. \A x, n \in Machine, q \in Request :
          SyncMessage(x, n, q) \in net' <=>
            SyncMessage(x, n, q) \in net /\ ~ (x = m /\ n = k /\ q = req)
    BY <1>0, <1>1 DEF SyncMessage
  <2>2. \A x, n \in Machine, q \in Request :
          Expects(x, n, q)' <=> Expects(x, n, q) /\ ~ (x = m /\ n = k /\ q = req)
    BY <1>0, <1>a, <1>b DEF Expects
  <2>3. QED BY <2>1, <2>2 DEF AnswersAreOwed, SyncMessage
<1>5. QED BY <1>2, <1>3, <1>4

\* The end of REMASTER: no answer is expected any more.
LEMMA FollowsConsistent ==
  ASSUME Consistent, NEW m \in Machine, NEW req \in Request, SendRemasterFollows(m, req)
  PROVE  Consistent'
<1> USE DEF Consistent
<1>0. DOMAIN syncing = Machine
  BY DEF TypeOK
<1>1. /\ req \in DOMAIN syncing[m] /\ syncing[m][req] = {}
      /\ syncing' = [syncing EXCEPT ![m] = [q \in DOMAIN syncing[m] \ {req} |-> syncing[m][q]]]
      /\ remasters' = [remasters EXCEPT ![m] = @ \cup {req}]
      /\ UNCHANGED <<wants, masters, place, dest, asks, origin, postponed, epoch, leaving>>
  BY DEF SendRemasterFollows, AllSynced, Push, routing, loop
<1>2. PICK tos \in SUBSET Machine : net' = net \cup Send("FOLLOW", m, tos, req)
  <2>1. PICK told \in [Replica \ {ReplicaOf[m]} -> Machine] :
          net' = net \cup Send("FOLLOW", m, {told[r] : r \in DOMAIN told}, req)
    BY DEF SendRemasterFollows
  <2>2. {told[r] : r \in DOMAIN told} \subseteq Machine
    OBVIOUS
  <2>3. QED BY <2>1, <2>2
<1>3. TypeOK'
  <2>1. /\ DOMAIN syncing' = Machine
        /\ \A n \in Machine : syncing'[n] \in [DOMAIN syncing'[n] -> SUBSET Machine]
        /\ \A n \in Machine : DOMAIN syncing'[n] \subseteq Request
    BY <1>0, <1>1 DEF TypeOK
  <2>2. remasters' \in [Machine -> SUBSET Request]
    BY <1>1 DEF TypeOK
  <2>3. net' \subseteq Message
    BY <1>2, SendType DEF TypeOK
  <2>4. QED BY <1>1, <2>1, <2>2, <2>3 DEF TypeOK
<1>4. BatchedWhereItStarted'
  BY <1>1 DEF BatchedWhereItStarted
<1>5. AnswersAreOwed'
  <2>1. \A x, n, q : SyncMessage(x, n, q) \in net' <=> SyncMessage(x, n, q) \in net
    BY <1>2 DEF Send, SyncMessage
  <2>2. \A x, n \in Machine, q \in Request : Expects(x, n, q)' <=> Expects(x, n, q)
    BY <1>0, <1>1 DEF Expects
  <2>3. QED BY <2>1, <2>2 DEF AnswersAreOwed, SyncMessage
<1>6. QED BY <1>3, <1>4, <1>5

\* REMASTER_FOLLOW and REMASTER_ASYNC.
LEMMA FollowConsistent ==
  ASSUME Consistent, NEW msg \in net, RemasterFollow(msg)
  PROVE  Consistent'
<1> USE DEF Consistent
<1> DEFINE k == msg.to  req == msg.request
<1>0. msg \in Message /\ k \in Machine /\ req \in Request
  BY DEF TypeOK, Message
<1>1. /\ msg.kind # "SYNC"
      /\ postponed' = [postponed EXCEPT ![k] = @ \cup {req}]
      /\ UNCHANGED <<wants, masters, place, dest, asks, origin, syncing, remasters, epoch, leaving>>
      /\ \/ net' = (net \ {msg}) \cup Send("ASYNC", k, Peers(k), req)
         \/ net' = net \ {msg}
  BY DEF RemasterFollow, Followers, Push, routing, loop
<1>2. Peers(k) \in SUBSET Machine
  BY DEF Peers
<1>3. TypeOK'
  <2>1. postponed' \in [Machine -> SUBSET Request]
    BY <1>0, <1>1 DEF TypeOK
  <2>2. net' \subseteq Message
    BY <1>0, <1>1, <1>2, SendType DEF TypeOK
  <2>3. QED BY <1>1, <2>1, <2>2 DEF TypeOK
<1>4. BatchedWhereItStarted'
  BY <1>1 DEF BatchedWhereItStarted
<1>5. AnswersAreOwed'
  <2>1. \A x, n, q : SyncMessage(x, n, q) \in net' <=> SyncMessage(x, n, q) \in net
    BY <1>1 DEF Send, SyncMessage
  <2>2. \A x, n, q : Expects(x, n, q)' <=> Expects(x, n, q)
    BY <1>1 DEF Expects
  <2>3. QED BY <2>1, <2>2 DEF AnswersAreOwed, SyncMessage
<1>6. QED BY <1>3, <1>4, <1>5

LEMMA BeginEpochConsistent ==
  ASSUME Consistent, NEW m \in Machine, BeginEpoch(m)
  PROVE  Consistent'
<1> USE DEF Consistent
<1>1. /\ epoch' = [epoch EXCEPT ![m] = "awake"]
      /\ place' = [a \in Action |-> IF a \in Queued(m, "queued") THEN At("counted", m) ELSE place[a]]
      /\ leaving' = [leaving EXCEPT ![m] = remasters[m]]
      /\ remasters' = [remasters EXCEPT ![m] = {}]
      /\ UNCHANGED <<wants, masters, dest, asks, origin, net, syncing, postponed>>
  BY DEF BeginEpoch
<1>2. TypeOK'
  <2>1. place' \in [Action -> PlaceRecord]
    BY <1>1 DEF TypeOK, At, PlaceRecord
  <2>3. QED BY <1>1, <2>1 DEF TypeOK
<1>3. BatchedWhereItStarted'
  BY <1>1 DEF BatchedWhereItStarted, Queued, At
<1>4. AnswersAreOwed'
  BY <1>1 DEF AnswersAreOwed, Expects
<1>5. QED BY <1>2, <1>3, <1>4

\* What the end of an epoch makes of the map.
LEMMA ChangeType ==
  ASSUME TypeOK, NEW m \in Machine, NEW map \in ChangeReplicaForPaths(masters[m], leaving[m])
  PROVE  /\ map \in [DOMAIN map -> Replica]
         /\ DOMAIN map \subseteq Path
         /\ DOMAIN map = DOMAIN masters[m] \cup {req.path : req \in leaving[m]}
         /\ \A p \in DOMAIN map :
              IF p \in DOMAIN masters[m] THEN map[p] = masters[m][p]
              ELSE [path |-> p, master |-> map[p]] \in leaving[m]
<1>1. /\ map \in [DOMAIN masters[m] \cup {req.path : req \in leaving[m]} -> Replica]
      /\ \A p \in DOMAIN map :
           IF p \in DOMAIN masters[m] THEN map[p] = masters[m][p]
           ELSE [path |-> p, master |-> map[p]] \in leaving[m]
  BY DEF ChangeReplicaForPaths
<1>2. DOMAIN masters[m] \subseteq Path /\ leaving[m] \subseteq Request
  BY DEF TypeOK
<1>3. {req.path : req \in leaving[m]} \subseteq Path
  BY <1>2 DEF Request
<1>4. QED BY <1>1, <1>2, <1>3

LEMMA EndEpochConsistent ==
  ASSUME Consistent, NEW m \in Machine, EndEpoch(m)
  PROVE  Consistent'
<1> USE DEF Consistent
<1> DEFINE local == {a \in Queued(m, "counted") : ActionIsLocal(m, a)}
<1>1. /\ origin' = [a \in Action |-> IF a \in local THEN ReplicaOf[m] ELSE origin[a]]
      /\ place' = [a \in Action |->
           IF a \notin Queued(m, "counted") THEN place[a]
           ELSE At(IF a \in local THEN "batched" ELSE "client", m)]
      /\ remasters' = [remasters EXCEPT ![m] = @ \cup postponed[m]]
      /\ postponed' = [postponed EXCEPT ![m] = {}]
      /\ epoch' = [epoch EXCEPT ![m] = "asleep"]
      /\ leaving' = [leaving EXCEPT ![m] = {}]
      /\ UNCHANGED <<wants, dest, asks, net, syncing>>
  BY DEF EndEpoch
<1>2. PICK map \in ChangeReplicaForPaths(masters[m], leaving[m]) : masters' = [masters EXCEPT ![m] = map]
  BY DEF EndEpoch
<1>3. TypeOK'
  <2>1. /\ DOMAIN masters' = Machine
        /\ \A n \in Machine : masters'[n] \in [DOMAIN masters'[n] -> Replica]
        /\ \A n \in Machine : DOMAIN masters'[n] \subseteq Path
    BY <1>2, ChangeType DEF TypeOK
  <2>2. place' \in [Action -> PlaceRecord]
    BY <1>1 DEF TypeOK, At, PlaceRecord
  <2>3. origin' \in [Action -> Replica \cup {None}]
    BY <1>1, RemasterAssumption DEF TypeOK
  <2>4. remasters' \in [Machine -> SUBSET Request]
    BY <1>1 DEF TypeOK
  <2>5. QED BY <1>1, <2>1, <2>2, <2>3, <2>4 DEF TypeOK
<1>4. BatchedWhereItStarted'
  <2>1. ASSUME NEW a \in Action
        PROVE  origin'[a] = IF place'[a].at = "batched" THEN ReplicaOf[place'[a].machine] ELSE None
    <3>1. CASE a \notin Queued(m, "counted")
      BY <3>1, <1>1 DEF BatchedWhereItStarted
    <3>2. CASE a \in local
      BY <3>2, <1>1 DEF At
    <3>3. CASE a \in Queued(m, "counted") /\ a \notin local
      <4>1. place[a].at = "counted"
        BY <3>3 DEF Queued, At
      <4>2. origin[a] = None
        BY <4>1 DEF BatchedWhereItStarted
      <4>3. QED BY <3>3, <4>2, <1>1 DEF At
    <3>4. QED BY <3>1, <3>2, <3>3
  <2>2. QED BY <2>1 DEF BatchedWhereItStarted
<1>5. AnswersAreOwed'
  BY <1>1 DEF AnswersAreOwed, Expects
<1>6. QED BY <1>3, <1>4, <1>5

\* A REMASTER expects an answer exactly from the machines that it asked and
\* that have not queued the request, and an action is in a batch exactly once
\* a machine that masters its paths put it there: HandleMessage and Start of block_log.h.
THEOREM ConsistentAlways == Spec => []Consistent
<1>1. Consistent /\ [Next]_vars => Consistent'
  <2> SUFFICES ASSUME Consistent, [Next]_vars PROVE Consistent'
    OBVIOUS
  <2>1. ASSUME NEW a \in Action, RouteAction(a) PROVE Consistent'
    BY <2>1, RouteConsistent
  <2>2. ASSUME NEW a \in Action, Append(a) PROVE Consistent'
    BY <2>2, AppendConsistent
  <2>3. ASSUME NEW msg \in net, Receive(msg) PROVE Consistent'
    BY <2>3, RemasterConsistent, SyncConsistent, FollowConsistent DEF Receive
  <2>4. ASSUME NEW m \in Machine, NEW req \in Request, SendRemasterFollows(m, req) PROVE Consistent'
    BY <2>4, FollowsConsistent
  <2>5. ASSUME NEW m \in Machine, BeginEpoch(m) PROVE Consistent'
    BY <2>5, BeginEpochConsistent
  <2>6. ASSUME NEW m \in Machine, EndEpoch(m) PROVE Consistent'
    BY <2>6, EndEpochConsistent
  <2>7. CASE UNCHANGED vars
    BY <2>7 DEF vars, routing, queues, loop, Consistent, TypeOK, BatchedWhereItStarted, AnswersAreOwed, Expects
  <2>8. QED BY <2>1, <2>2, <2>3, <2>4, <2>5, <2>6, <2>7 DEF Next
<1>2. QED BY InitConsistent, <1>1, PTL DEF Spec

----------------------------------------------------------------------------
(***************************************************************************)
(* Somebody's machines are told first.  A machine asks its peers, who are  *)
(* told when they answer, and tells others when all have.  What a machine  *)
(* was told it keeps: in its queue, in its epoch or in its map.            *)
(***************************************************************************)
AsleepIsIdle == \A m \in Machine : epoch[m] = "asleep" => leaving[m] = {}

AskedArePeers == \A m \in Machine : \A req \in DOMAIN syncing[m] : syncing[m][req] \subseteq Peers(m)

AnsweredAreTold ==
  \A m \in Machine : \A req \in DOMAIN syncing[m] : \A n \in Peers(m) \ syncing[m][req] : Told(n, req.path)

KnowInv ==
  /\ Consistent
  /\ AsleepIsIdle
  /\ AskedArePeers
  /\ AnsweredAreTold
  /\ OneReplicaIsToldFirst

LEMMA InitKnow == Init => KnowInv
<1> SUFFICES ASSUME Init PROVE KnowInv
  OBVIOUS
<1>1. Consistent
  BY InitConsistent
<1>2. AsleepIsIdle /\ AskedArePeers /\ AnsweredAreTold
  BY DEF Init, AsleepIsIdle, AskedArePeers, AnsweredAreTold
<1>3. \A n \in Machine : \A p : ~ Told(n, p)
  BY DEF Init, Told
<1>4. \A p \in Path : OnlyPeersKnow(p)
  BY <1>3 DEF Init, OnlyPeersKnow
<1>5. QED BY <1>1, <1>2, <1>4 DEF KnowInv, OneReplicaIsToldFirst

\* A machine never forgets what it was told.
LEMMA ToldStays ==
  ASSUME Consistent, AsleepIsIdle, [Next]_vars, NEW n \in Machine, NEW p \in Path, Told(n, p)
  PROVE  Told(n, p)'
<1> USE DEF Consistent
<1>0. remasters \in [Machine -> SUBSET Request] /\ leaving \in [Machine -> SUBSET Request] /\ DOMAIN masters = Machine
  BY DEF TypeOK
<1>1. CASE UNCHANGED <<masters, leaving>> /\ remasters[n] \subseteq remasters'[n]
  BY <1>1 DEF Told
<1>2. ASSUME NEW a \in Action, RouteAction(a) \/ Append(a) PROVE Told(n, p)'
  BY <1>1, <1>2 DEF RouteAction, Append, queues, loop
<1>3. ASSUME NEW msg \in net, Receive(msg) PROVE Told(n, p)'
  <2>1. UNCHANGED <<masters, leaving>>
    BY <1>3 DEF Receive, Remaster, RemasterSync, RemasterFollow, loop
  <2>2. remasters[n] \subseteq remasters'[n]
    BY <1>0, <1>3 DEF Receive, Remaster, RemasterSync, RemasterFollow, Push, queues
  <2>3. QED BY <1>1, <2>1, <2>2
<1>4. ASSUME NEW m \in Machine, NEW req \in Request, SendRemasterFollows(m, req) PROVE Told(n, p)'
  <2>1. UNCHANGED <<masters, leaving>> /\ remasters' = [remasters EXCEPT ![m] = remasters[m] \cup {req}]
    BY <1>4 DEF SendRemasterFollows, Push, loop
  <2>2. QED BY <1>0, <1>1, <2>1
<1>5. ASSUME NEW m \in Machine, BeginEpoch(m) PROVE Told(n, p)'
  <2>1. /\ UNCHANGED masters
        /\ leaving' = [leaving EXCEPT ![m] = remasters[m]]
        /\ remasters' = [remasters EXCEPT ![m] = {}]
        /\ leaving[m] = {}
    BY <1>5 DEF BeginEpoch, AsleepIsIdle
  <2>2. remasters'[n] \cup leaving'[n] = remasters[n] \cup leaving[n]
    BY <1>0, <2>1
  <2>3. QED BY <2>1, <2>2 DEF Told
<1>6. ASSUME NEW m \in Machine, EndEpoch(m) PROVE Told(n, p)'
  <2>1. PICK map \in ChangeReplicaForPaths(masters[m], leaving[m]) : masters' = [masters EXCEPT ![m] = map]
    BY <1>6 DEF EndEpoch
  <2>2. DOMAIN map = DOMAIN masters[m] \cup {req.path : req \in leaving[m]}
    BY <1>6, ChangeType
  <2>3. /\ leaving' = [leaving EXCEPT ![m] = {}]
        /\ remasters' = [remasters EXCEPT ![m] = remasters[m] \cup postponed[m]]
    BY <1>6 DEF EndEpoch
  <2>4. CASE n = m
    <3>1. masters'[n] = map /\ remasters[n] \subseteq remasters'[n]
      BY <1>0, <2>1, <2>3, <2>4
    <3>2. QED BY <3>1, <2>2, <2>4 DEF Told
  <2>5. CASE n # m
    <3>1. masters'[n] = masters[n] /\ remasters[n] = remasters'[n] /\ leaving'[n] = leaving[n]
      BY <1>0, <2>1, <2>3, <2>5
    <3>2. QED BY <3>1 DEF Told
  <2>6. QED BY <2>4, <2>5
<1>7. CASE UNCHANGED vars
  BY <1>1, <1>7 DEF vars, queues, loop
<1>8. QED BY <1>2, <1>3, <1>4, <1>5, <1>6, <1>7 DEF Next

LEMMA KnownStays ==
  ASSUME Consistent, AsleepIsIdle, [Next]_vars, NEW p \in Path, KnownInAReplica(p)
  PROVE  KnownInAReplica(p)'
BY ToldStays DEF KnownInAReplica, MachinesOf

\* It is enough to look at paths that no replica knows, before or after.
LEMMA UnknownStep ==
  ASSUME KnowInv, [Next]_vars,
         \A p \in Path : OnlyPeersKnow(p) /\ ~ KnownInAReplica(p)' => OnlyPeersKnow(p)'
  PROVE  OneReplicaIsToldFirst'
BY KnownStays DEF KnowInv, OneReplicaIsToldFirst

LEMMA QuietKnow ==
  ASSUME KnowInv, Consistent', [Next]_vars,
         UNCHANGED <<masters, syncing, remasters, postponed, epoch, leaving>>,
         \A msg \in net' \ net : msg.kind = "REMASTER"
  PROVE  KnowInv'
<1>1. \A n, p : Told(n, p)' <=> Told(n, p)
  BY DEF Told
<1>2. AsleepIsIdle' /\ AskedArePeers' /\ AnsweredAreTold'
  BY <1>1 DEF KnowInv, AsleepIsIdle, AskedArePeers, AnsweredAreTold
<1>3. ASSUME NEW p \in Path, OnlyPeersKnow(p) PROVE OnlyPeersKnow(p)'
  BY <1>1, <1>3 DEF OnlyPeersKnow
<1>4. OneReplicaIsToldFirst'
  BY <1>3, UnknownStep
<1>5. QED BY <1>2, <1>4 DEF KnowInv

LEMMA RouteKnow ==
  ASSUME KnowInv, NEW a \in Action, RouteAction(a) \/ Append(a)
  PROVE  KnowInv'
<1>0. Consistent /\ [Next]_vars
  BY DEF KnowInv, Next
<1>1. Consistent'
  BY <1>0, RouteConsistent, AppendConsistent
<1>2. UNCHANGED <<masters, syncing, remasters, postponed, epoch, leaving>>
  BY DEF RouteAction, Append, queues, loop
<1>3. \A msg \in net' \ net : msg.kind = "REMASTER"
  <2>1. CASE net' = net
    BY <2>1
  <2>2. ASSUME NEW m, NEW r, NEW sent \in Remasterings(m, a, r), net' = net \cup sent
        PROVE  \A msg \in net' \ net : msg.kind = "REMASTER"
    <3> DEFINE moved == {p \in paths[a] : LookupReplicaByDir(m, p) # r}
    <3>1. \A msg \in sent : msg.kind = "REMASTER"
      <4>1. PICK f : sent = {[kind |-> "REMASTER", from |-> m, to |-> f[p],
                              request |-> [path |-> p, master |-> r]] : p \in moved}
        BY <2>2 DEF Remasterings
      <4>2. QED BY <4>1
    <3>2. QED BY <2>2, <3>1
  <2>3. CASE RouteAction(a)
    BY <2>1, <2>2, <2>3 DEF RouteAction
  <2>4. CASE Append(a)
    BY <2>1, <2>4 DEF Append
  <2>5. QED BY <2>3, <2>4
<1>4. QED BY <1>0, <1>1, <1>2, <1>3, QuietKnow

\* REMASTER: no peer has answered yet.
LEMMA RemasterKnow ==
  ASSUME KnowInv, NEW msg \in net, Remaster(msg)
  PROVE  KnowInv'
<1> USE DEF KnowInv
<1> DEFINE m == msg.to  req == msg.request
<1>n. [Next]_vars
  BY DEF Next, Receive
<1>0. TypeOK /\ msg \in Message /\ m \in Machine /\ req \in Request /\ DOMAIN syncing = Machine
  BY DEF Consistent, TypeOK, Message
<1>1. /\ msg.kind = "REMASTER"
      /\ net' = (net \ {msg}) \cup Send("SYNC", m, Peers(m), req)
      /\ syncing' = [syncing EXCEPT ![m] = [q \in DOMAIN syncing[m] \cup {req} |->
           IF q = req THEN Peers(m) ELSE syncing[m][q]]]
      /\ UNCHANGED <<masters, remasters, postponed, epoch, leaving>>
  BY DEF Remaster, queues, loop
<1>2. \A new \in net' \ net : new.kind = "SYNC"
  <2>1. Peers(m) \in SUBSET Machine
    BY DEF Peers
  <2>2. QED BY <1>0, <1>1, <2>1, SendType
<1>3. /\ DOMAIN syncing'[m] = DOMAIN syncing[m] \cup {req}
      /\ syncing'[m][req] = Peers(m)
      /\ \A q \in DOMAIN syncing[m] \ {req} : syncing'[m][q] = syncing[m][q]
      /\ \A n \in Machine \ {m} : syncing'[n] = syncing[n]
  BY <1>0, <1>1
<1>4. \A n, p : Told(n, p)' <=> Told(n, p)
  BY <1>1 DEF Told
<1>5. Consistent' /\ AsleepIsIdle'
  BY <1>1, RemasterConsistent DEF AsleepIsIdle
<1>6. AskedArePeers'
  BY <1>3 DEF AskedArePeers, Peers
<1>7. AnsweredAreTold'
  <2>1. ASSUME NEW n \in Machine, NEW q \in DOMAIN syncing'[n], NEW k \in Peers(n) \ syncing'[n][q]
        PROVE  Told(k, q.path)
    <3>1. ~ (n = m /\ q = req)
      BY <1>3
    <3>2. q \in DOMAIN syncing[n] /\ syncing'[n][q] = syncing[n][q]
      BY <1>3, <3>1
    <3>3. QED BY <3>2 DEF AnsweredAreTold
  <2>2. QED BY <2>1, <1>4 DEF AnsweredAreTold
<1>8. ASSUME NEW p \in Path, OnlyPeersKnow(p) PROVE OnlyPeersKnow(p)'
  <2>1. \A n \in Machine : DOMAIN syncing[n] \subseteq DOMAIN syncing'[n]
    BY <1>3
  <2>2. QED BY <1>1, <1>2, <1>4, <1>8, <2>1 DEF OnlyPeersKnow, MachinesOf
<1>9. OneReplicaIsToldFirst'
  BY <1>n, <1>8, UnknownStep
<1>10. QED BY <1>5, <1>6, <1>7, <1>9

\* REMASTER_SYNC: who answers has queued the request.
LEMMA SyncKnow ==
  ASSUME KnowInv, NEW msg \in net, RemasterSync(msg)
  PROVE  KnowInv'
<1> USE DEF KnowInv
<1> DEFINE m == msg.from  k == msg.to  req == msg.request
<1>n. [Next]_vars
  BY DEF Next, Receive
<1>0. TypeOK /\ msg \in Message /\ m \in Machine /\ k \in Machine /\ req \in Request /\ DOMAIN syncing = Machine
  BY DEF Consistent, TypeOK, Message
<1>1. /\ msg = SyncMessage(m, k, req)
      /\ net' = net \ {msg}
      /\ syncing' = [syncing EXCEPT ![m][req] = syncing[m][req] \ {k}]
      /\ remasters' = [remasters EXCEPT ![k] = remasters[k] \cup {req}]
      /\ UNCHANGED <<masters, postponed, epoch, leaving>>
  BY <1>0 DEF RemasterSync, Answered, Push, SyncMessage, Message, loop
<1>2. req \in DOMAIN syncing[m] /\ k \in syncing[m][req]
  BY <1>0, <1>1 DEF Consistent, AnswersAreOwed, Expects, SyncMessage
<1>3. /\ syncing'[m] = [syncing[m] EXCEPT ![req] = syncing[m][req] \ {k}]
      /\ \A n \in Machine \ {m} : syncing'[n] = syncing[n]
  BY <1>0, <1>1
<1>4. /\ \A n \in Machine : DOMAIN syncing'[n] = DOMAIN syncing[n]
      /\ syncing'[m][req] = syncing[m][req] \ {k}
      /\ \A q \in DOMAIN syncing[m] \ {req} : syncing'[m][q] = syncing[m][q]
  BY <1>2, <1>3
<1>5. \A n \in Machine, p \in Path : Told(n, p) => Told(n, p)'
  BY <1>n, ToldStays
<1>6. /\ remasters'[k] = remasters[k] \cup {req}
      /\ \A n \in Machine \ {k} : remasters'[n] = remasters[n]
  BY <1>0, <1>1 DEF TypeOK
<1>7. Told(k, req.path)'
  BY <1>6 DEF Told
<1>8. ReplicaOf[m] = ReplicaOf[k]
  BY <1>0, <1>2 DEF AskedArePeers, Peers
<1>9. Consistent' /\ AsleepIsIdle'
  BY <1>1, SyncConsistent DEF AsleepIsIdle
<1>10. AskedArePeers'
  <2>1. ASSUME NEW n \in Machine, NEW q \in DOMAIN syncing'[n] PROVE syncing'[n][q] \subseteq syncing[n][q]
    BY <1>3, <1>4
  <2>2. QED BY <1>4, <2>1 DEF AskedArePeers, Peers
<1>11. AnsweredAreTold'
  <2>1. ASSUME NEW n \in Machine, NEW q \in DOMAIN syncing'[n], NEW x \in Peers(n) \ syncing'[n][q]
        PROVE  Told(x, q.path)'
    <3>1. q \in DOMAIN syncing[n] /\ q.path \in Path /\ x \in Machine
      BY <1>0, <1>4 DEF TypeOK, Request, Peers
    <3>2. CASE x \notin syncing[n][q]
      BY <3>1, <3>2, <1>5 DEF AnsweredAreTold
    <3>3. CASE x \in syncing[n][q]
      <4>1. n = m /\ q = req /\ x = k
        BY <3>1, <3>3, <1>3, <1>4
      <4>2. QED BY <4>1, <1>7
    <3>4. QED BY <3>2, <3>3
  <2>2. QED BY <2>1 DEF AnsweredAreTold
<1>12. ASSUME NEW p \in Path, OnlyPeersKnow(p) PROVE OnlyPeersKnow(p)'
  <2>1. ASSUME NEW n \in Machine, Told(n, p)'
        PROVE  \E x \in MachinesOf(ReplicaOf[n]) : \E q \in DOMAIN syncing'[x] : q.path = p
    <3>1. CASE Told(n, p)
      BY <1>4, <1>12, <3>1 DEF OnlyPeersKnow, MachinesOf
    <3>2. CASE ~ Told(n, p)
      <4>1. n = k /\ p = req.path
        BY <2>1, <3>2, <1>1, <1>6 DEF Told
      <4>2. m \in MachinesOf(ReplicaOf[n]) /\ req \in DOMAIN syncing'[m]
        BY <1>0, <1>2, <1>4, <1>8, <4>1 DEF MachinesOf
      <4>3. QED BY <4>1, <4>2
    <3>3. QED BY <3>1, <3>2
  <2>2. QED BY <1>1, <1>12, <2>1 DEF OnlyPeersKnow, MachinesOf
<1>13. OneReplicaIsToldFirst'
  BY <1>n, <1>12, UnknownStep
<1>14. QED BY <1>9, <1>10, <1>11, <1>13

\* The end of REMASTER: all machines of the replica have been told.
LEMMA FollowsKnow ==
  ASSUME KnowInv, NEW m \in Machine, NEW req \in Request, SendRemasterFollows(m, req)
  PROVE  /\ KnowInv'
         /\ \A n \in MachinesOf(ReplicaOf[m]) : Told(n, req.path)'
<1> USE DEF KnowInv
<1>n. [Next]_vars
  BY DEF Next
<1>0. TypeOK /\ DOMAIN syncing = Machine /\ req.path \in Path
  BY DEF Consistent, TypeOK, Request
<1>1. /\ req \in DOMAIN syncing[m] /\ syncing[m][req] = {}
      /\ syncing' = [syncing EXCEPT ![m] = [q \in DOMAIN syncing[m] \ {req} |-> syncing[m][q]]]
      /\ remasters' = [remasters EXCEPT ![m] = remasters[m] \cup {req}]
      /\ UNCHANGED <<masters, postponed, epoch, leaving>>
  BY DEF SendRemasterFollows, AllSynced, Push, loop
<1>2. \A new \in net' \ net : new.kind = "FOLLOW" /\ new.request = req
  <2>1. PICK told \in [Replica \ {ReplicaOf[m]} -> Machine] :
          net' = net \cup Send("FOLLOW", m, {told[r] : r \in DOMAIN told}, req)
    BY DEF SendRemasterFollows
  <2>2. {told[r] : r \in DOMAIN told} \in SUBSET Machine
    OBVIOUS
  <2>3. QED BY <2>1, <2>2, SendType
<1>3. /\ DOMAIN syncing'[m] = DOMAIN syncing[m] \ {req}
      /\ \A q \in DOMAIN syncing[m] \ {req} : syncing'[m][q] = syncing[m][q]
      /\ \A n \in Machine \ {m} : syncing'[n] = syncing[n]
  BY <1>0, <1>1
<1>4. \A n \in Machine, p \in Path : Told(n, p) => Told(n, p)'
  BY <1>n, ToldStays
<1>5. /\ remasters'[m] = remasters[m] \cup {req}
      /\ \A n \in Machine \ {m} : remasters'[n] = remasters[n]
  BY <1>0, <1>1 DEF TypeOK
<1>6. \A n \in MachinesOf(ReplicaOf[m]) : Told(n, req.path)'
  <2>1. Told(m, req.path)'
    BY <1>5 DEF Told
  <2>2. \A n \in Peers(m) : Told(n, req.path)
    BY <1>1 DEF AnsweredAreTold
  <2>3. \A n \in MachinesOf(ReplicaOf[m]) : n \in Machine /\ (n = m \/ n \in Peers(m))
    BY DEF MachinesOf, Peers
  <2>4. QED BY <1>0, <1>4, <2>1, <2>2, <2>3
<1>7. KnownInAReplica(req.path)'
  BY <1>6, RemasterAssumption DEF KnownInAReplica, MachinesOf
<1>8. Consistent' /\ AsleepIsIdle'
  BY <1>1, FollowsConsistent DEF AsleepIsIdle
<1>9. AskedArePeers'
  BY <1>3 DEF AskedArePeers, Peers
<1>10. AnsweredAreTold'
  <2>1. ASSUME NEW n \in Machine, NEW q \in DOMAIN syncing'[n], NEW x \in Peers(n) \ syncing'[n][q]
        PROVE  Told(x, q.path)'
    <3>1. q \in DOMAIN syncing[n] /\ syncing'[n][q] = syncing[n][q]
      BY <1>3
    <3>2. q.path \in Path /\ x \in Machine
      BY <3>1, <1>0 DEF TypeOK, Request, Peers
    <3>3. QED BY <3>1, <3>2, <1>4 DEF AnsweredAreTold
  <2>2. QED BY <2>1 DEF AnsweredAreTold
<1>11. ASSUME NEW p \in Path, OnlyPeersKnow(p), ~ KnownInAReplica(p)' PROVE OnlyPeersKnow(p)'
  <2>1. p # req.path
    BY <1>7, <1>11
  <2>2. \A n \in Machine : Told(n, p)' => Told(n, p)
    BY <2>1, <1>1, <1>5 DEF Told
  <2>3. \A x \in Machine : \A q \in DOMAIN syncing[x] : q.path = p => q \in DOMAIN syncing'[x]
    BY <2>1, <1>3
  <2>4. QED BY <1>1, <1>2, <1>11, <2>1, <2>2, <2>3 DEF OnlyPeersKnow, MachinesOf
<1>12. OneReplicaIsToldFirst'
  BY <1>n, <1>11, UnknownStep
<1>13. QED BY <1>6, <1>8, <1>9, <1>10, <1>12

\* REMASTER_FOLLOW and REMASTER_ASYNC: the request is kept for later.
LEMMA FollowKnow ==
  ASSUME KnowInv, NEW msg \in net, RemasterFollow(msg)
  PROVE  KnowInv'
<1> USE DEF KnowInv
<1> DEFINE k == msg.to  req == msg.request
<1>n. [Next]_vars
  BY DEF Next, Receive
<1>0. TypeOK /\ msg \in Message /\ k \in Machine /\ req \in Request
  BY DEF Consistent, TypeOK, Message
<1>1. /\ msg.kind \in {"FOLLOW", "ASYNC"}
      /\ postponed' = [postponed EXCEPT ![k] = postponed[k] \cup {req}]
      /\ UNCHANGED <<masters, syncing, remasters, epoch, leaving>>
      /\ \/ net' = (net \ {msg}) \cup Send("ASYNC", k, Peers(k), req)
         \/ net' = net \ {msg}
  BY DEF RemasterFollow, Followers, Push, loop
<1>2. \A new \in net' \ net : new.request = req
  <2>1. Peers(k) \in SUBSET Machine
    BY DEF Peers
  <2>2. QED BY <1>0, <1>1, <2>1, SendType
<1>3. /\ postponed'[k] = postponed[k] \cup {req}
      /\ \A n \in Machine \ {k} : postponed'[n] = postponed[n]
  BY <1>0, <1>1 DEF TypeOK
<1>4. \A n, p : Told(n, p)' <=> Told(n, p)
  BY <1>1 DEF Told
<1>5. Consistent' /\ AsleepIsIdle' /\ AskedArePeers' /\ AnsweredAreTold'
  BY <1>1, <1>4, FollowConsistent DEF AsleepIsIdle, AskedArePeers, AnsweredAreTold
<1>6. ASSUME NEW p \in Path, OnlyPeersKnow(p) PROVE OnlyPeersKnow(p)'
  <2>1. req.path # p
    BY <1>1, <1>6 DEF OnlyPeersKnow
  <2>2. QED BY <1>1, <1>2, <1>3, <1>4, <1>6, <2>1 DEF OnlyPeersKnow, MachinesOf
<1>7. OneReplicaIsToldFirst'
  BY <1>n, <1>6, UnknownStep
<1>8. QED BY <1>5, <1>7

LEMMA BeginEpochKnow ==
  ASSUME KnowInv, NEW m \in Machine, BeginEpoch(m)
  PROVE  KnowInv'
<1> USE DEF KnowInv
<1>n. [Next]_vars
  BY DEF Next
<1>0. TypeOK
  BY DEF Consistent
<1>1. /\ epoch' = [epoch EXCEPT ![m] = "awake"]
      /\ leaving' = [leaving EXCEPT ![m] = remasters[m]]
      /\ remasters' = [remasters EXCEPT ![m] = {}]
      /\ leaving[m] = {}
      /\ UNCHANGED <<masters, net, syncing, postponed>>
  BY DEF BeginEpoch, AsleepIsIdle
<1>2. \A n \in Machine : remasters'[n] \cup leaving'[n] = remasters[n] \cup leaving[n]
  BY <1>0, <1>1 DEF TypeOK
<1>3. \A n \in Machine, p \in Path : Told(n, p)' <=> Told(n, p)
  BY <1>1, <1>2 DEF Told
<1>4. \A n \in Machine : \A q \in DOMAIN syncing[n] : q.path \in Path
  BY <1>0 DEF TypeOK, Request
<1>5. Consistent' /\ AsleepIsIdle'
  BY <1>0, <1>1, BeginEpochConsistent DEF AsleepIsIdle, TypeOK
<1>6. AskedArePeers' /\ AnsweredAreTold'
  BY <1>1, <1>3, <1>4 DEF AskedArePeers, AnsweredAreTold, Peers
<1>7. ASSUME NEW p \in Path, OnlyPeersKnow(p) PROVE OnlyPeersKnow(p)'
  BY <1>1, <1>3, <1>7 DEF OnlyPeersKnow, MachinesOf
<1>8. OneReplicaIsToldFirst'
  BY <1>n, <1>7, UnknownStep
<1>9. QED BY <1>5, <1>6, <1>8

\* The end of an epoch: what was postponed comes into the queue.
LEMMA EndEpochKnow ==
  ASSUME KnowInv, NEW m \in Machine, EndEpoch(m)
  PROVE  /\ KnowInv'
         /\ \A n \in Machine, p \in Path : Told(n, p)' /\ ~ Told(n, p) =>
              \E req \in postponed[n] : req.path = p
<1> USE DEF KnowInv
<1>n. [Next]_vars
  BY DEF Next
<1>0. TypeOK
  BY DEF Consistent
<1>1. /\ remasters' = [remasters EXCEPT ![m] = remasters[m] \cup postponed[m]]
      /\ postponed' = [postponed EXCEPT ![m] = {}]
      /\ leaving' = [leaving EXCEPT ![m] = {}]
      /\ epoch' = [epoch EXCEPT ![m] = "asleep"]
      /\ UNCHANGED <<net, syncing>>
  BY DEF EndEpoch
<1>2. PICK map \in ChangeReplicaForPaths(masters[m], leaving[m]) : masters' = [masters EXCEPT ![m] = map]
  BY DEF EndEpoch
<1>3. DOMAIN map = DOMAIN masters[m] \cup {req.path : req \in leaving[m]}
  BY <1>0, ChangeType
<1>4. /\ masters'[m] = map
      /\ remasters'[m] = remasters[m] \cup postponed[m]
      /\ postponed'[m] = {} /\ leaving'[m] = {}
      /\ \A n \in Machine \ {m} : /\ masters'[n] = masters[n] /\ remasters'[n] = remasters[n]
                                  /\ postponed'[n] = postponed[n] /\ leaving'[n] = leaving[n]
  BY <1>0, <1>1, <1>2 DEF TypeOK
<1>5. \A n \in Machine : \A q \in DOMAIN syncing[n] : q.path \in Path
  BY <1>0 DEF TypeOK, Request
<1>6. Consistent' /\ AsleepIsIdle'
  BY <1>0, <1>1, <1>4, EndEpochConsistent DEF AsleepIsIdle, TypeOK
<1>7. AskedArePeers' /\ AnsweredAreTold'
  BY <1>n, <1>1, <1>5, ToldStays DEF AskedArePeers, AnsweredAreTold, Peers
<1>8. ASSUME NEW n \in Machine, NEW p \in Path, Told(n, p)', ~ Told(n, p)
      PROVE  \E req \in postponed[n] : req.path = p
  <2>1. n = m
    BY <1>8, <1>4 DEF Told
  <2>2. QED BY <1>8, <2>1, <1>3, <1>4 DEF Told
<1>9. ASSUME NEW p \in Path, OnlyPeersKnow(p) PROVE OnlyPeersKnow(p)'
  <2>1. \A n \in Machine : Told(n, p)' => Told(n, p)
    BY <1>8, <1>9 DEF OnlyPeersKnow
  <2>2. \A n \in Machine : postponed'[n] \subseteq postponed[n]
    BY <1>4
  <2>3. QED BY <1>1, <1>9, <2>1, <2>2 DEF OnlyPeersKnow, MachinesOf
<1>10. OneReplicaIsToldFirst'
  BY <1>n, <1>9, UnknownStep
<1>11. QED BY <1>6, <1>7, <1>8, <1>10

LEMMA StepKnow == ASSUME KnowInv, [Next]_vars PROVE KnowInv'
<1>1. ASSUME NEW a \in Action, RouteAction(a) \/ Append(a) PROVE KnowInv'
  BY <1>1, RouteKnow
<1>2. ASSUME NEW msg \in net, Receive(msg) PROVE KnowInv'
  BY <1>2, RemasterKnow, SyncKnow, FollowKnow DEF Receive
<1>3. ASSUME NEW m \in Machine, NEW req \in Request, SendRemasterFollows(m, req) PROVE KnowInv'
  BY <1>3, FollowsKnow
<1>4. ASSUME NEW m \in Machine, BeginEpoch(m) \/ EndEpoch(m) PROVE KnowInv'
  BY <1>4, BeginEpochKnow, EndEpochKnow
<1>5. CASE UNCHANGED vars
  <2>1. Consistent'
    BY <1>5 DEF KnowInv, vars, routing, queues, loop, Consistent, TypeOK, BatchedWhereItStarted,
         AnswersAreOwed, Expects
  <2>2. QED BY <1>5, <2>1, QuietKnow DEF vars, queues, loop
<1>6. QED BY <1>1, <1>2, <1>3, <1>4, <1>5 DEF Next

\* However many actions ask for whatever masters of a path, until all machines
\* of one replica have been told of its move nobody is told but the peers of a
\* machine that waits for their answers: REMASTER in block_log.h sends no
\* REMASTER_FOLLOW before it has the answers to its REMASTER_SYNCs.
THEOREM OneReplicaFirst == Spec => []OneReplicaIsToldFirst
<1>1. KnowInv => OneReplicaIsToldFirst
  BY DEF KnowInv
<1>2. QED BY <1>1, InitKnow, StepKnow, PTL DEF Spec

----------------------------------------------------------------------------
(***************************************************************************)
(* The old master is told first.  A request asks for the master that some  *)
(* action on the path wants.  While nobody contests it that is the only    *)
(* master anybody knows of but the first, so the path moves once, and a    *)
(* REMASTER of it goes only to machines of the first.                      *)
(***************************************************************************)
RequestsOf(m) == DOMAIN syncing[m] \cup remasters[m] \cup postponed[m] \cup leaving[m]

Wanted(req) == \E a \in Action : req.path \in paths[a] /\ dest[a] = req.master

RequestsAreWanted ==
  /\ \A msg \in net : Wanted(msg.request)
  /\ \A m \in Machine : \A req \in RequestsOf(m) : Wanted(req)
  /\ \A m \in Machine : \A p \in DOMAIN masters[m] : Wanted([path |-> p, master |-> masters[m][p]])

OldMasterRemasters ==
  /\ \A msg \in net : msg.kind \in {"REMASTER", "SYNC"} =>
       Contested(msg.request.path) \/ ReplicaOf[msg.to] = Default[msg.request.path]
  /\ \A m \in Machine : \A req \in DOMAIN syncing[m] :
       Contested(req.path) \/ ReplicaOf[m] = Default[req.path]

\* Nothing to show of p, or all machines of its first master were told.
OldMasterKnows(p) == Contested(p) \/ \A m \in MachinesOf(Default[p]) : Told(m, p)

OthersComeLater ==
  /\ \A msg \in net : msg.kind \in {"FOLLOW", "ASYNC"} => OldMasterKnows(msg.request.path)
  /\ \A m \in Machine : \A req \in postponed[m] : OldMasterKnows(req.path)

OrderInv ==
  /\ KnowInv
  /\ RequestsAreWanted
  /\ OldMasterRemasters
  /\ OthersComeLater
  /\ OldMasterIsToldFirst

LEMMA InitOrder == Init => OrderInv
<1> SUFFICES ASSUME Init PROVE OrderInv
  OBVIOUS
<1>1. \A n \in Machine : \A p : ~ Told(n, p)
  BY DEF Init, Told
<1>2. RequestsAreWanted /\ OldMasterRemasters /\ OthersComeLater
  BY DEF Init, RequestsAreWanted, RequestsOf, OldMasterRemasters, OthersComeLater
<1>3. OldMasterIsToldFirst
  BY <1>1 DEF OldMasterIsToldFirst
<1>4. QED BY <1>2, <1>3, InitKnow DEF OrderInv

\* An action keeps its destination, so a contest goes on for ever.
LEMMA DestStays ==
  ASSUME TypeOK, [Next]_vars
  PROVE  /\ paths' = paths
         /\ \A a \in Action : dest[a] # None => dest'[a] = dest[a]
         /\ \A p : Contested(p) => Contested(p)'
         /\ \A req \in Request : Wanted(req) => Wanted(req)'
<1>1. /\ paths' = paths
      /\ \A a \in Action : dest[a] # None => dest'[a] = dest[a]
  <2>1. ASSUME NEW b \in Action, RouteAction(b)
        PROVE  paths' = paths /\ \A a \in Action : dest[a] # None => dest'[a] = dest[a]
    BY <2>1 DEF RouteAction, Destinations, TypeOK
  <2>2. ASSUME NEW b \in Action, Append(b)
        PROVE  paths' = paths /\ dest' = dest
    BY <2>2 DEF Append
  <2>3. ASSUME NEW msg \in net, Receive(msg)
        PROVE  paths' = paths /\ dest' = dest
    BY <2>3 DEF Receive, Remaster, RemasterSync, RemasterFollow, routing
  <2>4. ASSUME NEW m \in Machine, NEW req \in Request, SendRemasterFollows(m, req)
        PROVE  paths' = paths /\ dest' = dest
    BY <2>4 DEF SendRemasterFollows, routing
  <2>5. ASSUME NEW m \in Machine, BeginEpoch(m) \/ EndEpoch(m)
        PROVE  paths' = paths /\ dest' = dest
    BY <2>5 DEF BeginEpoch, EndEpoch
  <2>6. CASE UNCHANGED vars
    BY <2>6 DEF vars, routing
  <2>7. QED BY <2>1, <2>2, <2>3, <2>4, <2>5, <2>6 DEF Next
<1>2. \A p : Contested(p) => Contested(p)'
  BY <1>1 DEF Contested
<1>3. ASSUME NEW req \in Request, Wanted(req) PROVE Wanted(req)'
  <2>1. req.master # None
    BY RemasterAssumption DEF Request
  <2>2. QED BY <1>1, <1>3, <2>1 DEF Wanted
<1>4. QED BY <1>1, <1>2, <1>3

LEMMA KnowsStays ==
  ASSUME KnowInv, [Next]_vars, NEW p \in Path, OldMasterKnows(p)
  PROVE  OldMasterKnows(p)'
BY ToldStays, DestStays DEF KnowInv, Consistent, OldMasterKnows, MachinesOf

\* Steps after which nobody is told of a path that was not told before.
LEMMA NobodyNewTold ==
  ASSUME OrderInv, [Next]_vars,
         \A n \in Machine, p \in Path : Told(n, p)' /\ ~ Told(n, p) =>
           ReplicaOf[n] = Default[p] \/ OldMasterKnows(p)
  PROVE  OldMasterIsToldFirst'
<1> SUFFICES ASSUME NEW p \in Path, NEW n \in Machine, ReplicaOf[n] # Default[p], Told(n, p)'
             PROVE  OldMasterKnows(p)'
  BY DEF OldMasterIsToldFirst, OldMasterKnows
<1>1. OldMasterKnows(p)
  BY DEF OrderInv, OldMasterIsToldFirst, OldMasterKnows
<1>2. QED BY <1>1, KnowsStays DEF OrderInv

\* The rest of OrderInv, when no destination changes and no REMASTER or SYNC
\* is sent but by machines of the first master.
LEMMA WantedStep ==
  ASSUME OrderInv, [Next]_vars, dest' = dest,
         \A msg \in net' \ net : \E req \in Request : Wanted(req) /\ msg.request = req,
         \A m \in Machine : \A req \in RequestsOf(m)' : Wanted(req),
         \A m \in Machine : \A p \in DOMAIN masters'[m] : Wanted([path |-> p, master |-> masters'[m][p]])
  PROVE  RequestsAreWanted' /\ (\A p : Contested(p)' <=> Contested(p))
<1>1. paths' = paths
  BY DestStays DEF OrderInv, KnowInv, Consistent
<1>2. \A req : Wanted(req)' <=> Wanted(req)
  BY <1>1 DEF Wanted
<1>3. \A p : Contested(p)' <=> Contested(p)
  BY <1>1 DEF Contested
<1>4. QED BY <1>2, <1>3 DEF RequestsAreWanted, OrderInv

LEMMA OrderTypes ==
  ASSUME OrderInv
  PROVE  /\ TypeOK
         /\ \A msg \in net : msg \in Message /\ msg.to \in Machine /\ msg.from \in Machine
                             /\ msg.request \in Request /\ msg.request.path \in Path
         /\ \A m \in Machine : \A req \in RequestsOf(m) : req \in Request /\ req.path \in Path
BY DEF OrderInv, KnowInv, Consistent, TypeOK, Message, Request, RequestsOf

\* A path that an action asks to be moved is still with its first master, or
\* it is contested.
LEMMA RouteOrder ==
  ASSUME OrderInv, NEW b \in Action, RouteAction(b)
  PROVE  OrderInv'
<1> USE DEF OrderInv
<1> DEFINE m == place[b].machine
<1>0. m \in Machine /\ TypeOK
  BY OrderTypes DEF TypeOK, PlaceRecord
<1>n. [Next]_vars
  BY DEF Next
<1>1. KnowInv'
  BY RouteKnow
<1>2. UNCHANGED <<masters, syncing, remasters, postponed, epoch, leaving>>
  BY DEF RouteAction, queues, loop
<1>3. \A n, p : Told(n, p)' <=> Told(n, p)
  BY <1>2 DEF Told
<1>4. /\ \A a \in Action : dest[a] # None => dest'[a] = dest[a]
      /\ paths' = paths
      /\ \A p : Contested(p) => Contested(p)'
      /\ \A req \in Request : Wanted(req) => Wanted(req)'
  BY <1>0, <1>n, DestStays
<1>5. \A msg \in net' \ net :
        /\ msg.kind = "REMASTER"
        /\ Wanted(msg.request)'
        /\ Contested(msg.request.path)' \/ ReplicaOf[msg.to] = Default[msg.request.path]
  <2>1. CASE net' = net
    BY <2>1
  <2>2. ASSUME NEW r \in Destinations(m, b), dest' = [dest EXCEPT ![b] = r],
               NEW sent \in Remasterings(m, b, r), NEW msg \in sent
        PROVE  /\ msg.kind = "REMASTER"
               /\ Wanted(msg.request)'
               /\ Contested(msg.request.path)' \/ ReplicaOf[msg.to] = Default[msg.request.path]
    <3> DEFINE p == msg.request.path
    <3>1. r \in Replica /\ r # None
      <4>1. InvolvedReplicas(m, b) \subseteq Replica
        BY <1>0, LookupType, OrderTypes DEF InvolvedReplicas, TypeOK
      <4>2. QED BY <1>0, <2>2, <4>1, RemasterAssumption DEF Destinations, TypeOK
    <3>2. /\ msg.kind = "REMASTER"
          /\ msg.request.master = r
          /\ p \in paths[b]
          /\ LookupReplicaByDir(m, p) # r
          /\ ReplicaOf[msg.to] = LookupReplicaByDir(m, p)
      BY <1>0, <2>2, <3>1, RemasteringsType
    <3>3. dest'[b] = r
      BY <1>0, <2>2 DEF TypeOK
    <3>4. Wanted(msg.request)'
      BY <1>4, <3>2, <3>3 DEF Wanted
    <3>5. CASE p \notin DOMAIN masters[m]
      BY <3>2, <3>4, <3>5 DEF LookupReplicaByDir
    <3>6. CASE p \in DOMAIN masters[m]
      <4>1. masters[m][p] # r /\ masters[m][p] \in Replica /\ masters[m][p] # None
        BY <1>0, <3>2, <3>6, RemasterAssumption DEF LookupReplicaByDir, TypeOK
      <4>2. PICK c \in Action : p \in paths[c] /\ dest[c] = masters[m][p]
        BY <1>0, <3>6 DEF RequestsAreWanted, Wanted
      <4>3. dest'[c] = masters[m][p]
        BY <1>4, <4>1, <4>2
      <4>4. Contested(p)'
        BY <1>4, <3>1, <3>2, <3>3, <4>1, <4>2, <4>3 DEF Contested
      <4>5. QED BY <3>2, <3>4, <4>4
    <3>7. QED BY <3>5, <3>6
  <2>3. \/ net' = net
        \/ \E r \in Destinations(m, b) :
             /\ dest' = [dest EXCEPT ![b] = r]
             /\ \E sent \in Remasterings(m, b, r) : net' = net \cup sent
    BY DEF RouteAction
  <2>4. QED BY <2>1, <2>2, <2>3
<1>6. RequestsAreWanted'
  <2>1. \A n \in Machine : RequestsOf(n)' = RequestsOf(n)
    BY <1>2 DEF RequestsOf
  <2>2. \A n \in Machine : \A p \in DOMAIN masters[n] : [path |-> p, master |-> masters[n][p]] \in Request
    BY <1>0 DEF TypeOK, Request
  <2>3. \A msg \in net' : Wanted(msg.request)'
    BY <1>4, <1>5, OrderTypes DEF RequestsAreWanted
  <2>4. \A n \in Machine : \A req \in RequestsOf(n) : Wanted(req)'
    BY <1>4, OrderTypes DEF RequestsAreWanted
  <2>5. \A n \in Machine : \A p \in DOMAIN masters[n] : Wanted([path |-> p, master |-> masters[n][p]])'
    BY <1>2, <1>4, <2>2 DEF RequestsAreWanted
  <2>6. QED BY <1>2, <2>1, <2>3, <2>4, <2>5 DEF RequestsAreWanted
<1>7. OldMasterRemasters'
  BY <1>2, <1>4, <1>5 DEF OldMasterRemasters
<1>8. OthersComeLater'
  <2>1. \A p : OldMasterKnows(p) => OldMasterKnows(p)'
    BY <1>3, <1>4 DEF OldMasterKnows
  <2>2. QED BY <1>2, <1>5, <2>1 DEF OthersComeLater
<1>9. OldMasterIsToldFirst'
  BY <1>3, <1>n, NobodyNewTold
<1>10. QED BY <1>1, <1>6, <1>7, <1>8, <1>9

LEMMA AppendOrder ==
  ASSUME OrderInv, NEW b \in Action, Append(b)
  PROVE  OrderInv'
<1>1. KnowInv'
  BY RouteKnow DEF OrderInv
<1>2. UNCHANGED <<paths, masters, dest, net, syncing, remasters, postponed, leaving>>
  BY DEF Append, queues, loop
<1>3. QED
  BY <1>1, <1>2 DEF OrderInv, RequestsAreWanted, RequestsOf, Wanted, Contested, OldMasterRemasters,
       OthersComeLater, OldMasterKnows, OldMasterIsToldFirst, Told

LEMMA RemasterOrder ==
  ASSUME OrderInv, NEW msg \in net, Remaster(msg)
  PROVE  OrderInv'
<1> USE DEF OrderInv
<1> DEFINE m == msg.to  req == msg.request
<1>n. [Next]_vars
  BY DEF Next, Receive
<1>0. TypeOK /\ m \in Machine /\ req \in Request /\ DOMAIN syncing = Machine
  BY OrderTypes DEF TypeOK
<1>1. /\ msg.kind = "REMASTER"
      /\ net' = (net \ {msg}) \cup Send("SYNC", m, Peers(m), req)
      /\ syncing' = [syncing EXCEPT ![m] = [q \in DOMAIN syncing[m] \cup {req} |->
           IF q = req THEN Peers(m) ELSE syncing[m][q]]]
      /\ UNCHANGED <<masters, dest, remasters, postponed, epoch, leaving>>
  BY DEF Remaster, routing, queues, loop
<1>2. \A new \in net' \ net : new.kind = "SYNC" /\ new.request = req /\ ReplicaOf[new.to] = ReplicaOf[m]
  <2>1. Peers(m) \in SUBSET Machine /\ \A n \in Peers(m) : ReplicaOf[n] = ReplicaOf[m]
    BY DEF Peers
  <2>2. QED BY <1>0, <1>1, <2>1, SendType
<1>3. /\ DOMAIN syncing'[m] = DOMAIN syncing[m] \cup {req}
      /\ \A n \in Machine \ {m} : syncing'[n] = syncing[n]
  BY <1>0, <1>1
<1>4. \A n, p : Told(n, p)' <=> Told(n, p)
  BY <1>1 DEF Told
<1>5. KnowInv'
  BY RemasterKnow
<1>6. RequestsAreWanted' /\ \A p : Contested(p)' <=> Contested(p)
  <2>1. Wanted(req)
    BY DEF RequestsAreWanted
  <2>2. \A n \in Machine : RequestsOf(n)' \subseteq RequestsOf(n) \cup {req}
    BY <1>1, <1>3 DEF RequestsOf
  <2>3. \A n \in Machine : \A q \in RequestsOf(n)' : Wanted(q)
    BY <2>1, <2>2 DEF RequestsAreWanted
  <2>4. \A n \in Machine : \A p \in DOMAIN masters'[n] : Wanted([path |-> p, master |-> masters'[n][p]])
    BY <1>1 DEF RequestsAreWanted
  <2>5. QED BY <1>n, <1>0, <1>1, <1>2, <2>1, <2>3, <2>4, WantedStep
<1>7. OldMasterRemasters'
  <2>1. Contested(req.path) \/ ReplicaOf[m] = Default[req.path]
    BY <1>1 DEF OldMasterRemasters
  <2>2. \A x \in net' : x.kind \in {"REMASTER", "SYNC"} =>
          Contested(x.request.path) \/ ReplicaOf[x.to] = Default[x.request.path]
    BY <1>1, <1>2, <2>1 DEF OldMasterRemasters
  <2>3. \A n \in Machine : \A q \in DOMAIN syncing'[n] : Contested(q.path) \/ ReplicaOf[n] = Default[q.path]
    BY <1>3, <2>1 DEF OldMasterRemasters
  <2>4. QED BY <1>6, <2>2, <2>3 DEF OldMasterRemasters
<1>8. OthersComeLater'
  BY <1>1, <1>2, <1>4, <1>6 DEF OthersComeLater, OldMasterKnows
<1>9. OldMasterIsToldFirst'
  BY <1>4, <1>n, NobodyNewTold
<1>10. QED BY <1>5, <1>6, <1>7, <1>8, <1>9

LEMMA SyncOrder ==
  ASSUME OrderInv, NEW msg \in net, RemasterSync(msg)
  PROVE  OrderInv'
<1> USE DEF OrderInv
<1> DEFINE m == msg.from  k == msg.to  req == msg.request
<1>n. [Next]_vars
  BY DEF Next, Receive
<1>0. TypeOK /\ m \in Machine /\ k \in Machine /\ req \in Request /\ DOMAIN syncing = Machine
  BY OrderTypes DEF TypeOK
<1>1. /\ msg.kind = "SYNC"
      /\ net' = net \ {msg}
      /\ syncing' = [syncing EXCEPT ![m][req] = syncing[m][req] \ {k}]
      /\ remasters' = [remasters EXCEPT ![k] = remasters[k] \cup {req}]
      /\ UNCHANGED <<masters, dest, postponed, epoch, leaving>>
  BY DEF RemasterSync, Answered, Push, routing, loop
<1>2. \A n \in Machine : DOMAIN syncing'[n] = DOMAIN syncing[n]
  BY <1>0, <1>1
<1>3. /\ remasters'[k] = remasters[k] \cup {req}
      /\ \A n \in Machine \ {k} : remasters'[n] = remasters[n]
  BY <1>0, <1>1 DEF TypeOK
<1>4. KnowInv'
  BY SyncKnow
<1>5. RequestsAreWanted' /\ \A p : Contested(p)' <=> Contested(p)
  <2>1. \A n \in Machine : \A q \in RequestsOf(n)' : Wanted(q)
    BY <1>1, <1>2, <1>3 DEF RequestsOf, RequestsAreWanted
  <2>2. \A n \in Machine : \A p \in DOMAIN masters'[n] : Wanted([path |-> p, master |-> masters'[n][p]])
    BY <1>1 DEF RequestsAreWanted
  <2>3. QED BY <1>n, <1>1, <2>1, <2>2, WantedStep
<1>6. OldMasterRemasters'
  BY <1>1, <1>2, <1>5 DEF OldMasterRemasters
<1>7. OthersComeLater'
  BY <1>1, <1>n, KnowsStays, OrderTypes DEF OthersComeLater, RequestsOf
<1>8. OldMasterIsToldFirst'
  <2>1. ASSUME NEW n \in Machine, NEW p \in Path, Told(n, p)', ~ Told(n, p)
        PROVE  ReplicaOf[n] = Default[p] \/ OldMasterKnows(p)
    <3>1. n = k /\ p = req.path
      BY <2>1, <1>1, <1>3 DEF Told
    <3>2. QED BY <1>1, <3>1 DEF OldMasterRemasters, OldMasterKnows
  <2>2. QED BY <2>1, <1>n, NobodyNewTold
<1>9. QED BY <1>4, <1>5, <1>6, <1>7, <1>8

\* The end of REMASTER: if the path is not contested, this replica is its
\* first master, all of whose machines have been told.
LEMMA FollowsOrder ==
  ASSUME OrderInv, NEW m \in Machine, NEW req \in Request, SendRemasterFollows(m, req)
  PROVE  OrderInv'
<1> USE DEF OrderInv
<1>n. [Next]_vars
  BY DEF Next
<1>0. TypeOK /\ DOMAIN syncing = Machine /\ req.path \in Path
  BY OrderTypes DEF TypeOK, Request
<1>1. /\ req \in DOMAIN syncing[m]
      /\ syncing' = [syncing EXCEPT ![m] = [q \in DOMAIN syncing[m] \ {req} |-> syncing[m][q]]]
      /\ remasters' = [remasters EXCEPT ![m] = remasters[m] \cup {req}]
      /\ UNCHANGED <<masters, dest, postponed, epoch, leaving>>
  BY DEF SendRemasterFollows, Push, routing, loop
<1>2. \A new \in net' \ net : new.kind = "FOLLOW" /\ new.request = req
  <2>1. PICK told \in [Replica \ {ReplicaOf[m]} -> Machine] :
          net' = net \cup Send("FOLLOW", m, {told[r] : r \in DOMAIN told}, req)
    BY DEF SendRemasterFollows
  <2>2. {told[r] : r \in DOMAIN told} \in SUBSET Machine
    OBVIOUS
  <2>3. QED BY <2>1, <2>2, SendType
<1>3. \A n \in Machine : DOMAIN syncing'[n] \subseteq DOMAIN syncing[n]
  BY <1>0, <1>1
<1>4. /\ remasters'[m] = remasters[m] \cup {req}
      /\ \A n \in Machine \ {m} : remasters'[n] = remasters[n]
  BY <1>0, <1>1 DEF TypeOK
<1>5. KnowInv' /\ \A n \in MachinesOf(ReplicaOf[m]) : Told(n, req.path)'
  BY FollowsKnow
<1>6. RequestsAreWanted' /\ \A p : Contested(p)' <=> Contested(p)
  <2>1. Wanted(req)
    BY <1>1 DEF RequestsAreWanted, RequestsOf
  <2>2. \A n \in Machine : RequestsOf(n)' \subseteq RequestsOf(n) \cup {req}
    BY <1>1, <1>3, <1>4 DEF RequestsOf
  <2>3. \A n \in Machine : \A q \in RequestsOf(n)' : Wanted(q)
    BY <2>1, <2>2 DEF RequestsAreWanted
  <2>4. \A n \in Machine : \A p \in DOMAIN masters'[n] : Wanted([path |-> p, master |-> masters'[n][p]])
    BY <1>1 DEF RequestsAreWanted
  <2>5. QED BY <1>n, <1>1, <1>2, <2>1, <2>3, <2>4, WantedStep
<1>7. Contested(req.path) \/ ReplicaOf[m] = Default[req.path]
  BY <1>1 DEF OldMasterRemasters
<1>8. OldMasterRemasters'
  BY <1>2, <1>3, <1>6 DEF OldMasterRemasters
<1>9. OldMasterKnows(req.path)'
  BY <1>5, <1>6, <1>7 DEF OldMasterKnows, MachinesOf
<1>10. OthersComeLater'
  <2>1. \A new \in net' : new.kind \in {"FOLLOW", "ASYNC"} => OldMasterKnows(new.request.path)'
    BY <1>2, <1>9, <1>n, KnowsStays, OrderTypes DEF OthersComeLater
  <2>2. \A n \in Machine : \A q \in postponed[n] : OldMasterKnows(q.path)'
    BY <1>n, KnowsStays, OrderTypes DEF OthersComeLater, RequestsOf
  <2>3. QED BY <1>1, <2>1, <2>2 DEF OthersComeLater
<1>11. OldMasterIsToldFirst'
  <2>1. ASSUME NEW n \in Machine, NEW p \in Path, Told(n, p)', ~ Told(n, p)
        PROVE  ReplicaOf[n] = Default[p] \/ OldMasterKnows(p)
    <3>1. n = m /\ p = req.path
      BY <2>1, <1>1, <1>4 DEF Told
    <3>2. QED BY <3>1, <1>7 DEF OldMasterKnows
  <2>2. QED BY <2>1, <1>n, NobodyNewTold
<1>12. QED BY <1>5, <1>6, <1>8, <1>10, <1>11

LEMMA FollowOrder ==
  ASSUME OrderInv, NEW msg \in net, RemasterFollow(msg)
  PROVE  OrderInv'
<1> USE DEF OrderInv
<1> DEFINE k == msg.to  req == msg.request
<1>n. [Next]_vars
  BY DEF Next, Receive
<1>0. TypeOK /\ k \in Machine /\ req \in Request
  BY OrderTypes
<1>1. /\ msg.kind \in {"FOLLOW", "ASYNC"}
      /\ postponed' = [postponed EXCEPT ![k] = postponed[k] \cup {req}]
      /\ UNCHANGED <<masters, dest, syncing, remasters, epoch, leaving>>
      /\ \/ net' = (net \ {msg}) \cup Send("ASYNC", k, Peers(k), req)
         \/ net' = net \ {msg}
  BY DEF RemasterFollow, Followers, Push, routing, loop
<1>2. \A new \in net' \ net : new.kind = "ASYNC" /\ new.request = req
  <2>1. Peers(k) \in SUBSET Machine
    BY DEF Peers
  <2>2. QED BY <1>0, <1>1, <2>1, SendType
<1>3. /\ postponed'[k] = postponed[k] \cup {req}
      /\ \A n \in Machine \ {k} : postponed'[n] = postponed[n]
  BY <1>0, <1>1 DEF TypeOK
<1>4. \A n, p : Told(n, p)' <=> Told(n, p)
  BY <1>1 DEF Told
<1>5. OldMasterKnows(req.path)
  BY <1>1 DEF OthersComeLater
<1>6. KnowInv'
  BY FollowKnow
<1>7. RequestsAreWanted' /\ \A p : Contested(p)' <=> Contested(p)
  <2>1. Wanted(req)
    BY DEF RequestsAreWanted
  <2>2. \A n \in Machine : RequestsOf(n)' \subseteq RequestsOf(n) \cup {req}
    BY <1>1, <1>3 DEF RequestsOf
  <2>3. \A n \in Machine : \A q \in RequestsOf(n)' : Wanted(q)
    BY <2>1, <2>2 DEF RequestsAreWanted
  <2>4. \A n \in Machine : \A p \in DOMAIN masters'[n] : Wanted([path |-> p, master |-> masters'[n][p]])
    BY <1>1 DEF RequestsAreWanted
  <2>5. QED BY <1>n, <1>0, <1>1, <1>2, <2>1, <2>3, <2>4, WantedStep
<1>8. OldMasterRemasters'
  BY <1>1, <1>2, <1>7 DEF OldMasterRemasters
<1>9. OthersComeLater'
  <2>1. \A new \in net' : new.kind \in {"FOLLOW", "ASYNC"} => OldMasterKnows(new.request.path)
    BY <1>1, <1>2, <1>5 DEF OthersComeLater
  <2>2. \A n \in Machine : \A q \in postponed'[n] : OldMasterKnows(q.path)
    BY <1>3, <1>5 DEF OthersComeLater
  <2>3. QED BY <2>1, <2>2, <1>4, <1>7 DEF OthersComeLater, OldMasterKnows
<1>10. OldMasterIsToldFirst'
  BY <1>4, <1>n, NobodyNewTold
<1>11. QED BY <1>6, <1>7, <1>8, <1>9, <1>10

\* The epochs of the main loop move requests, and apply them.
LEMMA EpochOrder ==
  ASSUME OrderInv, NEW m \in Machine, BeginEpoch(m) \/ EndEpoch(m)
  PROVE  OrderInv'
<1> USE DEF OrderInv
<1>n. [Next]_vars
  BY DEF Next
<1>0. TypeOK
  BY OrderTypes
<1>1. UNCHANGED <<dest, net, syncing>>
  BY DEF BeginEpoch, EndEpoch
<1>2. /\ \A n \in Machine : RequestsOf(n)' \subseteq RequestsOf(n)
      /\ \A n \in Machine : postponed'[n] \subseteq postponed[n]
  BY <1>0 DEF BeginEpoch, EndEpoch, RequestsOf, TypeOK
<1>3. KnowInv'
  BY BeginEpochKnow, EndEpochKnow
<1>4. ASSUME NEW n \in Machine, NEW p \in DOMAIN masters'[n]
      PROVE  Wanted([path |-> p, master |-> masters'[n][p]])
  <2>1. CASE masters'[n] = masters[n]
    BY <1>4, <2>1 DEF RequestsAreWanted
  <2>2. CASE n = m /\ EndEpoch(m)
    <3>1. PICK map \in ChangeReplicaForPaths(masters[m], leaving[m]) : masters' = [masters EXCEPT ![m] = map]
      BY <2>2 DEF EndEpoch
    <3>2. masters'[n] = map
      BY <1>0, <2>2, <3>1 DEF TypeOK
    <3>3. IF p \in DOMAIN masters[m] THEN map[p] = masters[m][p]
          ELSE [path |-> p, master |-> map[p]] \in leaving[m]
      BY <1>0, <1>4, <3>1, <3>2, ChangeType
    <3>4. QED BY <2>2, <3>2, <3>3 DEF RequestsAreWanted, RequestsOf
  <2>3. QED
    BY <1>0, <2>1, <2>2 DEF BeginEpoch, EndEpoch, TypeOK
<1>5. RequestsAreWanted' /\ \A p : Contested(p)' <=> Contested(p)
  <2>1. \A n \in Machine : \A q \in RequestsOf(n)' : Wanted(q)
    BY <1>2 DEF RequestsAreWanted
  <2>2. QED BY <1>n, <1>1, <1>4, <2>1, WantedStep
<1>6. OldMasterRemasters'
  BY <1>1, <1>5 DEF OldMasterRemasters
<1>7. OthersComeLater'
  BY <1>n, <1>1, <1>2, KnowsStays, OrderTypes DEF OthersComeLater, RequestsOf
<1>8. OldMasterIsToldFirst'
  <2>1. ASSUME NEW n \in Machine, NEW p \in Path, Told(n, p)', ~ Told(n, p)
        PROVE  OldMasterKnows(p)
    <3>1. CASE BeginEpoch(m)
      <4>1. /\ masters' = masters
            /\ remasters'[n] \cup leaving'[n] \subseteq remasters[n] \cup leaving[n]
        BY <1>0, <3>1 DEF BeginEpoch, TypeOK
      <4>2. QED BY <2>1, <4>1 DEF Told
    <3>2. CASE EndEpoch(m)
      BY <2>1, <3>2, EndEpochKnow DEF OthersComeLater
    <3>3. QED BY <3>1, <3>2
  <2>2. QED BY <2>1, <1>n, NobodyNewTold
<1>9. QED BY <1>3, <1>5, <1>6, <1>7, <1>8

LEMMA StepOrder == ASSUME OrderInv, [Next]_vars PROVE OrderInv'
<1>1. ASSUME NEW b \in Action, RouteAction(b) \/ Append(b) PROVE OrderInv'
  BY <1>1, RouteOrder, AppendOrder
<1>2. ASSUME NEW msg \in net, Receive(msg) PROVE OrderInv'
  BY <1>2, RemasterOrder, SyncOrder, FollowOrder DEF Receive
<1>3. ASSUME NEW m \in Machine, NEW req \in Request, SendRemasterFollows(m, req) PROVE OrderInv'
  BY <1>3, FollowsOrder
<1>4. ASSUME NEW m \in Machine, BeginEpoch(m) \/ EndEpoch(m) PROVE OrderInv'
  BY <1>4, EpochOrder
<1>5. CASE UNCHANGED vars
  <2>1. KnowInv'
    BY <1>5, StepKnow DEF OrderInv
  <2>2. UNCHANGED <<paths, masters, dest, net, syncing, remasters, postponed, leaving>>
    BY <1>5 DEF vars, routing, queues, loop
  <2>3. QED
    BY <2>1, <2>2 DEF OrderInv, RequestsAreWanted, RequestsOf, Wanted, Contested, OldMasterRemasters,
         OthersComeLater, OldMasterKnows, OldMasterIsToldFirst, Told
<1>6. QED BY <1>1, <1>2, <1>3, <1>4, <1>5 DEF Next

\* Until two actions ask for different masters of a path, no machine of another
\* replica learns that it has moved before all machines of its first master
\* know, for any actions and however many of them ask for the same master:
\* REMASTER in block_log.h waits for the answers to its REMASTER_SYNCs.
THEOREM OldMasterFirst == Spec => []OldMasterIsToldFirst
<1>1. OrderInv => OldMasterIsToldFirst
  BY DEF OrderInv
<1>2. QED BY <1>1, InitOrder, StepOrder, PTL DEF Spec
=============================================================================
