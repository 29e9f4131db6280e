------------------------------ MODULE Remaster ------------------------------
(***************************************************************************)
(* src_remaster: every path has a master replica, and a replica puts an    *)
(* action into its log only if it masters all of the action's paths.  A    *)
(* client sends an action to the master of its paths; if there are         *)
(* several, it chooses one and asks the others to give their paths away.   *)
(* Every machine has its own map of masters, which its block log changes   *)
(* between two batches.                                                    *)
(***************************************************************************)
EXTENDS Integers, FiniteSets

CONSTANTS
  Machine, Replica,
  ReplicaOf,   \* LookupReplica: the replica of a machine
  Path,
  Default,     \* the replica that masters a path that was never remastered
  Action,
  Client,      \* the machine an action comes from
  Workload     \* what the clients may want: the paths of every action (its read
               \* and write set), which actions are of type RENAME, and (a bound)
               \* how often an action may ask for remasterings

None == "none"

ASSUME RemasterAssumption ==
  /\ None \notin Replica
  /\ ReplicaOf \in [Machine -> Replica]
  /\ \A r \in Replica : \E m \in Machine : ReplicaOf[m] = r
  /\ Default \in [Path -> Replica]
  /\ Client \in [Action -> Machine]
  /\ Workload \subseteq [paths : [Action -> (SUBSET Path) \ {{}}], rename : SUBSET Action,
                        asks : [Action -> Nat]]

\* RemasterInput: the path and its new master (the old one is only logged).
Request == [path : Path, master : Replica]

Message == [kind : {"REMASTER", "SYNC", "FOLLOW", "ASYNC"},
            from : Machine, to : Machine, request : Request]

Peers(m) == {n \in Machine \ {m} : ReplicaOf[n] = ReplicaOf[m]}
MachinesOf(r) == {m \in Machine : ReplicaOf[m] = r}

VARIABLES
  paths,      \* action -> its paths
  rename,     \* the actions of type RENAME
  masters,    \* machine -> Masters(): what is known of remastered paths
  place,      \* action -> where it is, and on which machine
  dest,       \* action -> dest_replica
  asks,       \* action -> how many times it may still ask for remasterings
  origin,     \* action -> the replica that put it into a batch
  net,        \* messages that have not been handled
  syncing,    \* machine -> request -> machines whose answers a REMASTER waits for
  remasters,  \* machine -> remaster_queue_
  postponed,  \* machine -> remaster_postponed_
  epoch,      \* machine -> where its main loop is
  leaving     \* machine -> the requests of this epoch (dangerous_paths)

routing == <<place, dest, asks>>
queues  == <<remasters, postponed>>
loop    == <<epoch, leaving>>
wants   == <<paths, rename>>
vars == <<wants, masters, routing, origin, net, syncing, queues, loop>>

At(where, m) == [at |-> where, machine |-> m]

Init ==
  /\ \E w \in Workload : paths = w.paths /\ rename = w.rename /\ asks = w.asks
  /\ masters = [m \in Machine |-> [p \in {} |-> None]]
  /\ place = [a \in Action |-> At("client", Client[a])]
  /\ dest = [a \in Action |-> None]
  /\ origin = [a \in Action |-> None]
  /\ net = {}
  /\ syncing = [m \in Machine |-> [req \in {} |-> {}]]
  /\ remasters = [m \in Machine |-> {}]
  /\ postponed = [m \in Machine |-> {}]
  /\ epoch = [m \in Machine |-> "asleep"]
  /\ leaving = [m \in Machine |-> {}]

\* LookupReplicaByDir.
LookupReplicaByDir(m, p) == IF p \in DOMAIN masters[m] THEN masters[m][p] ELSE Default[p]

\* LookupInvolvedReplicas.
InvolvedReplicas(m, a) == {LookupReplicaByDir(m, p) : p \in paths[a]}

----------------------------------------------------------------------------
(***************************************************************************)
(* The client's side: GetMachineForReplica, and the action sent.           *)
(***************************************************************************)
\* dest_replica, or any of the masters if there is no dest_replica yet.
Destinations(m, a) == IF dest[a] # None THEN {dest[a]} ELSE InvolvedReplicas(m, a)

\* One REMASTER to some machine of the old master for each path to be moved.
Remasterings(m, a, r) ==
  LET moved == {p \in paths[a] : LookupReplicaByDir(m, p) # r}
      sendsTo == [moved -> Machine]
  IN {{[kind |-> "REMASTER", from |-> m, to |-> f[p], request |-> [path |-> p, master |-> r]] : p \in moved} :
        f \in {g \in sendsTo : \A p \in moved : ReplicaOf[g[p]] = LookupReplicaByDir(m, p)}}

\* This machine if it belongs to the master, otherwise any machine that does.
MachineFor(m, r) == IF ReplicaOf[m] = r THEN {m} ELSE MachinesOf(r)

RouteAction(a) ==
  LET m == place[a].machine
  IN /\ place[a].at = "client"
     /\ \/ \E r \in InvolvedReplicas(m, a) :
             /\ InvolvedReplicas(m, a) = {r}
             /\ \E n \in MachineFor(m, r) : place' = [place EXCEPT ![a] = At("sent", n)]
             /\ UNCHANGED <<dest, asks, net>>
        \/ /\ Cardinality(InvolvedReplicas(m, a)) > 1
           /\ \E r \in Destinations(m, a) :
                /\ dest' = [dest EXCEPT ![a] = r]
                /\ IF asks[a] > 0
                   THEN /\ asks' = [asks EXCEPT ![a] = @ - 1]
                        /\ \E sent \in Remasterings(m, a, r) : net' = net \cup sent
                   ELSE UNCHANGED <<asks, net>>
                /\ \E n \in MachineFor(m, r) : place' = [place EXCEPT ![a] = At("sent", n)]
     /\ UNCHANGED <<wants, masters, origin, syncing, queues, loop>>

----------------------------------------------------------------------------
(***************************************************************************)
(* The block log's APPEND.                                                 *)
(***************************************************************************)
\* A RENAME is answered at once, which reaches nobody because the client's
\* message names no channel, and is forgotten.
Append(a) ==
  /\ place[a].at = "sent"
  /\ place' = [place EXCEPT ![a].at = IF a \in rename THEN "forgotten" ELSE "queued"]
  /\ UNCHANGED <<wants, masters, dest, asks, origin, net, syncing, queues, loop>>

Send(kind, m, tos, req) ==
  {[kind |-> kind, from |-> m, to |-> n, request |-> req] : n \in tos}

Push(queue, m, req) == [queue EXCEPT ![m] = @ \cup {req}]

\* REMASTER: ask the other machines of the replica, and wait.
Remaster(msg) ==
  LET m == msg.to
  IN /\ msg \in net
     /\ msg.kind = "REMASTER"
     /\ msg.request \notin DOMAIN syncing[m]
     /\ net' = (net \ {msg}) \cup Send("SYNC", m, Peers(m), msg.request)
     /\ syncing' = [syncing EXCEPT ![m] = [req \in DOMAIN @ \cup {msg.request} |->
          IF req = msg.request THEN Peers(m) ELSE @[req]]]
     /\ UNCHANGED <<wants, masters, routing, origin, queues, loop>>

\* (Mutant of Answered: REMASTER_SYNC has no answer.)
NotAnswered(msg) == syncing

Answered(msg) == [syncing EXCEPT ![msg.from][msg.request] = @ \ {msg.to}]

\* REMASTER_SYNC, and its answer: the sender counts it.
RemasterSync(msg) ==
  /\ msg \in net
  /\ msg.kind = "SYNC"
  /\ remasters' = Push(remasters, msg.to, msg.request)
  /\ net' = net \ {msg}
  /\ syncing' = Answered(msg)
  /\ UNCHANGED <<wants, masters, routing, origin, postponed, loop>>

\* (Mutant of AllSynced: REMASTER does not wait for the answers.)
NoWait(m, req) == TRUE

AllSynced(m, req) == syncing[m][req] = {}

\* The rest of REMASTER: one machine of each other replica is told, then the
\* machine queues the request for itself.
SendRemasterFollows(m, req) ==
  /\ req \in DOMAIN syncing[m]
  /\ AllSynced(m, req)
  /\ \E told \in [Replica \ {ReplicaOf[m]} -> Machine] :
       /\ \A r \in DOMAIN told : ReplicaOf[told[r]] = r
       /\ net' = net \cup Send("FOLLOW", m, {told[r] : r \in DOMAIN told}, req)
  /\ syncing' = [syncing EXCEPT ![m] = [q \in DOMAIN @ \ {req} |-> @[q]]]
  /\ remasters' = Push(remasters, m, req)
  /\ UNCHANGED <<wants, masters, routing, origin, postponed, loop>>

\* REMASTER_FOLLOW tells the other machines of its replica and goes on as
\* REMASTER_ASYNC.
\* (Mutant of Followers: the machine keeps it to itself.)
NoFollowers(m) == {}

Followers(m) == Peers(m)

RemasterFollow(msg) ==
  /\ msg \in net
  /\ msg.kind \in {"FOLLOW", "ASYNC"}
  /\ net' = (net \ {msg}) \cup
       (IF msg.kind = "FOLLOW" THEN Send("ASYNC", msg.to, Followers(msg.to), msg.request) ELSE {})
  /\ postponed' = Push(postponed, msg.to, msg.request)
  /\ UNCHANGED <<wants, masters, routing, origin, syncing, remasters, loop>>

Receive(msg) ==
  Remaster(msg) \/ RemasterSync(msg) \/ RemasterFollow(msg)

----------------------------------------------------------------------------
(***************************************************************************)
(* The main loop: once per epoch, count what is queued, make a batch and   *)
(* change the map.  The actions are counted before the remasterings; what  *)
(* arrives in between counts as not arrived yet.                           *)
(***************************************************************************)
Queued(m, where) == {a \in Action : place[a] = At(where, m)}

BeginEpoch(m) ==
  /\ epoch[m] = "asleep"
  /\ Queued(m, "queued") # {} \/ remasters[m] # {} \/ postponed[m] # {}
  /\ epoch' = [epoch EXCEPT ![m] = "awake"]
  /\ place' = [a \in Action |-> IF a \in Queued(m, "queued") THEN At("counted", m) ELSE place[a]]
  /\ leaving' = [leaving EXCEPT ![m] = remasters[m]]
  /\ remasters' = [remasters EXCEPT ![m] = {}]
  /\ UNCHANGED <<wants, masters, dest, asks, origin, net, syncing, postponed>>

ActionIsLocal(m, a) ==
  /\ InvolvedReplicas(m, a) = {ReplicaOf[m]}
  /\ \A req \in leaving[m] : req.path \notin paths[a]

\* AtomicMap::Put inserts: what the map says of the path already stays.  The
\* request queued last is the first applied; sets do not say which that is.
ChangeReplicaForPaths(map, requests) ==
  {f \in [DOMAIN map \cup {req.path : req \in requests} -> Replica] :
     \A p \in DOMAIN f :
       IF p \in DOMAIN map THEN f[p] = map[p] ELSE [path |-> p, master |-> f[p]] \in requests}

EndEpoch(m) ==
  LET local == {a \in Queued(m, "counted") : ActionIsLocal(m, a)}
  IN /\ epoch[m] = "awake"
     /\ origin' = [a \in Action |-> IF a \in local THEN ReplicaOf[m] ELSE origin[a]]
     /\ place' = [a \in Action |->
          IF a \notin Queued(m, "counted") THEN place[a]
          ELSE At(IF a \in local THEN "batched" ELSE "client", m)]
     /\ \E map \in ChangeReplicaForPaths(masters[m], leaving[m]) :
          masters' = [masters EXCEPT ![m] = map]
     /\ remasters' = [remasters EXCEPT ![m] = @ \cup postponed[m]]
     /\ postponed' = [postponed EXCEPT ![m] = {}]
     /\ epoch' = [epoch EXCEPT ![m] = "asleep"]
     /\ leaving' = [leaving EXCEPT ![m] = {}]
     /\ UNCHANGED <<wants, dest, asks, net, syncing>>

----------------------------------------------------------------------------
Next ==
  \/ \E a \in Action : RouteAction(a) \/ Append(a)
  \/ \E msg \in net : Receive(msg)
  \/ \E m \in Machine, req \in Request : SendRemasterFollows(m, req)
  \/ \E m \in Machine : BeginEpoch(m) \/ EndEpoch(m)

Spec == Init /\ [][Next]_vars

\* Messages are delivered and handled, epochs pass, clients send actions on.
Fairness ==
  /\ \A a \in Action : WF_vars(RouteAction(a) \/ Append(a))
  /\ \A m \in Machine :
       /\ WF_vars(\E msg \in net : msg.to = m /\ Receive(msg))
       /\ WF_vars(\E req \in Request : SendRemasterFollows(m, req))
       /\ WF_vars(BeginEpoch(m) \/ EndEpoch(m))

FairSpec == Spec /\ Fairness

----------------------------------------------------------------------------
PlaceRecord == [at : {"client", "sent", "queued", "counted", "batched", "forgotten"}, machine : Machine]

TypeOK ==
  /\ paths \in [Action -> (SUBSET Path) \ {{}}]
  /\ rename \subseteq Action
  /\ DOMAIN masters = Machine
  /\ \A m \in Machine : masters[m] \in [DOMAIN masters[m] -> Replica]
  /\ \A m \in Machine : DOMAIN masters[m] \subseteq Path
  /\ place \in [Action -> PlaceRecord]
  /\ dest \in [Action -> Replica \cup {None}]
  /\ asks \in [Action -> Nat]
  /\ origin \in [Action -> Replica \cup {None}]
  /\ net \subseteq Message
  /\ DOMAIN syncing = Machine
  /\ \A m \in Machine : syncing[m] \in [DOMAIN syncing[m] -> SUBSET Machine]
  /\ \A m \in Machine : DOMAIN syncing[m] \subseteq Request
  /\ remasters \in [Machine -> SUBSET Request]
  /\ postponed \in [Machine -> SUBSET Request]
  /\ epoch \in [Machine -> {"asleep", "awake"}]
  /\ leaving \in [Machine -> SUBSET Request]

\* An action is in a batch exactly when it has an origin, and it is in the
\* batch of a machine of that replica.
BatchedWhereItStarted ==
  \A a \in Action :
    origin[a] = IF place[a].at = "batched" THEN ReplicaOf[place[a].machine] ELSE None

\* A machine expects an answer exactly from the machines that it asked and
\* that have not queued the request.
Expects(m, n, req) == req \in DOMAIN syncing[m] /\ n \in syncing[m][req]

AnswersAreOwed ==
  \A m, n \in Machine, req \in Request :
    Expects(m, n, req) <=> [kind |-> "SYNC", from |-> m, to |-> n, request |-> req] \in net

\* Types, batches and their origins, and the answers a REMASTER waits for.
Consistent == TypeOK /\ BatchedWhereItStarted /\ AnswersAreOwed

\* A machine has been told that a path has a new master: the request is in its
\* queue, in the epoch it is in, or in its map.
Told(n, p) ==
  \/ p \in DOMAIN masters[n]
  \/ \E req \in remasters[n] \cup leaving[n] : req.path = p

\* Two actions on p ask for different masters of it.
Contested(p) ==
  \E a, b \in Action :
    /\ p \in paths[a] \cap paths[b]
    /\ None \notin {dest[a], dest[b]}
    /\ dest[a] # dest[b]

\* Before any machine of another replica is told that a path has a new
\* master, every machine of the old one is: REMASTER waits for the answers to
\* REMASTER_SYNC before it tells the others.  This holds for a path until two
\* actions ask for different masters of it, however many ask for the same.
OldMasterIsToldFirst ==
  \A p \in Path :
    ~ Contested(p) /\ (\E n \in Machine : ReplicaOf[n] # Default[p] /\ Told(n, p))
      => \A m \in MachinesOf(Default[p]) : Told(m, p)

\* Every machine of some replica has been told that p has a new master.
KnownInAReplica(p) == \E r \in Replica : \A m \in MachinesOf(r) : Told(m, p)

OnlyPeersKnow(p) ==
  /\ \A msg \in net : msg.kind \in {"FOLLOW", "ASYNC"} => msg.request.path # p
  /\ \A m \in Machine : \A req \in postponed[m] : req.path # p
  /\ \A n \in Machine : Told(n, p) =>
       \E m \in MachinesOf(ReplicaOf[n]) : \E req \in DOMAIN syncing[m] : req.path = p

\* What is left when actions ask for different masters of a path, so that a
\* second REMASTER goes to the new master while the first is on its way: until
\* every machine of some replica has been told, nobody is told by another
\* replica (REMASTER_FOLLOW), and a machine that has been told is a machine of
\* a replica where a REMASTER of the path still waits for answers.
OneReplicaIsToldFirst == \A p \in Path : KnownInAReplica(p) \/ OnlyPeersKnow(p)

\* In the end every action is in a log, however often it was sent to and fro
\* between replicas that disagreed on who masters its paths, and all machines
\* agree on the masters, though the map of each is changed by a chain of
\* messages of its own; unless two actions ask for different masters of one
\* path, which the machines may disagree on for ever.  (A RENAME is forgotten.)
Settled ==
  /\ \A a \in Action \ rename : origin[a] # None
  /\ \A p \in Path, m, n \in Machine : LookupReplicaByDir(m, p) = LookupReplicaByDir(n, p)

Settles == <>[](Settled \/ \E p \in Path : Contested(p))
=============================================================================
