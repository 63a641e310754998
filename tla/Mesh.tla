-------------------------------- MODULE Mesh --------------------------------
(***************************************************************************)
(* The data plane for one key: the gateway's set, get and delete           *)
(* (internal/gateway, internal/failover), the storage nodes that serve     *)
(* them (internal/server, internal/cache), the asynchronous replication    *)
(* between those (internal/replication), the promotion of hot keys, and    *)
(* the synchronisation of a node that starts again (internal/rebalancing,  *)
(* cmd/node).                                                              *)
(*                                                                         *)
(* Keys do not interact, so one is enough; its ring targets are Primary,   *)
(* Replica and Third.  A value is the number of the operation that wrote   *)
(* it.  Items have no TTL here and the key is not a trip of the database.  *)
(*                                                                         *)
(* A call that the caller waits for is one step, from its request to the   *)
(* caller's reaction.  When it fails without the callee being down, the    *)
(* request stays in net: the callee may still execute it at any time.      *)
(* What a goroutine sends without anyone waiting is in net as well, and    *)
(* net keeps no order.                                                     *)
(***************************************************************************)
EXTENDS Naturals, FiniteSets

CONSTANTS
  Primary, Replica, Third,  \* GetNodes(key, 3)
  NoItem,                   \* the key is not in a node's cache
  None,                     \* no value
  MaxOps,                   \* bound: client operations in one behaviour
  Environments              \* the surroundings the mesh may run in

Nodes == {Primary, Replica, Third}
Owners == {Primary, Replica}
Ops   == 1 .. MaxOps
NodeState == {"ALIVE", "SUSPECTED", "FAILED"}
Item  == [value : Ops, version : Nat \ {0}, isReplica : BOOLEAN]

(***************************************************************************)
(* What clients, network and machines do in one behaviour.  No two         *)
(* properties need the same: one speaks of single crashes between paced    *)
(* writes, another of concurrent writes and late requests.                 *)
(***************************************************************************)
Environment ==
  [maxOps     : Nat,          \* bound: client operations
   kinds      : SUBSET {"set", "get", "delete"},
   pacing     : {"concurrent", "sequential", "settled"},
   timeouts   : BOOLEAN,      \* calls between live processes can fail
   hotReads   : BOOLEAN,      \* reads can find the key hot
   mayCrash   : SUBSET Nodes,
   maxCrashes : Nat,          \* bound: crashes
   oneAtATime : BOOLEAN]      \* a node crashes only while the others are well

ASSUME MeshAssumption ==
  /\ Primary # Replica /\ Third \notin {Primary, Replica}
  /\ MaxOps \in Nat
  /\ \A e \in Environments : e \in Environment /\ e.maxOps <= MaxOps
  /\ None \notin Ops /\ None \notin {"set", "get", "delete"}
  /\ NoItem \notin Item

VARIABLES
  env,       \* the environment of this behaviour
  status,    \* of each node: down, starting, syncing or ready
  item,      \* the key's entry in each node's cache
  view,      \* the states GetNodeState returns to the gateway (of owners)
  net,       \* requests that are under way with nobody waiting
  ops,       \* the gateway's handlers, one for each client operation
  syncFrom,  \* the peers a starting node still has to pull from
  dump,      \* the entry it has pulled and not yet applied
  crashes,   \* crashes so far
  settled    \* history: a value both owners held with nothing under way

nodeVars == <<status, syncFrom, dump, crashes>>
vars == <<env, item, view, net, ops, nodeVars, settled>>

(***************************************************************************)
(* What the gateway sees of the nodes is the abstract failure detector     *)
(* that HealthMonitor implements.  A node that is up is silent only when   *)
(* calls can time out.                                                     *)
(***************************************************************************)
Detector == INSTANCE FailureDetector WITH
  Nodes   <- Owners,
  state   <- view,
  forced  <- [n \in Owners |-> FALSE],
  watched <- Owners,
  ping    <- [n \in Owners |-> IF status[n] = "down" THEN {"miss"}
                               ELSE IF env.timeouts THEN {"hit", "miss"}
                               ELSE {"hit"}]

Up(n) == status[n] # "down"

\* Requests nobody waits for: late ones of the gateway and background calls.
Message ==
  [type : {"set"}, to : Owners, value : Ops, version : {0}, op : Ops] \cup
  [type : {"replicate"}, to : {Replica, Third}, value : Ops,
   version : Nat \ {0}, op : Ops] \cup
  [type : {"delete"}, to : Owners, value : {None}, version : {0}, op : Ops] \cup
  [type : {"replicateDelete"}, to : {Replica}, value : {None}, version : {0},
   op : Ops]

\* A handler: its operation, where it is, its answer, and, as history, what
\* held when it started: for a get the settled value, the last write and the
\* outages that were over, for a write that nothing was under way.  A get also
\* remembers the values the primary has had since.
Idle == [kind |-> None, pc |-> "idle", result |-> None, settled |-> None,
         after |-> None, calm |-> TRUE, outages |-> 0, seen |-> {}]

Init ==
  /\ env \in Environments
  /\ status = [n \in Nodes |-> "ready"]
  /\ item = [n \in Nodes |-> NoItem]
  /\ view = [n \in Owners |-> "ALIVE"]
  /\ net = {}
  /\ ops = [o \in Ops |-> Idle]
  /\ syncFrom = [n \in Nodes |-> {}]
  /\ dump = [n \in Nodes |-> NoItem]
  /\ crashes = 0
  /\ settled = None

ValueAt(n)  == IF item[n] = NoItem THEN None ELSE item[n].value
Active(o)   == ops[o].pc \in {"primary", "replica"}
Writing     == \E o \in Ops : Active(o) /\ ops[o].kind # "get"
Quiescent   == net = {} /\ ~Writing

\* Clients write at any time, when the last write was answered, or when it is
\* also replicated.
MayWrite ==
  /\ env.pacing # "concurrent" => ~Writing
  /\ env.pacing = "settled" => Quiescent

\* History: the last write, when it was answered and no other is under way.
Writes == {o \in Ops : ops[o].kind \in {"set", "delete"}}
LastWrite ==
  IF Writes = {} \/ Writing THEN None
  ELSE CHOOSE o \in Writes : \A p \in Writes : p <= o

(***************************************************************************)
(* The conditions under which the mesh is proof against crashes: one node  *)
(* at a time, writes that wait for the last one's replication, no late     *)
(* requests, no third copies.  And those under which it is a register:     *)
(* a primary that stays, no late requests, and writes in order or no       *)
(* deletes.  History is kept where a property needs it.                    *)
(***************************************************************************)
Sheltered ==
  env.oneAtATime /\ env.pacing = "settled" /\ ~env.timeouts /\ ~env.hotReads

StablePrimary == Primary \notin env.mayCrash
Ordered == StablePrimary /\ ~env.timeouts /\ env.pacing # "concurrent"
Atomic  == StablePrimary /\ ~env.timeouts /\ "delete" \notin env.kinds

\* The handler answers; what a get remembered is not needed any more.
Done(o, r) == [Idle EXCEPT !.kind = ops[o].kind, !.pc = "done",
                           !.result = r, !.calm = ops[o].calm]

Finish(o, r) ==
  ops' = [ops EXCEPT ![o] = Done(o, r)]

\* It answers a set, and gets under way take note of the primary's new value.
FinishSet(o) ==
  ops' = [p \in Ops |-> IF p = o THEN Done(o, "stored")
                        ELSE IF Atomic /\ Active(p) /\ ops[p].kind = "get"
                        THEN [ops[p] EXCEPT !.seen = @ \cup {o}]
                        ELSE ops[p]]

GoTo(o, pc) == ops' = [ops EXCEPT ![o].pc = pc]

-----------------------------------------------------------------------------
(* A node's cache, and what its handlers make of a request. *)

\* Variant of SetWithMetadata: the existing entry's version is not looked up.
SetWithFirstVersion(n, value, version, isReplica) ==
  [value     |-> value,
   version   |-> IF version # 0 THEN version ELSE 1,
   isReplica |-> isReplica]

\* The entry SetWithMetadata stores: version 0 asks for the next one, any
\* other is taken as it comes.
SetWithMetadata(n, value, version, isReplica) ==
  [value     |-> value,
   version   |-> IF version # 0 THEN version
                 ELSE IF item[n] = NoItem THEN 1 ELSE item[n].version + 1,
   isReplica |-> isReplica]

ReplicateSet(to, entry, o) ==
  [type |-> "replicate", to |-> to, value |-> entry.value,
   version |-> entry.version, op |-> o]

\* Variant of ReplicateDelete: the request has no destination.
ReplicateDeleteNowhere(o) ==
  [type |-> "replicateDelete", to |-> None, value |-> None, version |-> 0,
   op |-> o]

ReplicateDelete(o) ==
  [type |-> "replicateDelete", to |-> Replica, value |-> None, version |-> 0,
   op |-> o]

\* POST /set: store under the next version, then replicate in the background
\* unless this node is the replica.  others is what else becomes of net.
handleSet(n, value, o, others) ==
  LET entry == SetWithMetadata(n, value, 0, FALSE)
  IN  /\ item' = [item EXCEPT ![n] = entry]
      /\ net' = IF n = Replica THEN others
                ELSE others \cup {ReplicateSet(Replica, entry, o)}

\* Variant of handleDelete: the delete is not passed on.
handleDeleteLocally(n, o, others) ==
  /\ item' = [item EXCEPT ![n] = NoItem]
  /\ net' = others

\* DELETE /delete: remove, then pass it on whether the key was there or not.
handleDelete(n, o, others) ==
  /\ item' = [item EXCEPT ![n] = NoItem]
  /\ net' = IF n = Replica THEN others ELSE others \cup {ReplicateDelete(o)}

\* GET /get of a key the node has; a hot one is copied to the third target.
handleGet(n, o) ==
  /\ Up(n) /\ item[n] # NoItem
  /\ \/ net' = net
     \/ env.hotReads /\ net' = net \cup {ReplicateSet(Third, item[n], o)}
  /\ UNCHANGED item

-----------------------------------------------------------------------------
(* The gateway's handlers. *)

\* A call that is waited for fails: nobody listens, or no answer comes in time.
CallFails(n, request) ==
  \/ ~Up(n) /\ net' = net
  \/ env.timeouts /\ Up(n) /\ net' = net \cup {request}

PostSet(n, o) ==
  [type |-> "set", to |-> n, value |-> o, version |-> 0, op |-> o]

PostDelete(n, o) ==
  [type |-> "delete", to |-> n, value |-> None, version |-> 0, op |-> o]

\* History: crashes of nodes that are well again.
Well(n) == status[n] = "ready" /\ (n \in Owners => view[n] = "ALIVE")
OutagesOver ==
  IF crashes = 0 \/ \A n \in Nodes : Well(n) THEN crashes ELSE crashes - 1

Unstarted(o) ==
  o <= env.maxOps /\ ops[o] = Idle /\ \A p \in 1 .. o - 1 : ops[p] # Idle

Begin(o, kind, pc) ==
  /\ kind \in env.kinds
  /\ Unstarted(o)
  /\ ops' = [ops EXCEPT ![o] =
       IF kind = "get"
       THEN [Idle EXCEPT !.kind = kind, !.pc = pc, !.settled = settled,
                         !.after = IF Ordered THEN LastWrite ELSE None,
                         !.outages = IF Sheltered THEN OutagesOver ELSE 0,
                         !.seen = IF Atomic THEN {ValueAt(Primary)} ELSE {}]
       ELSE [Idle EXCEPT !.kind = kind, !.pc = pc,
                         !.calm = Quiescent \/ env.timeouts]]
  /\ UNCHANGED <<env, item, view, net, nodeVars>>

\* handleAPISet goes straight to the replica of a primary known as FAILED.
BeginSet(o) ==
  /\ MayWrite
  /\ Begin(o, "set", IF view[Primary] = "FAILED" THEN "replica" ELSE "primary")
  /\ settled' = None

BeginDelete(o) ==
  /\ MayWrite
  /\ Begin(o, "delete", "primary")
  /\ settled' = None

\* Variant of BeginGet: the test of the primary's state is inverted.
BeginGetInverted(o) ==
  /\ Begin(o, "get", IF view[Primary] # "ALIVE" THEN "primary" ELSE "replica")
  /\ UNCHANGED settled

\* RouteGet asks a primary known as ALIVE first, else the replica at once.
BeginGet(o) ==
  /\ Begin(o, "get", IF view[Primary] = "ALIVE" THEN "primary" ELSE "replica")
  /\ UNCHANGED settled

\* handleAPISet, the primary answers: the client is told "stored", and the
\* gateway posts the write to the replica itself, too.
SetAtPrimary(o) ==
  /\ ops[o].kind = "set" /\ ops[o].pc = "primary"
  /\ Up(Primary)
  /\ handleSet(Primary, o, o, net \cup {PostSet(Replica, o)})
  /\ FinishSet(o)
  /\ UNCHANGED <<env, view, nodeVars, settled>>

SetAtPrimaryFails(o) ==
  /\ ops[o].kind = "set" /\ ops[o].pc = "primary"
  /\ CallFails(Primary, PostSet(Primary, o))
  /\ GoTo(o, "replica")
  /\ UNCHANGED <<env, item, view, nodeVars, settled>>

SetAtReplica(o) ==
  /\ ops[o].kind = "set" /\ ops[o].pc = "replica"
  /\ Up(Replica)
  /\ handleSet(Replica, o, o, net)
  /\ Finish(o, "stored")
  /\ UNCHANGED <<env, view, nodeVars, settled>>

SetAtReplicaFails(o) ==
  /\ ops[o].kind = "set" /\ ops[o].pc = "replica"
  /\ CallFails(Replica, PostSet(Replica, o))
  /\ Finish(o, "error")
  /\ UNCHANGED <<env, item, view, nodeVars, settled>>

\* handleAPIDelete answers "deleted" after the first node that answers, and
\* also when none does.
DeleteAtPrimary(o) ==
  /\ ops[o].kind = "delete" /\ ops[o].pc = "primary"
  /\ Up(Primary)
  /\ handleDelete(Primary, o, net)
  /\ Finish(o, "deleted")
  /\ UNCHANGED <<env, view, nodeVars, settled>>

DeleteAtPrimaryFails(o) ==
  /\ ops[o].kind = "delete" /\ ops[o].pc = "primary"
  /\ CallFails(Primary, PostDelete(Primary, o))
  /\ GoTo(o, "replica")
  /\ UNCHANGED <<env, item, view, nodeVars, settled>>

DeleteAtReplica(o) ==
  /\ ops[o].kind = "delete" /\ ops[o].pc = "replica"
  /\ \/ Up(Replica) /\ handleDelete(Replica, o, net)
     \/ CallFails(Replica, PostDelete(Replica, o)) /\ UNCHANGED item
  /\ Finish(o, "deleted")
  /\ UNCHANGED <<env, view, nodeVars, settled>>

\* RouteGet: a hit at the primary is the answer ...
GetAtPrimary(o) ==
  /\ ops[o].kind = "get" /\ ops[o].pc = "primary"
  /\ handleGet(Primary, o)
  /\ Finish(o, item[Primary].value)
  /\ UNCHANGED <<env, view, nodeVars, settled>>

\* Variant of GetAtPrimaryFails: a miss of a live primary is the answer.
GetAtPrimaryMisses(o) ==
  /\ ops[o].kind = "get" /\ ops[o].pc = "primary"
  /\ Up(Primary) => item[Primary] = NoItem \/ env.timeouts
  /\ IF Up(Primary) THEN Finish(o, None) ELSE GoTo(o, "replica")
  /\ UNCHANGED <<env, item, view, net, nodeVars, settled>>

\* ... a miss is treated like a failed call: the replica is asked ...
GetAtPrimaryFails(o) ==
  /\ ops[o].kind = "get" /\ ops[o].pc = "primary"
  /\ Up(Primary) => item[Primary] = NoItem \/ env.timeouts
  /\ GoTo(o, "replica")
  /\ UNCHANGED <<env, item, view, net, nodeVars, settled>>

\* ... unless it is known as FAILED.
GetAtReplica(o) ==
  /\ ops[o].kind = "get" /\ ops[o].pc = "replica"
  /\ view[Replica] # "FAILED"
  /\ handleGet(Replica, o)
  /\ Finish(o, item[Replica].value)
  /\ UNCHANGED <<env, view, nodeVars, settled>>

GetMisses(o) ==
  /\ ops[o].kind = "get" /\ ops[o].pc = "replica"
  /\ view[Replica] # "FAILED" /\ Up(Replica)
       => item[Replica] = NoItem \/ env.timeouts
  /\ Finish(o, None)
  /\ UNCHANGED <<env, item, view, net, nodeVars, settled>>

-----------------------------------------------------------------------------
(* Requests nobody waits for. *)

\* handleInternalReplicate stores what it is sent, with the sender's version.
Deliver(m) ==
  /\ Up(m.to)
  /\ CASE m.type = "set"    -> handleSet(m.to, m.value, m.op, net \ {m})
       [] m.type = "delete" -> handleDelete(m.to, m.op, net \ {m})
       [] m.type = "replicate" ->
            /\ item' = [item EXCEPT ![m.to] =
                          SetWithMetadata(m.to, m.value, m.version, TRUE)]
            /\ net' = net \ {m}
       [] m.type = "replicateDelete" ->
            /\ item' = [item EXCEPT ![m.to] = NoItem]
            /\ net' = net \ {m}
  /\ UNCHANGED <<env, view, ops, nodeVars, settled>>

\* Nothing is sent again: an error of a background call is logged or ignored.
Lose(m) ==
  /\ env.timeouts \/ ~Up(m.to)
  /\ net' = net \ {m}
  /\ UNCHANGED <<env, item, view, ops, nodeVars, settled>>

-----------------------------------------------------------------------------
(* Nodes crash and start again; the gateway's monitor notices. *)

Crash(n) ==
  /\ n \in env.mayCrash /\ crashes < env.maxCrashes
  /\ Up(n)
  /\ env.oneAtATime => \A m \in Nodes \ {n} : Well(m)
  /\ crashes' = crashes + 1
  /\ status' = [status EXCEPT ![n] = "down"]
  /\ item' = [item EXCEPT ![n] = NoItem]
  /\ syncFrom' = [syncFrom EXCEPT ![n] = {}]
  /\ dump' = [dump EXCEPT ![n] = NoItem]
  /\ UNCHANGED <<env, view, net, ops, settled>>

\* The process serves requests from an empty cache at once.
Restart(n) ==
  /\ status[n] = "down"
  /\ status' = [status EXCEPT ![n] = "starting"]
  /\ UNCHANGED <<env, item, view, net, ops, syncFrom, dump, crashes, settled>>

\* A second later main looks once which peers are reachable.
CheckAllPeers(n) ==
  /\ status[n] = "starting"
  /\ \E reached \in SUBSET {m \in Nodes \ {n} : Up(m)} :
       /\ env.timeouts \/ reached = {m \in Nodes \ {n} : Up(m)}
       /\ syncFrom' = [syncFrom EXCEPT ![n] = reached]
  /\ status' = [status EXCEPT ![n] = "syncing"]
  /\ UNCHANGED <<env, item, view, net, ops, dump, crashes, settled>>

\* SyncFromPeer, first half: the peer's dump is on its way ...
SyncFetch(n, p) ==
  /\ p \in syncFrom[n] /\ dump[n] = NoItem
  /\ Up(p)
  /\ dump' = [dump EXCEPT ![n] = item[p]]
  /\ syncFrom' = [syncFrom EXCEPT ![n] = @ \ {p}]
  /\ UNCHANGED <<env, item, view, net, ops, status, crashes, settled>>

SyncFails(n, p) ==
  /\ p \in syncFrom[n] /\ dump[n] = NoItem
  /\ env.timeouts \/ ~Up(p)
  /\ syncFrom' = [syncFrom EXCEPT ![n] = @ \ {p}]
  /\ UNCHANGED <<env, item, view, net, ops, status, dump, crashes, settled>>

\* Variant of SyncApply: only the primary takes entries over.
SyncApplyPrimaryOnly(n) ==
  /\ dump[n] # NoItem
  /\ item' = IF n # Primary THEN item
             ELSE [item EXCEPT ![n] = SetWithMetadata(n, dump[n].value,
                                                      dump[n].version, FALSE)]
  /\ dump' = [dump EXCEPT ![n] = NoItem]
  /\ UNCHANGED <<env, view, net, ops, status, syncFrom, crashes, settled>>

\* ... second half: an owner of the key takes it over, whatever it has by now.
SyncApply(n) ==
  /\ dump[n] # NoItem
  /\ item' = IF n \notin Owners THEN item
             ELSE [item EXCEPT ![n] = SetWithMetadata(n, dump[n].value,
                                                      dump[n].version,
                                                      n = Replica)]
  /\ dump' = [dump EXCEPT ![n] = NoItem]
  /\ UNCHANGED <<env, view, net, ops, status, syncFrom, crashes, settled>>

SyncDone(n) ==
  /\ status[n] = "syncing" /\ syncFrom[n] = {} /\ dump[n] = NoItem
  /\ status' = [status EXCEPT ![n] = "ready"]
  /\ UNCHANGED <<env, item, view, net, ops, syncFrom, dump, crashes, settled>>

\* The gateway's monitor notices a silence, or an answer.
MonitorMisses(n) ==
  /\ UNCHANGED <<env, item, net, ops, nodeVars, settled>>
  /\ Detector!Miss(n)

MonitorHears(n) ==
  /\ UNCHANGED <<env, item, net, ops, nodeVars, settled>>
  /\ Detector!Hear(n)

\* History: both owners hold one value and nothing is under way.
Settle ==
  /\ Sheltered
  /\ Quiescent
  /\ \A n \in Nodes : Well(n)
  /\ \A n \in Owners : item[n] # NoItem
  /\ item[Primary].value = item[Replica].value
  /\ settled # item[Primary].value
  /\ settled' = item[Primary].value
  /\ UNCHANGED <<env, item, view, net, ops, nodeVars>>

-----------------------------------------------------------------------------
Handler(o) ==
  \/ SetAtPrimary(o) \/ SetAtPrimaryFails(o)
  \/ SetAtReplica(o) \/ SetAtReplicaFails(o)
  \/ DeleteAtPrimary(o) \/ DeleteAtPrimaryFails(o) \/ DeleteAtReplica(o)
  \/ GetAtPrimary(o) \/ GetAtPrimaryFails(o)
  \/ GetAtReplica(o) \/ GetMisses(o)

Sync(n) ==
  \/ CheckAllPeers(n)
  \/ \E p \in Nodes : SyncFetch(n, p) \/ SyncFails(n, p)
  \/ SyncApply(n)
  \/ SyncDone(n)

Next ==
  \/ \E o \in Ops : BeginSet(o) \/ BeginDelete(o) \/ BeginGet(o) \/ Handler(o)
  \/ \E m \in net : Deliver(m) \/ Lose(m)
  \/ \E n \in Nodes : Crash(n) \/ Restart(n) \/ Sync(n)
  \/ \E n \in Owners : MonitorMisses(n) \/ MonitorHears(n)
  \/ Settle

Spec == Init /\ [][Next]_vars

-----------------------------------------------------------------------------
(* Properties. *)

\* Answers of reads and of writes, and what a handler keeps.
Handlers(kinds, results) ==
  [kind : kinds, pc : {"idle", "primary", "replica", "done"},
   result : results, settled : Ops \cup {None}, after : Ops \cup {None},
   calm : BOOLEAN, outages : Nat, seen : SUBSET (Ops \cup {None})]

Reading == Handlers({"get"}, Ops \cup {None})
Changing == Handlers({None, "set", "delete"},
                     {None, "stored", "error", "deleted"})

\* Every variable has its type; a pull is in progress on syncing nodes only.
TypeOK ==
  /\ env \in Environments
  /\ status \in [Nodes -> {"down", "starting", "syncing", "ready"}]
  /\ item \in [Nodes -> Item \cup {NoItem}]
  /\ view \in [Owners -> NodeState]
  /\ net \subseteq Message
  /\ ops \in [Ops -> Reading \cup Changing]
  /\ syncFrom \in [Nodes -> SUBSET Nodes]
  /\ dump \in [Nodes -> Item \cup {NoItem}]
  /\ \A n \in Nodes : syncFrom[n] # {} \/ dump[n] # NoItem
                        => status[n] = "syncing"
  /\ crashes \in 0 .. env.maxCrashes
  /\ settled \in Ops \cup {None}

(***************************************************************************)
(* Replication converges: when nothing is under way, primary and replica   *)
(* hold the same value or both nothing.  The README promises it of every   *)
(* write, with versions that resolve conflicts.                            *)
(***************************************************************************)
Agreement == Quiescent => ValueAt(Primary) = ValueAt(Replica)

(***************************************************************************)
(* What does hold without crashes and lost calls: they agree as long as    *)
(* each write started when the last one was replicated, although the       *)
(* replica gets a write twice (from the primary and from the gateway, in   *)
(* either order, under different versions) and a delete once.              *)
(***************************************************************************)
CalmAgreement ==
  ~env.timeouts /\ crashes = 0 /\ (\A o \in Ops : ops[o].calm) => Agreement

(***************************************************************************)
(* While the primary stays and calls are answered, with deletes as well: a *)
(* read that starts after a write was answered, and ends before another    *)
(* one starts, returns that write.                                         *)
(***************************************************************************)
AckedWritesAreRead ==
  [][Ordered =>
     \A o \in Ops :
       LET w == ops[o].after
       IN  /\ ops[o].kind = "get" /\ Active(o) /\ ops'[o].pc = "done"
           /\ w # None /\ LastWrite = w
           /\ ops[w].result = "stored"
           => ops'[o].result = w]_vars

(***************************************************************************)
(* Without deletes the mesh is then a register also to clients that write  *)
(* and read concurrently, although reads fall through to a replica that is *)
(* behind, crashes, comes back empty and pulls from a stale third copy.    *)
(* The map shows the register nothing of other environments.               *)
(***************************************************************************)
Unseen == [kind |-> None, pc |-> "idle", result |-> None, seen |-> {}]

ShownCell  == IF Atomic THEN ValueAt(Primary) ELSE None
ShownCalls ==
  [o \in Ops |->
     IF ~Atomic THEN Unseen
     ELSE [kind   |-> ops[o].kind,
           pc     |-> IF Active(o) THEN "busy" ELSE ops[o].pc,
           result |-> ops[o].result,
           seen   |-> ops[o].seen]]

Cell == INSTANCE Register WITH cell <- ShownCell, call <- ShownCalls

ImplementsRegister == Cell!Spec

(***************************************************************************)
(* Monotonic versioning at one node: an entry is replaced by one with a    *)
(* higher version only.                                                    *)
(***************************************************************************)
VersionsIncrease(n) ==
  item[n] # NoItem /\ item'[n] # NoItem /\ item'[n] # item[n]
    => item'[n].version > item[n].version

\* It holds at a primary that does not crash: whatever replicas, syncs and
\* late requests do, only client writes change its entry.
PrimaryVersionsIncrease == [][StablePrimary => VersionsIncrease(Primary)]_vars

(***************************************************************************)
(* A value both owners held with nothing under way survives any number of  *)
(* crashes, one node at a time, until the next write: an owner that is up  *)
(* holds it, and no owner that is up holds another one.                    *)
(***************************************************************************)
SettledSurvives ==
  settled # None =>
    /\ \E n \in Owners : Up(n) /\ ValueAt(n) = settled
    /\ \A n \in Owners : ValueAt(n) \in {settled, None}

\* Failover hides those crashes: a read of a settled value never misses, not
\* even while an owner is down, not yet suspected, or up with an empty cache,
\* unless two outages fall into this one read.
SettledReads ==
  [][\A o \in Ops :
       /\ ops[o].kind = "get" /\ Active(o) /\ ops'[o].pc = "done"
       /\ ops[o].settled # None /\ ops[o].settled = settled
       /\ crashes <= ops[o].outages + 1
       => ops'[o].result = settled]_vars

\* When the start-up synchronisation is over it has brought a settled value
\* back to both owners.
RedundancyRestored ==
  settled # None /\ (\A n \in Nodes : status[n] = "ready")
    => \A n \in Owners : ValueAt(n) = settled

=============================================================================
