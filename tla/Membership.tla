----------------------------- MODULE Membership -----------------------------
(***************************************************************************)
(* How a node joins the mesh and how one comes back: the rings that the    *)
(* gateway and every node keep for themselves (gateway.New, server.New),   *)
(* the migration of keys to a new node (POST /internal/rebalance, POST     *)
(* /internal/sync/bulk), the discovery of peers (GET /internal/peers with  *)
(* refresh) and the start-up synchronisation, for several keys.            *)
(*                                                                         *)
(* A ring is the set of names on it: node ids, or bare addresses for peers *)
(* that were configured without an id.  HashRing shows that lookups depend *)
(* on that set alone, in an order of names that is fixed for each key.     *)
(* A value is the number of its write.  Versions are left out: no receiver *)
(* compares them.                                                          *)
(*                                                                         *)
(* Clients write when the last write is replicated, and the gateway's      *)
(* monitor is right about who is up; Mesh deals with the rest.             *)
(***************************************************************************)
EXTENDS Naturals, FiniteSets

CONSTANTS
  Members,       \* the nodes of the original deployment
  Joiner,        \* the node that is added
  AddrOf,        \* the address of each node
  Keys,
  Environments,  \* what is chosen at the start, see Environment
  MaxWrites      \* bound: client writes in one behaviour

Servers == Members \cup {Joiner}
Names   == Servers \cup {AddrOf[n] : n \in Servers}
Writes  == 1 .. MaxWrites
Absent  == 0

(***************************************************************************)
(* A deployment: the order of names that the hash function gives each key, *)
(* as ranks, whether peers are configured as id=addr, and bounds on what   *)
(* clients, failures and operators do.                                     *)
(***************************************************************************)
Environment ==
  [order : [Keys -> [Names -> Nat]], named : BOOLEAN,
   writes : 0 .. MaxWrites, crashes : Nat, refreshes : Nat, faults : Nat]

ASSUME MembershipAssumption ==
  /\ Joiner \notin Members
  /\ \E m, n \in Members : m # n
  /\ DOMAIN AddrOf = Servers
  /\ \A n \in Servers : AddrOf[n] \notin Servers
  /\ \A m, n \in Servers : AddrOf[m] = AddrOf[n] => m = n
  /\ MaxWrites \in Nat
  /\ Environments \subseteq Environment
  /\ \A e \in Environments, k \in Keys : \A m, n \in Names :
       e.order[k][m] = e.order[k][n] => m = n

VARIABLES
  env,        \* the deployment
  ring,       \* the names on each node's ring
  gateway,    \* the ids on the gateway's ring
  cache,      \* the value of each key at each node
  status,     \* of each node: down, starting, syncing or ready
  syncFrom,   \* the peers a starting node still has to pull from
  net,        \* requests under way with nobody waiting
  transfer,   \* the batch a rebalancing node is about to send
  reported,   \* members whose rebalancing was reported COMPLETED
  latest,     \* history: the last write of each key
  writes,     \* client writes so far
  crashes,    \* crashes so far
  refreshes,  \* refreshes of the peers so far
  begun,      \* history: the migration has begun
  hasty,      \* history: a member was rebalanced before it was ready
  missed,     \* history: nodes and the keys they missed in a pull that failed,
              \* the new node from the beginning of the migration on
  refused,    \* history: keys of batches that were answered and not ingested
  safe        \* history: keys whose latest write both owners held before the
              \* migration began or a node crashed

nodeVars   == <<status, syncFrom>>
joinVars   == <<transfer, reported, begun, hasty>>
clientVars == <<latest, writes>>
faultVars  == <<crashes, refreshes, missed, refused>>
vars == <<env, ring, gateway, cache, nodeVars, net, joinVars, clientVars,
          faultVars, safe>>

Up(n)  == status[n] # "down"

\* Variant of NodeAt: the name is taken for the node, not its address.
NodeCalled(name) == name

\* The node that answers at the address under which a name is on a ring.
NodeAt(name) == CHOOSE n \in Servers : name \in {n, AddrOf[n]}
NoTransfer == [k \in {} |-> Absent]

\* PEER_NODES lists the original members, each node itself included.
Peers       == Members
PeerName(n) == IF env.named THEN n ELSE AddrOf[n]

\* server.New: the node under its id, its peers as they are configured.
NewRing(n) == {n} \cup {PeerName(p) : p \in Peers}

\* hashRing.AddNode: a placeholder with the node's address goes.
AddNode(names, n) == (names \ {AddrOf[n]}) \cup {n}

\* The first two names for a key in a walk around the ring.
First(names, k) ==
  CHOOSE n \in names : \A m \in names : env.order[k][n] <= env.order[k][m]
GetNodes(names, k) ==
  <<First(names, k), First(names \ {First(names, k)}, k)>>

Init ==
  /\ env \in Environments
  /\ ring = [n \in Servers |-> NewRing(n)]
  /\ gateway = Members
  /\ cache = [n \in Servers |-> [k \in Keys |-> Absent]]
  /\ status = [n \in Servers |-> IF n = Joiner THEN "down" ELSE "ready"]
  /\ syncFrom = [n \in Servers |-> {}]
  /\ net = {}
  /\ transfer = [n \in Members |-> NoTransfer]
  /\ reported = {}
  /\ latest = [k \in Keys |-> Absent]
  /\ writes = 0
  /\ crashes = 0
  /\ refreshes = 0
  /\ begun = FALSE
  /\ hasty = FALSE
  /\ missed = {}
  /\ refused = {}
  /\ safe = {}

-----------------------------------------------------------------------------
(* Reads and writes. *)

PrimaryOf(k) == GetNodes(gateway, k)[1]
ReplicaOf(k) == GetNodes(gateway, k)[2]
Owners(k)    == {PrimaryOf(k), ReplicaOf(k)}

\* The keys whose latest write is on both owners, at a quiet moment.
Settled ==
  {k \in Keys : /\ net = {} /\ latest[k] # Absent
                /\ \A n \in Members : status[n] = "ready"
                /\ \A n \in Owners(k) : cache[n][k] = latest[k]}

Only(k, value) == [x \in {k} |-> value]
Request(type, to, items) == [type |-> type, to |-> to, items |-> items]

\* RouteGet: the primary's entry, or the replica's if there is none.
Read(k) ==
  LET at(n) == IF Up(n) THEN cache[n][k] ELSE Absent
  IN  IF at(PrimaryOf(k)) # Absent THEN at(PrimaryOf(k)) ELSE at(ReplicaOf(k))

\* POST /set at node n, which replicates to the second target of its own ring.
handleSet(n, k, value, others) ==
  LET second == GetNodes(ring[n], k)[2]
  IN  /\ cache' = [cache EXCEPT ![n][k] = value]
      /\ net' = others \cup
           IF second = n THEN {}
           ELSE {Request("replicate", NodeAt(second), Only(k, value))}

\* POST /api/set: to the primary, with a copy from the gateway to the replica;
\* or to the replica alone.
handleAPISet(k) ==
  LET w == writes + 1
      p == PrimaryOf(k)
      r == ReplicaOf(k)
  IN  /\ w <= env.writes
      /\ \A m \in net : m.type = "bulk"
      /\ \/ Up(p) /\ handleSet(p, k, w, net \cup {Request("set", r, Only(k, w))})
         \/ ~Up(p) /\ Up(r) /\ handleSet(r, k, w, net)
      /\ writes' = w
      /\ latest' = [latest EXCEPT ![k] = w]
      /\ safe' = safe \ {k}
      /\ UNCHANGED <<env, ring, gateway, nodeVars, joinVars, faultVars>>

\* SetWithMetadata for each entry, whatever the node has.
store(n, items) ==
  cache' = [cache EXCEPT ![n] =
              [k \in Keys |-> IF k \in DOMAIN items THEN items[k] ELSE @[k]]]

\* /set, /internal/replicate and /internal/sync/bulk at the receiver.
Deliver(m) ==
  /\ Up(m.to)
  /\ \/ /\ m.type = "set"
        /\ \E k \in DOMAIN m.items :
             handleSet(m.to, k, m.items[k], net \ {m})
     \/ /\ m.type \in {"replicate", "bulk"}
        /\ store(m.to, m.items)
        /\ net' = net \ {m}
  /\ UNCHANGED <<env, ring, gateway, nodeVars, joinVars, clientVars,
                 faultVars, safe>>

\* A background call to a node that is down is not repeated.
Lose(m) ==
  /\ ~Up(m.to)
  /\ net' = net \ {m}
  /\ UNCHANGED <<env, ring, gateway, cache, nodeVars, joinVars, clientVars,
                 faultVars, safe>>

-----------------------------------------------------------------------------
(* A node is added: POST /internal/rebalance on each member. *)

Holds(n) == {k \in Keys : cache[n][k] # Absent}

\* Variant of RebalanceForNewNode: what is moved is also deleted.
RebalanceAndDelete(n) ==
  LET newRing == AddNode(ring[n], Joiner)
      moved   == {k \in Holds(n) : GetNodes(newRing, k)[1] = Joiner}
  IN  /\ Up(n) /\ transfer[n] = NoTransfer /\ n \notin reported
      /\ Joiner \notin gateway
      /\ ring' = [ring EXCEPT ![n] = newRing]
      /\ transfer' = [transfer EXCEPT ![n] = [k \in moved |-> cache[n][k]]]
      /\ reported' = IF moved = {} THEN reported \cup {n} ELSE reported
      /\ cache' = [cache EXCEPT ![n] =
                     [k \in Keys |-> IF k \in moved THEN Absent ELSE @[k]]]
      /\ begun' = TRUE
      /\ hasty' = (hasty \/ status[n] # "ready")
      /\ safe' = IF begun THEN safe ELSE safe \cup Settled
      /\ UNCHANGED <<env, gateway, nodeVars, net, clientVars, faultVars>>

(***************************************************************************)
(* RebalanceForNewNode, first half: the new node enters this node's ring,  *)
(* for good, and the keys it is now primary of are collected.  Nothing is  *)
(* deleted.  Without such keys the report is written at once.              *)
(***************************************************************************)
RebalanceForNewNode(n) ==
  LET newRing == AddNode(ring[n], Joiner)
      moved   == {k \in Holds(n) : GetNodes(newRing, k)[1] = Joiner}
  IN  /\ Up(n) /\ transfer[n] = NoTransfer /\ n \notin reported
      /\ Joiner \notin gateway
      /\ ring' = [ring EXCEPT ![n] = newRing]
      /\ transfer' = [transfer EXCEPT ![n] = [k \in moved |-> cache[n][k]]]
      /\ reported' = IF moved = {} THEN reported \cup {n} ELSE reported
      /\ begun' = TRUE
      /\ hasty' = (hasty \/ status[n] # "ready")
      /\ safe' = IF begun THEN safe ELSE safe \cup Settled
      /\ UNCHANGED <<env, gateway, cache, nodeVars, net, clientVars,
                     faultVars>>

\* Second half: the batch is ingested and the report is written ...
BulkTransfer(n) ==
  /\ transfer[n] # NoTransfer
  /\ Up(Joiner)
  /\ store(Joiner, transfer[n])
  /\ transfer' = [transfer EXCEPT ![n] = NoTransfer]
  /\ reported' = reported \cup {n}
  /\ UNCHANGED <<env, ring, gateway, nodeVars, net, begun, hasty, clientVars,
                 faultVars, safe>>

\* Variant of BulkTransferFails: the error is only logged.
BulkTransferFailsUnnoticed(n) ==
  /\ transfer[n] # NoTransfer
  /\ net' = IF Up(Joiner)
            THEN net \cup {Request("bulk", Joiner, transfer[n])} ELSE net
  /\ transfer' = [transfer EXCEPT ![n] = NoTransfer]
  /\ reported' = reported \cup {n}
  /\ UNCHANGED <<env, ring, gateway, cache, nodeVars, begun, hasty,
                 clientVars, faultVars, safe>>

\* What env.faults bounds.
Faults == Cardinality(missed) + Cardinality(refused)

\* ... or any other answer is taken for one: the status is not looked at ...
BulkTransferRefused(n) ==
  /\ Faults < env.faults
  /\ transfer[n] # NoTransfer
  /\ Up(Joiner)
  /\ transfer' = [transfer EXCEPT ![n] = NoTransfer]
  /\ reported' = reported \cup {n}
  /\ refused' = refused \cup DOMAIN transfer[n]
  /\ UNCHANGED <<env, ring, gateway, cache, nodeVars, net, begun, hasty,
                 clientVars, crashes, refreshes, missed, safe>>

\* ... or the call fails: the new node is down, or executes it later.  The
\* operator sees the error and may ask again.
BulkTransferFails(n) ==
  /\ transfer[n] # NoTransfer
  /\ net' = IF Up(Joiner)
            THEN net \cup {Request("bulk", Joiner, transfer[n])} ELSE net
  /\ transfer' = [transfer EXCEPT ![n] = NoTransfer]
  /\ UNCHANGED <<env, ring, gateway, cache, nodeVars, reported, begun,
                 hasty, clientVars, faultVars, safe>>

\* The operator starts the gateway again with the new node in its list, when
\* every member has reported and all nodes are ready.
RedeployGateway ==
  /\ Joiner \notin gateway
  /\ reported = Members
  /\ \A n \in Servers : status[n] = "ready"
  /\ gateway' = gateway \cup {Joiner}
  /\ UNCHANGED <<env, ring, cache, nodeVars, net, joinVars, clientVars,
                 faultVars, safe>>

\* CheckAllPeers: the configured peers that answer a ping.
Reached == {p \in Peers : Up(p)}

\* GET /internal/peers?refresh=true: configured peers that answer enter the
\* ring under the id they report.
handleInternalPeers(n) ==
  /\ refreshes < env.refreshes
  /\ refreshes' = refreshes + 1
  /\ Up(n)
  /\ ring' = [ring EXCEPT ![n] = (@ \ {AddrOf[p] : p \in Reached}) \cup Reached]
  /\ UNCHANGED <<env, gateway, cache, nodeVars, net, joinVars, clientVars,
                 crashes, missed, refused, safe>>

-----------------------------------------------------------------------------
(* Nodes stop and start. *)

\* One node at a time, and not after the gateway was switched.
Crash(n) ==
  /\ crashes < env.crashes
  /\ Up(n)
  /\ \A m \in Servers \ {n} :
       status[m] = "ready" \/ (m = Joiner /\ status[m] = "down" /\ ~begun)
  /\ Joiner \notin gateway
  /\ crashes' = crashes + 1
  /\ status' = [status EXCEPT ![n] = "down"]
  /\ cache' = [cache EXCEPT ![n] = [k \in Keys |-> Absent]]
  /\ syncFrom' = [syncFrom EXCEPT ![n] = {}]
  /\ transfer' = IF n = Joiner THEN transfer
                 ELSE [transfer EXCEPT ![n] = NoTransfer]
  /\ safe' = IF begun THEN safe ELSE safe \cup Settled
  /\ UNCHANGED <<env, ring, gateway, net, reported, begun, hasty,
                 clientVars, refreshes, missed, refused>>

\* The process starts with the ring of its configuration.
Start(n) ==
  /\ status[n] = "down"
  /\ status' = [status EXCEPT ![n] = "starting"]
  /\ ring' = [ring EXCEPT ![n] = NewRing(n)]
  /\ UNCHANGED <<env, gateway, cache, syncFrom, net, joinVars, clientVars,
                 faultVars, safe>>

CheckAllPeers(n) ==
  /\ status[n] = "starting"
  /\ status' = [status EXCEPT ![n] = "syncing"]
  /\ syncFrom' = [syncFrom EXCEPT ![n] = Reached]
  /\ UNCHANGED <<env, ring, gateway, cache, net, joinVars, clientVars,
                 faultVars, safe>>

\* Variant of Adopts: a node takes over what it is primary of.
AdoptsAsPrimary(n, k) == GetNodes(ring[n], k)[1] = n

\* A node takes over a key it is primary or replica of on its own ring.
Adopts(n, k) == n \in {GetNodes(ring[n], k)[1], GetNodes(ring[n], k)[2]}

\* What a pull from p brings to n.
Offered(n, p) == {k \in Holds(p) : Adopts(n, k)}

SyncFromPeer(n, p) ==
  /\ p \in syncFrom[n]
  /\ store(n, [k \in Offered(n, p) |-> cache[p][k]])
  /\ syncFrom' = [syncFrom EXCEPT ![n] = @ \ {p}]
  /\ UNCHANGED <<env, ring, gateway, status, net, joinVars, clientVars,
                 faultVars, safe>>

\* Pulls fail: an answer is no dump, or the 3 s that the check and all pulls
\* have between them are over.  No peer is asked again.  (A pull that brings
\* nothing does the same when it succeeds.)
SyncFails(n, peers) ==
  LET lost == UNION {Offered(n, p) : p \in peers}
  IN  /\ Faults < env.faults
      /\ lost # {}
      /\ syncFrom' = [syncFrom EXCEPT ![n] = @ \ peers]
      /\ missed' = IF n \in Members \/ begun THEN missed \cup ({n} \X lost)
                   ELSE missed
      /\ UNCHANGED <<env, ring, gateway, cache, status, net, joinVars,
                     clientVars, crashes, refreshes, refused, safe>>

SyncDone(n) ==
  /\ status[n] = "syncing" /\ syncFrom[n] = {}
  /\ status' = [status EXCEPT ![n] = "ready"]
  /\ UNCHANGED <<env, ring, gateway, cache, syncFrom, net, joinVars,
                 clientVars, faultVars, safe>>

-----------------------------------------------------------------------------
Recover(n) ==
  \/ Start(n)
  \/ CheckAllPeers(n)
  \/ \E p \in Members : SyncFromPeer(n, p)
  \/ \E peers \in SUBSET syncFrom[n] : SyncFails(n, peers)
  \/ SyncDone(n)

Next ==
  \/ \E k \in Keys : handleAPISet(k)
  \/ \E m \in net : Deliver(m) \/ Lose(m)
  \/ \E n \in Members : \/ RebalanceForNewNode(n)
                        \/ BulkTransfer(n)
                        \/ BulkTransferRefused(n)
                        \/ BulkTransferFails(n)
  \/ \E n \in Servers : Crash(n) \/ Recover(n) \/ handleInternalPeers(n)
  \/ RedeployGateway

Spec == Init /\ [][Next]_vars

-----------------------------------------------------------------------------
(* Properties. *)

\* Every variable has its type; what is sent has a receiver.
TypeOK ==
  /\ ring \in [Servers -> SUBSET Names]
  /\ gateway \subseteq Servers
  /\ cache \in [Servers -> [Keys -> Writes \cup {Absent}]]
  /\ status \in [Servers -> {"down", "starting", "syncing", "ready"}]
  /\ \A m \in net : /\ m.type \in {"set", "replicate", "bulk"}
                    /\ m.to \in Servers
                    /\ DOMAIN m.items \subseteq Keys
  /\ reported \subseteq Members
  /\ missed \subseteq Servers \X Keys
  /\ refused \cup safe \subseteq Keys

(***************************************************************************)
(* Clients see nothing of a join.  A value both owners held when the       *)
(* migration began is what the gateway reads, until the next write of its  *)
(* key: while members know the new node and the gateway does not, while    *)
(* batches fail, are repeated and arrive late, while one node at a time    *)
(* (the new one included) crashes and comes back with its configured ring, *)
(* and after the switch.  This needs the pull of a member that was down    *)
(* (nobody repeats one that fails; the new node's may), and that no batch  *)
(* is refused, unless the key was written once: an older value that the    *)
(* new node may have is then read.  Of a member that is rebalanced before  *)
(* it is ready the mesh bears one crash.  With bare addresses the new node *)
(* may keep an older value too, so a key is then written once and no node  *)
(* crashes.                                                                *)
(***************************************************************************)
Named == env.named /\ (crashes <= 1 \/ ~hasty)
Bare  == crashes = 0 /\ env.writes <= 1

\* No member missed the key in a pull that failed.
Pulled(k) == \A n \in Members : <<n, k>> \notin missed

JoinIsInvisible ==
  \A k \in safe :
    \/ Named /\ Pulled(k) /\ (k \notin refused \/ env.writes <= 1)
    \/ Bare
    => Read(k) = latest[k]

(***************************************************************************)
(* After the switch, a key that moved to the new node is on both its       *)
(* owners: whatever crashed or failed on the way, except for the pulls     *)
(* that should have brought the key to a node that was down, and batches   *)
(* with the key that were refused, as their sender does not notice.        *)
(***************************************************************************)
MovedKeysHaveTwoCopies ==
  Named /\ Joiner \in gateway =>
    \A k \in safe \ refused :
      PrimaryOf(k) = Joiner /\ Pulled(k) /\ <<Joiner, k>> \notin missed
        => \A n \in Owners(k) : cache[n][k] = latest[k]

(***************************************************************************)
(* A member that crashed has what it owns again when its start-up ends:    *)
(* the value is on both owners, as the tutorial promises of nodes that     *)
(* reboot, trigger peer synchronisation and rejoin the ring.  Excepted are *)
(* keys whose pull failed, and a migration that reaches a member during    *)
(* its start-up: it changes the ring that the member consults.             *)
(***************************************************************************)
RejoinRestores ==
  /\ Joiner \notin gateway /\ ~hasty
  /\ \A n \in Members : status[n] = "ready"
  => \A k \in safe : Pulled(k) => \A n \in Owners(k) : cache[n][k] = latest[k]

\* The same, of deployments whose peers are configured as id=addr
\* (server.New, SyncFromPeer).
NamedRejoinRestores == env.named => RejoinRestores

=============================================================================
