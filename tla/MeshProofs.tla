----------------------------- MODULE MeshProofs -----------------------------
(***************************************************************************)
(* Proofs about Mesh, for any number of client operations and any set of   *)
(* environments.                                                           *)
(***************************************************************************)
EXTENDS Mesh, TLAPS, WellFoundedInduction

-----------------------------------------------------------------------------
(* Facts about the operators. *)

\* A set of operations that is not empty has a last one.
LEMMA LastExists ==
  ASSUME NEW S \in SUBSET Ops, S # {}
  PROVE  \E o \in S : \A p \in S : p <= o
<1> DEFINE R == OpToRel(<, Nat)
           T == {n \in Nat : MaxOps - n \in S}
<1>0. \A p \in S : MaxOps - p \in Nat /\ MaxOps - (MaxOps - p) = p
  BY MeshAssumption DEF Ops
<1>1. IsWellFoundedOn(R, Nat)
  BY NatLessThanWellFounded
<1>2. T \subseteq Nat /\ T # {}
  <2>1. PICK o \in S : TRUE
    OBVIOUS
  <2> QED
    BY <1>0, <2>1
<1>3. PICK t \in T : \A u \in T : ~(<<u, t>> \in R)
  <2> HIDE DEF R, T
  <2> QED BY <1>1, <1>2, WFMin
<1>4. \A u \in T : ~(u < t)
  BY <1>2, <1>3 DEF OpToRel
<1>5. ASSUME NEW p \in S PROVE p <= MaxOps - t
  <2>1. ~(MaxOps - p < t)
    BY <1>0, <1>4
  <2> QED
    BY <1>0, <2>1, MeshAssumption DEF Ops
<1> QED
  BY <1>5

LEMMA LastWriteType == LastWrite \in Ops \cup {None}
<1>1. CASE Writes = {} \/ Writing
  BY <1>1 DEF LastWrite
<1>2. CASE ~(Writes = {} \/ Writing)
  <2>1. \E o \in Writes : \A p \in Writes : p <= o
    BY <1>2, LastExists DEF Writes
  <2> QED
    BY <1>2, <2>1 DEF LastWrite, Writes
<1> QED
  BY <1>1, <1>2

LEMMA IdleType == Idle \in Changing
  BY DEF Idle, Changing, Handlers

LEMMA DoneType ==
  ASSUME TypeOK, NEW o \in Ops, NEW r,
         \/ ops[o].kind = "get" /\ r \in Ops \cup {None}
         \/ ops[o].kind # "get" /\ r \in {None, "stored", "error", "deleted"}
  PROVE  Done(o, r) \in Reading \cup Changing
<1>1. ops[o] \in Reading \cup Changing
  BY DEF TypeOK
<1> QED
  BY <1>1 DEF Done, Idle, Reading, Changing, Handlers

LEMMA FinishType ==
  ASSUME TypeOK, NEW o \in Ops, NEW r,
         \/ ops[o].kind = "get" /\ r \in Ops \cup {None}
         \/ ops[o].kind # "get" /\ r \in {None, "stored", "error", "deleted"},
         Finish(o, r)
  PROVE  ops' \in [Ops -> Reading \cup Changing]
  BY DoneType DEF Finish, TypeOK

LEMMA GoToType ==
  ASSUME TypeOK, NEW o \in Ops, NEW pc \in {"primary", "replica"}, GoTo(o, pc)
  PROVE  ops' \in [Ops -> Reading \cup Changing]
<1>1. ops[o] \in Reading \cup Changing
  BY DEF TypeOK
<1>2. [ops[o] EXCEPT !.pc = pc] \in Reading \cup Changing
  BY <1>1 DEF Reading, Changing, Handlers
<1> QED
  BY <1>2 DEF GoTo, TypeOK

LEMMA FinishSetType ==
  ASSUME TypeOK, NEW o \in Ops, ops[o].kind = "set", FinishSet(o)
  PROVE  ops' \in [Ops -> Reading \cup Changing]
<1> SUFFICES ASSUME NEW p \in Ops
             PROVE  ops'[p] \in Reading \cup Changing
  BY DEF FinishSet
<1>1. ops[p] \in Reading \cup Changing
  BY DEF TypeOK
<1>2. CASE p = o
  BY <1>2, DoneType DEF FinishSet
<1>3. CASE p # o
  <2>1. [ops[p] EXCEPT !.seen = @ \cup {o}] \in Reading \cup Changing
    BY <1>1 DEF Reading, Changing, Handlers
  <2> QED
    BY <1>1, <1>3, <2>1 DEF FinishSet
<1> QED
  BY <1>2, <1>3

LEMMA ValueType ==
  ASSUME TypeOK, NEW n \in Nodes
  PROVE  ValueAt(n) \in Ops \cup {None}
  BY DEF TypeOK, ValueAt, Item

LEMMA BeginType ==
  ASSUME TypeOK, NEW o \in Ops, NEW kind \in {"set", "get", "delete"},
         NEW pc \in {"primary", "replica"}, Begin(o, kind, pc)
  PROVE  ops' \in [Ops -> Reading \cup Changing]
<1> DEFINE h == ops'[o]
<1>1. ops' = [ops EXCEPT ![o] = h]
  BY DEF Begin, TypeOK
<1>2. CASE kind = "get"
  <2>1. OutagesOver \in Nat
    <3>1. crashes \in Nat
      BY DEF TypeOK
    <3> QED
      BY <3>1 DEF OutagesOver
  <2>2. ValueAt(Primary) \in Ops \cup {None}
    BY ValueType DEF Nodes
  <2>3. h = [Idle EXCEPT !.kind = kind, !.pc = pc, !.settled = settled,
                         !.after = IF Ordered THEN LastWrite ELSE None,
                         !.outages = IF Sheltered THEN OutagesOver ELSE 0,
                         !.seen = IF Atomic THEN {ValueAt(Primary)} ELSE {}]
    BY <1>2 DEF Begin, TypeOK
  <2>4. settled \in Ops \cup {None}
    BY DEF TypeOK
  <2>5. h \in Reading
    <3> HIDE DEF h
    <3> QED
      BY <1>2, <2>1, <2>2, <2>3, <2>4, LastWriteType
      DEF Idle, Reading, Handlers
  <2> QED
    BY <1>1, <2>5 DEF TypeOK
<1>3. CASE kind # "get"
  <2> DEFINE c == Quiescent \/ env.timeouts
  <2>1. h = [Idle EXCEPT !.kind = kind, !.pc = pc, !.calm = c]
    BY <1>3 DEF Begin, TypeOK
  <2>2. c \in BOOLEAN
    OBVIOUS
  <2>3. h \in Changing
    <3> HIDE DEF h, c
    <3> QED
      BY <1>3, <2>1, <2>2 DEF Idle, Changing, Handlers
  <2> QED
    BY <1>1, <2>3 DEF TypeOK
<1> QED
  BY <1>2, <1>3

LEMMA EntryType ==
  ASSUME TypeOK, NEW n \in Nodes, NEW v \in Ops, NEW version \in Nat,
         NEW b \in BOOLEAN
  PROVE  SetWithMetadata(n, v, version, b) \in Item
<1>1. item[n] \in Item \cup {NoItem}
  BY DEF TypeOK
<1> QED
  BY <1>1 DEF SetWithMetadata, Item

LEMMA HandleSetType ==
  ASSUME TypeOK, NEW n \in Owners, NEW v \in Ops, NEW o \in Ops,
         NEW others \in SUBSET Message, handleSet(n, v, o, others)
  PROVE  item' \in [Nodes -> Item \cup {NoItem}] /\ net' \subseteq Message
<1> DEFINE entry == SetWithMetadata(n, v, 0, FALSE)
<1>1. n \in Nodes
  BY DEF Nodes, Owners
<1>2. entry \in Item
  BY <1>1, EntryType
<1>3. ReplicateSet(Replica, entry, o) \in Message
  BY <1>2 DEF ReplicateSet, Message, Item
<1>4. /\ item' = [item EXCEPT ![n] = entry]
      /\ net' \subseteq others \cup {ReplicateSet(Replica, entry, o)}
  BY DEF handleSet
<1> HIDE DEF entry
<1> QED
  BY <1>1, <1>2, <1>3, <1>4 DEF TypeOK

LEMMA HandleDeleteType ==
  ASSUME TypeOK, NEW n \in Owners, NEW o \in Ops,
         NEW others \in SUBSET Message, handleDelete(n, o, others)
  PROVE  item' \in [Nodes -> Item \cup {NoItem}] /\ net' \subseteq Message
<1>1. ReplicateDelete(o) \in Message
  BY DEF ReplicateDelete, Message
<1> QED
  BY <1>1 DEF handleDelete, TypeOK, Owners, Nodes

LEMMA HandleGetType ==
  ASSUME TypeOK, NEW n \in Owners, NEW o \in Ops, handleGet(n, o)
  PROVE  /\ item' = item /\ net' \subseteq Message
         /\ item[n].value \in Ops
<1>1. item[n] \in Item
  BY DEF handleGet, TypeOK, Owners, Nodes
<1>2. ReplicateSet(Third, item[n], o) \in Message
  BY <1>1 DEF ReplicateSet, Message, Item
<1> QED
  BY <1>1, <1>2 DEF handleGet, TypeOK, Item

LEMMA CallFailsType ==
  ASSUME TypeOK, NEW n \in Owners, NEW o \in Ops,
         CallFails(n, PostSet(n, o)) \/ CallFails(n, PostDelete(n, o))
  PROVE  net' \subseteq Message
<1>1. PostSet(n, o) \in Message /\ PostDelete(n, o) \in Message
  BY DEF PostSet, PostDelete, Message
<1> QED
  BY <1>1 DEF CallFails, TypeOK

LEMMA DeliverType ==
  ASSUME TypeOK, NEW m \in net, Deliver(m)
  PROVE  item' \in [Nodes -> Item \cup {NoItem}] /\ net' \subseteq Message
<1>1. m \in Message /\ net \ {m} \in SUBSET Message
  BY DEF TypeOK
<1>2. CASE m.type = "set"
  <2>1. m.to \in Owners /\ m.value \in Ops /\ m.op \in Ops
    BY <1>1, <1>2 DEF Message
  <2>2. handleSet(m.to, m.value, m.op, net \ {m})
    BY <1>2 DEF Deliver
  <2> QED
    BY <1>1, <2>1, <2>2, HandleSetType
<1>3. CASE m.type = "delete"
  <2>1. m.to \in Owners /\ m.op \in Ops
    BY <1>1, <1>3 DEF Message
  <2>2. handleDelete(m.to, m.op, net \ {m})
    BY <1>3 DEF Deliver
  <2> QED
    BY <1>1, <2>1, <2>2, HandleDeleteType
<1>4. CASE m.type = "replicate"
  <2>1. m.to \in Nodes /\ m.value \in Ops /\ m.version \in Nat
    BY <1>1, <1>4 DEF Message, Nodes
  <2>2. SetWithMetadata(m.to, m.value, m.version, TRUE) \in Item
    BY <2>1, EntryType
  <2>3. /\ item' = [item EXCEPT ![m.to] =
                      SetWithMetadata(m.to, m.value, m.version, TRUE)]
        /\ net' = net \ {m}
    BY <1>4 DEF Deliver
  <2> QED
    BY <1>1, <2>1, <2>2, <2>3 DEF TypeOK
<1>5. CASE m.type = "replicateDelete"
  BY <1>1, <1>5 DEF Deliver, TypeOK, Message, Nodes
<1> QED
  BY <1>1, <1>2, <1>3, <1>4, <1>5 DEF Message

-----------------------------------------------------------------------------
(* Type correctness. *)

LEMMA InitTyped == Init => TypeOK
<1> SUFFICES ASSUME Init PROVE TypeOK
  OBVIOUS
<1>1. env.maxCrashes \in Nat
  BY MeshAssumption DEF Init, Environment
<1>2. ops \in [Ops -> Reading \cup Changing]
  BY IdleType DEF Init
<1> QED
  BY <1>1, <1>2 DEF Init, TypeOK, Owners, NodeState, Nodes

\* What the nodes do to each other when they crash, start and synchronise.
LEMMA NodeStepTyped ==
  ASSUME TypeOK, NEW n \in Nodes, Crash(n) \/ Restart(n) \/ Sync(n)
  PROVE  TypeOK'
<1>1. env.maxCrashes \in Nat /\ env' = env
  BY MeshAssumption
  DEF TypeOK, Environment, Crash, Restart, Sync, CheckAllPeers, SyncFetch,
      SyncFails, SyncApply, SyncDone
<1>2. CASE Crash(n)
  BY <1>1, <1>2 DEF TypeOK, Crash, Up
<1>3. CASE Restart(n)
  BY <1>1, <1>3 DEF TypeOK, Restart
<1>4. CASE CheckAllPeers(n)
  BY <1>1, <1>4 DEF TypeOK, CheckAllPeers
<1>5. ASSUME NEW p \in Nodes, SyncFetch(n, p)
      PROVE  TypeOK'
  BY <1>1, <1>5 DEF TypeOK, SyncFetch
<1>6. ASSUME NEW p \in Nodes, SyncFails(n, p)
      PROVE  TypeOK'
  BY <1>1, <1>6 DEF TypeOK, SyncFails
<1>7. CASE SyncApply(n)
  <2>1. dump[n] \in Item
    BY <1>7 DEF SyncApply, TypeOK
  <2>2. SetWithMetadata(n, dump[n].value, dump[n].version, n = Replica) \in Item
    <3>1. dump[n].value \in Ops /\ dump[n].version \in Nat
      BY <2>1 DEF Item
    <3>2. (n = Replica) \in BOOLEAN
      OBVIOUS
    <3> QED
      BY <3>1, <3>2, EntryType
  <2>3. item' \in [Nodes -> Item \cup {NoItem}]
    BY <1>7, <2>2 DEF SyncApply, TypeOK
  <2> QED
    BY <1>1, <1>7, <2>3 DEF TypeOK, SyncApply
<1>8. CASE SyncDone(n)
  BY <1>1, <1>8 DEF TypeOK, SyncDone
<1> QED
  BY <1>2, <1>3, <1>4, <1>5, <1>6, <1>7, <1>8 DEF Sync

LEMMA MonitorStepTyped ==
  ASSUME TypeOK, NEW n \in Owners, MonitorMisses(n) \/ MonitorHears(n)
  PROVE  TypeOK'
<1>1. view' \in [Owners -> NodeState]
  BY DEF TypeOK, MonitorMisses, MonitorHears, Detector!Miss, Detector!Hear,
         NodeState
<1>2. UNCHANGED <<env, item, net, ops, nodeVars, settled>>
  BY DEF MonitorMisses, MonitorHears
<1> QED
  BY <1>1, <1>2 DEF TypeOK, nodeVars

\* The gateway's handlers change entries, requests and themselves only.
LEMMA GatewayStepTyped ==
  ASSUME TypeOK, NEW o \in Ops,
         BeginSet(o) \/ BeginDelete(o) \/ BeginGet(o) \/ Handler(o)
  PROVE  TypeOK'
<1>a. Primary \in Owners /\ Replica \in Owners /\ net \in SUBSET Message
  BY DEF Owners, TypeOK
<1>1. CASE BeginSet(o)
  <2>1. ops' \in [Ops -> Reading \cup Changing]
    BY <1>1, BeginType DEF BeginSet
  <2> QED
    BY <1>1, <2>1 DEF BeginSet, Begin, TypeOK, nodeVars
<1>2. CASE BeginDelete(o)
  <2>1. ops' \in [Ops -> Reading \cup Changing]
    BY <1>2, BeginType DEF BeginDelete
  <2> QED
    BY <1>2, <2>1 DEF BeginDelete, Begin, TypeOK, nodeVars
<1>3. CASE BeginGet(o)
  <2>1. ops' \in [Ops -> Reading \cup Changing]
    BY <1>3, BeginType DEF BeginGet
  <2> QED
    BY <1>3, <2>1 DEF BeginGet, Begin, TypeOK, nodeVars
<1>4. ASSUME Handler(o),
             item' \in [Nodes -> Item \cup {NoItem}], net' \subseteq Message,
             ops' \in [Ops -> Reading \cup Changing]
      PROVE  TypeOK'
  BY <1>4 DEF Handler, SetAtPrimary, SetAtPrimaryFails, SetAtReplica,
     SetAtReplicaFails, DeleteAtPrimary, DeleteAtPrimaryFails, DeleteAtReplica,
     GetAtPrimary, GetAtPrimaryFails, GetAtReplica, GetMisses, nodeVars, TypeOK
<1>5. CASE SetAtPrimary(o)
  <2>1. net \cup {PostSet(Replica, o)} \in SUBSET Message
    BY <1>a DEF PostSet, Message
  <2>2. item' \in [Nodes -> Item \cup {NoItem}] /\ net' \subseteq Message
    BY <1>5, <1>a, <2>1, HandleSetType DEF SetAtPrimary
  <2>3. ops' \in [Ops -> Reading \cup Changing]
    BY <1>5, FinishSetType DEF SetAtPrimary
  <2> QED
    BY <1>4, <1>5, <2>2, <2>3 DEF Handler
<1>6. CASE SetAtPrimaryFails(o)
  <2>1. ops' \in [Ops -> Reading \cup Changing]
    BY <1>6, GoToType DEF SetAtPrimaryFails
  <2>2. net' \subseteq Message /\ item' = item
    BY <1>6, <1>a, CallFailsType DEF SetAtPrimaryFails
  <2> QED
    BY <1>4, <1>6, <2>1, <2>2 DEF Handler, TypeOK
<1>7. CASE SetAtReplica(o)
  <2>1. item' \in [Nodes -> Item \cup {NoItem}] /\ net' \subseteq Message
    BY <1>7, <1>a, HandleSetType DEF SetAtReplica
  <2>2. ops' \in [Ops -> Reading \cup Changing]
    BY <1>7, FinishType DEF SetAtReplica
  <2> QED
    BY <1>4, <1>7, <2>1, <2>2 DEF Handler
<1>8. CASE SetAtReplicaFails(o)
  <2>1. ops' \in [Ops -> Reading \cup Changing]
    BY <1>8, FinishType DEF SetAtReplicaFails
  <2>2. net' \subseteq Message /\ item' = item
    BY <1>8, <1>a, CallFailsType DEF SetAtReplicaFails
  <2> QED
    BY <1>4, <1>8, <2>1, <2>2 DEF Handler, TypeOK
<1>9. CASE DeleteAtPrimary(o)
  <2>1. item' \in [Nodes -> Item \cup {NoItem}] /\ net' \subseteq Message
    BY <1>9, <1>a, HandleDeleteType DEF DeleteAtPrimary
  <2>2. ops' \in [Ops -> Reading \cup Changing]
    BY <1>9, FinishType DEF DeleteAtPrimary
  <2> QED
    BY <1>4, <1>9, <2>1, <2>2 DEF Handler
<1>10. CASE DeleteAtPrimaryFails(o)
  <2>1. ops' \in [Ops -> Reading \cup Changing]
    BY <1>10, GoToType DEF DeleteAtPrimaryFails
  <2>2. net' \subseteq Message /\ item' = item
    BY <1>10, <1>a, CallFailsType DEF DeleteAtPrimaryFails
  <2> QED
    BY <1>4, <1>10, <2>1, <2>2 DEF Handler, TypeOK
<1>11. CASE DeleteAtReplica(o)
  <2>1. ops' \in [Ops -> Reading \cup Changing]
    BY <1>11, FinishType DEF DeleteAtReplica
  <2>2. CASE handleDelete(Replica, o, net)
    BY <1>4, <1>11, <1>a, <2>1, <2>2, HandleDeleteType DEF Handler
  <2>3. CASE CallFails(Replica, PostDelete(Replica, o)) /\ UNCHANGED item
    BY <1>4, <1>11, <1>a, <2>1, <2>3, CallFailsType DEF Handler, TypeOK
  <2> QED
    BY <1>11, <2>2, <2>3 DEF DeleteAtReplica
<1>12. CASE GetAtPrimary(o)
  <2>1. /\ item' = item /\ net' \subseteq Message
        /\ item[Primary].value \in Ops
    BY <1>12, <1>a, HandleGetType DEF GetAtPrimary
  <2>2. ops' \in [Ops -> Reading \cup Changing]
    BY <1>12, <2>1, FinishType DEF GetAtPrimary
  <2> QED
    BY <1>4, <1>12, <2>1, <2>2 DEF Handler, TypeOK
<1>13. CASE GetAtPrimaryFails(o)
  <2>1. ops' \in [Ops -> Reading \cup Changing]
    BY <1>13, GoToType DEF GetAtPrimaryFails
  <2> QED
    BY <1>4, <1>13, <2>1 DEF Handler, GetAtPrimaryFails, TypeOK
<1>14. CASE GetAtReplica(o)
  <2>1. /\ item' = item /\ net' \subseteq Message
        /\ item[Replica].value \in Ops
    BY <1>14, <1>a, HandleGetType DEF GetAtReplica
  <2>2. ops' \in [Ops -> Reading \cup Changing]
    BY <1>14, <2>1, FinishType DEF GetAtReplica
  <2> QED
    BY <1>4, <1>14, <2>1, <2>2 DEF Handler, TypeOK
<1>15. CASE GetMisses(o)
  <2>1. ops' \in [Ops -> Reading \cup Changing]
    BY <1>15, FinishType DEF GetMisses
  <2> QED
    BY <1>4, <1>15, <2>1 DEF Handler, GetMisses, TypeOK
<1> QED
  BY <1>1, <1>2, <1>3, <1>5, <1>6, <1>7, <1>8, <1>9, <1>10, <1>11, <1>12,
     <1>13, <1>14, <1>15 DEF Handler

LEMMA NetStepTyped ==
  ASSUME TypeOK, NEW m \in net, Deliver(m) \/ Lose(m)
  PROVE  TypeOK'
<1>1. CASE Deliver(m)
  <2>1. item' \in [Nodes -> Item \cup {NoItem}] /\ net' \subseteq Message
    BY <1>1, DeliverType
  <2>2. UNCHANGED <<env, view, ops, nodeVars, settled>>
    BY <1>1 DEF Deliver
  <2> QED
    BY <2>1, <2>2 DEF TypeOK, nodeVars
<1>2. CASE Lose(m)
  BY <1>2 DEF Lose, TypeOK, nodeVars
<1> QED
  BY <1>1, <1>2

LEMMA SettleTyped ==
  ASSUME TypeOK, Settle
  PROVE  TypeOK'
<1>1. item[Primary].value \in Ops
  BY DEF Settle, TypeOK, Item, Owners, Nodes
<1> QED
  BY <1>1 DEF Settle, TypeOK, nodeVars

(***************************************************************************)
(* Type correctness: a handler never stores an entry without a version, a  *)
(* request always has a receiver, and replicas never get a version 0 that  *)
(* would ask them to count on by themselves (SetWithMetadata,              *)
(* ReplicateSet).                                                          *)
(***************************************************************************)
THEOREM MeshTypeCorrect == Spec => []TypeOK
<1>1. Init => TypeOK
  BY InitTyped
<1>2. TypeOK /\ [Next]_vars => TypeOK'
  <2> SUFFICES ASSUME TypeOK, [Next]_vars PROVE TypeOK'
    OBVIOUS
  <2>1. CASE UNCHANGED vars
    BY <2>1 DEF vars, nodeVars, TypeOK
  <2> QED
    BY <2>1, NodeStepTyped, MonitorStepTyped, GatewayStepTyped, NetStepTyped,
       SettleTyped DEF Next
<1> QED
  BY <1>1, <1>2, PTL DEF Spec

-----------------------------------------------------------------------------
(* A primary that stays. *)

\* No environment changes during a behaviour.
LEMMA SameEnvironment ==
  ASSUME [Next]_vars
  PROVE  /\ env' = env /\ StablePrimary' = StablePrimary
         /\ Ordered' = Ordered /\ Atomic' = Atomic /\ Sheltered' = Sheltered
<1>1. env' = env
  BY DEF Next, vars, BeginSet, BeginDelete, BeginGet, Begin, Handler,
     SetAtPrimary, SetAtPrimaryFails, SetAtReplica, SetAtReplicaFails,
     DeleteAtPrimary, DeleteAtPrimaryFails, DeleteAtReplica, GetAtPrimary,
     GetAtPrimaryFails, GetAtReplica, GetMisses, Deliver, Lose, Crash, Restart,
     Sync, CheckAllPeers, SyncFetch, SyncFails, SyncApply, SyncDone,
     MonitorMisses, MonitorHears, Settle
<1> QED
  BY <1>1 DEF StablePrimary, Ordered, Atomic, Sheltered

\* Who changes the state of nodes, and what the gateway thinks of them.
LEMMA StatusSteps ==
  ASSUME [Next]_vars
  PROVE  \/ UNCHANGED <<status, crashes>>
         \/ \E n \in Nodes : Crash(n) \/ Restart(n) \/ CheckAllPeers(n) \/ SyncDone(n)
  BY DEF Next, vars, nodeVars, BeginSet, BeginDelete, BeginGet, Begin, Handler,
     SetAtPrimary, SetAtPrimaryFails, SetAtReplica, SetAtReplicaFails,
     DeleteAtPrimary, DeleteAtPrimaryFails, DeleteAtReplica, GetAtPrimary,
     GetAtPrimaryFails, GetAtReplica, GetMisses, Deliver, Lose, Sync,
     SyncFetch, SyncFails, SyncApply, MonitorMisses, MonitorHears, Settle

LEMMA ViewSteps ==
  ASSUME [Next]_vars
  PROVE  \/ UNCHANGED view
         \/ \E n \in Owners : MonitorMisses(n) \/ MonitorHears(n)
  BY DEF Next, vars, nodeVars, BeginSet, BeginDelete, BeginGet, Begin, Handler,
     SetAtPrimary, SetAtPrimaryFails, SetAtReplica, SetAtReplicaFails,
     DeleteAtPrimary, DeleteAtPrimaryFails, DeleteAtReplica, GetAtPrimary,
     GetAtPrimaryFails, GetAtReplica, GetMisses, Deliver, Lose, Crash, Restart,
     Sync, CheckAllPeers, SyncFetch, SyncFails, SyncApply, SyncDone, Settle

\* The primary serves throughout and, when calls are answered, is known as
\* ALIVE.
PrimaryStays ==
  StablePrimary => /\ status[Primary] = "ready"
                   /\ ~env.timeouts => view[Primary] = "ALIVE"

LEMMA PrimaryStaysStep ==
  ASSUME TypeOK, PrimaryStays, [Next]_vars
  PROVE  PrimaryStays'
<1> SUFFICES ASSUME StablePrimary
             PROVE  /\ status'[Primary] = "ready"
                    /\ ~env.timeouts => view'[Primary] = "ALIVE"
  BY SameEnvironment DEF PrimaryStays
<1>a. Primary \in Owners /\ Primary \in Nodes
  BY DEF Owners, Nodes
<1>1. status'[Primary] = "ready"
  BY <1>a, StatusSteps
  DEF PrimaryStays, StablePrimary, TypeOK, Crash, Restart, CheckAllPeers,
      SyncDone
<1>2. ASSUME ~env.timeouts PROVE view'[Primary] = "ALIVE"
  BY <1>a, <1>2, ViewSteps
  DEF PrimaryStays, TypeOK, MonitorMisses, MonitorHears, Detector!Miss,
      Detector!Hear
<1> QED
  BY <1>1, <1>2

LEMMA PrimaryStaysInvariant == Spec => []PrimaryStays
<1>1. Init => PrimaryStays
  BY DEF Init, PrimaryStays, Nodes, Owners
<1> QED
  BY <1>1, PrimaryStaysStep, MeshTypeCorrect, PTL DEF Spec

\* A primary that is ready changes its entry for client writes only.
LEMMA PrimaryWrites ==
  ASSUME TypeOK, [Next]_vars, status[Primary] = "ready",
         item'[Primary] # item[Primary]
  PROVE  \/ \E o \in Ops : item'[Primary] = SetWithMetadata(Primary, o, 0, FALSE)
         \/ item'[Primary] = NoItem
<1>a. /\ Primary \in Nodes /\ Primary \notin {Replica, Third}
      /\ dump[Primary] = NoItem
  BY MeshAssumption DEF Nodes, TypeOK
<1>1. ASSUME NEW o \in Ops,
             BeginSet(o) \/ BeginDelete(o) \/ BeginGet(o) \/ Handler(o)
      PROVE  \/ item'[Primary] = SetWithMetadata(Primary, o, 0, FALSE)
             \/ item'[Primary] = NoItem
  BY <1>a, <1>1
  DEF TypeOK, BeginSet, BeginDelete, BeginGet, Begin, Handler, SetAtPrimary,
      SetAtPrimaryFails, SetAtReplica, SetAtReplicaFails, DeleteAtPrimary,
      DeleteAtPrimaryFails, DeleteAtReplica, GetAtPrimary, GetAtPrimaryFails,
      GetAtReplica, GetMisses, handleSet, handleDelete, handleGet
<1>2. ASSUME NEW m \in net, Deliver(m)
      PROVE  \/ \E o \in Ops : item'[Primary] = SetWithMetadata(Primary, o, 0, FALSE)
             \/ item'[Primary] = NoItem
  <2>1. m \in Message
    BY DEF TypeOK
  <2>2. CASE m.type \in {"set", "delete"}
    BY <1>a, <1>2, <2>1, <2>2
    DEF TypeOK, Deliver, handleSet, handleDelete, Message
  <2>3. CASE m.type \in {"replicate", "replicateDelete"}
    BY <1>a, <1>2, <2>1, <2>3 DEF TypeOK, Deliver, Message
  <2> QED
    BY <2>1, <2>2, <2>3 DEF Message
<1>3. ASSUME NEW n \in Nodes, Crash(n) \/ Restart(n) \/ Sync(n)
      PROVE  item'[Primary] = NoItem
  BY <1>a, <1>3
  DEF TypeOK, Crash, Restart, Sync, CheckAllPeers, SyncFetch, SyncFails,
      SyncApply, SyncDone
<1> QED
  BY <1>1, <1>2, <1>3 DEF Next, vars, Lose, MonitorMisses, MonitorHears, Settle

(***************************************************************************)
(* Versions at a primary that does not crash only increase, whatever the   *)
(* replica, late requests, hot reads and synchronising nodes do            *)
(* (SetWithMetadata, handleInternalReplicate).                             *)
(***************************************************************************)
THEOREM PrimaryVersions == Spec => PrimaryVersionsIncrease
<1>1. TypeOK /\ PrimaryStays /\ [Next]_vars
        => [StablePrimary => VersionsIncrease(Primary)]_vars
  <2> SUFFICES ASSUME TypeOK, PrimaryStays, [Next]_vars, StablePrimary,
                      item[Primary] # NoItem, item'[Primary] # NoItem,
                      item'[Primary] # item[Primary]
               PROVE  item'[Primary].version > item[Primary].version
    BY DEF VersionsIncrease
  <2>1. PICK o \in Ops : item'[Primary] = SetWithMetadata(Primary, o, 0, FALSE)
    BY PrimaryWrites DEF PrimaryStays
  <2>2. item[Primary].version \in Nat
    BY DEF TypeOK, Nodes, Item
  <2> QED
    BY <2>1, <2>2 DEF SetWithMetadata
<1> QED
  BY <1>1, MeshTypeCorrect, PrimaryStaysInvariant, PTL
  DEF Spec, PrimaryVersionsIncrease

-----------------------------------------------------------------------------
(* Agreement of the owners when nothing fails and writes are paced. *)

Calm == ~env.timeouts /\ crashes = 0 /\ \A o \in Ops : ops[o].calm
Writer(o) == Active(o) /\ ops[o].kind # "get"

(***************************************************************************)
(* Why the owners agree: all nodes serve and are known to; one write is    *)
(* under way at most, at the primary; once it is done, every request that  *)
(* the replica still has to execute carries what the primary has, so the   *)
(* order and number of them make no difference.                            *)
(***************************************************************************)
CalmMesh ==
  Calm =>
    /\ \A n \in Nodes : status[n] = "ready"
    /\ \A n \in Owners : view[n] = "ALIVE"
    /\ \A o \in Ops : Writer(o) => ops[o].pc = "primary"
    /\ \A o, p \in Ops : Writer(o) /\ Writer(p) => o = p
    /\ \A m \in net : /\ m.to # Primary
                      /\ m.to = Replica => ~Writing /\ m.value = ValueAt(Primary)
    /\ \/ ValueAt(Primary) = ValueAt(Replica)
       \/ \E m \in net : m.to = Replica

LEMMA OpsCalmSteps ==
  ASSUME TypeOK, [Next]_vars, NEW p \in Ops, ops'[p].calm
  PROVE  ops[p].calm
<1>0. ops[p] \in Reading \cup Changing /\ Idle.calm
  BY DEF TypeOK, Idle
<1>1. ASSUME NEW o \in Ops, NEW kind, NEW pc, Begin(o, kind, pc)
      PROVE  ops[p].calm
  BY <1>0, <1>1 DEF Begin, Unstarted, TypeOK
<1>2. ASSUME NEW o \in Ops, NEW r, Finish(o, r)
      PROVE  ops[p].calm
  BY <1>0, <1>2 DEF Finish, Done, Idle, TypeOK
<1>3. ASSUME NEW o \in Ops, FinishSet(o)
      PROVE  ops[p].calm
  <2>1. CASE p = o
    BY <1>3, <2>1 DEF FinishSet, Done, Idle, TypeOK
  <2>2. CASE p # o
    BY <1>0, <1>3, <2>2 DEF FinishSet, Reading, Changing, Handlers
  <2> QED
    BY <2>1, <2>2
<1>4. ASSUME NEW o \in Ops, NEW pc, GoTo(o, pc)
      PROVE  ops[p].calm
  BY <1>0, <1>4 DEF GoTo, TypeOK, Reading, Changing, Handlers
<1>5. CASE UNCHANGED ops
  BY <1>5
<1> QED
  BY <1>1, <1>2, <1>3, <1>4, <1>5
  DEF Next, vars, nodeVars, BeginSet, BeginDelete, BeginGet, Handler,
      SetAtPrimary, SetAtPrimaryFails, SetAtReplica, SetAtReplicaFails,
      DeleteAtPrimary, DeleteAtPrimaryFails, DeleteAtReplica, GetAtPrimary,
      GetAtPrimaryFails, GetAtReplica, GetMisses, Deliver, Lose, Crash, Restart,
      Sync, CheckAllPeers, SyncFetch, SyncFails, SyncApply, SyncDone,
      MonitorMisses, MonitorHears, Settle

LEMMA CalmBefore ==
  ASSUME TypeOK, [Next]_vars, Calm'
  PROVE  Calm
<1>1. crashes = 0
  <2>1. crashes \in Nat
    BY DEF TypeOK
  <2> QED
    BY <2>1, StatusSteps
    DEF Calm, Crash, Restart, CheckAllPeers, SyncDone
<1>2. \A p \in Ops : ops[p].calm
  BY OpsCalmSteps DEF Calm
<1> QED
  BY <1>1, <1>2, SameEnvironment DEF Calm

\* What the answers and moves of one handler do to all of them.
LEMMA Moves ==
  ASSUME TypeOK, NEW o \in Ops, NEW p \in Ops
  PROVE  /\ \A r : Finish(o, r) =>
              IF p = o THEN ops'[p].kind = ops[p].kind /\ ops'[p].pc = "done"
                            /\ ops'[p].result = r
              ELSE ops'[p] = ops[p]
         /\ FinishSet(o) =>
              IF p = o THEN ops'[p].kind = ops[p].kind /\ ops'[p].pc = "done"
                            /\ ops'[p].result = "stored"
              ELSE /\ ops'[p].kind = ops[p].kind /\ ops'[p].pc = ops[p].pc
                   /\ ops'[p].result = ops[p].result
                   /\ ops'[p].after = ops[p].after
                   /\ ops'[p].settled = ops[p].settled
                   /\ ops'[p].outages = ops[p].outages
         /\ \A pc : GoTo(o, pc) =>
              IF p = o THEN /\ ops'[p].kind = ops[p].kind /\ ops'[p].pc = pc
                            /\ ops'[p].after = ops[p].after
                            /\ ops'[p].seen = ops[p].seen
              ELSE ops'[p] = ops[p]
         /\ \A kind, pc : Begin(o, kind, pc) =>
              IF p = o THEN /\ ops'[p].kind = kind /\ ops'[p].pc = pc
                            /\ ops'[p].result = None
                            /\ ops[p] = Idle
              ELSE ops'[p] = ops[p]
<1>0. ops[p] \in Reading \cup Changing
  BY DEF TypeOK
<1>1. ASSUME NEW r, Finish(o, r)
      PROVE  IF p = o THEN ops'[p].kind = ops[p].kind /\ ops'[p].pc = "done"
                           /\ ops'[p].result = r
             ELSE ops'[p] = ops[p]
  BY <1>1 DEF Finish, Done, Idle, TypeOK
<1>2. ASSUME FinishSet(o)
      PROVE  IF p = o THEN ops'[p].kind = ops[p].kind /\ ops'[p].pc = "done"
                           /\ ops'[p].result = "stored"
             ELSE /\ ops'[p].kind = ops[p].kind /\ ops'[p].pc = ops[p].pc
                  /\ ops'[p].result = ops[p].result
                  /\ ops'[p].after = ops[p].after
                  /\ ops'[p].settled = ops[p].settled
                  /\ ops'[p].outages = ops[p].outages
  <2>1. CASE p = o
    BY <1>2, <2>1 DEF FinishSet, Done, Idle
  <2>2. CASE p # o
    BY <1>0, <1>2, <2>2 DEF FinishSet, Reading, Changing, Handlers
  <2> QED
    BY <2>1, <2>2
<1>3. ASSUME NEW pc, GoTo(o, pc)
      PROVE  IF p = o THEN /\ ops'[p].kind = ops[p].kind /\ ops'[p].pc = pc
                           /\ ops'[p].after = ops[p].after
                           /\ ops'[p].seen = ops[p].seen
             ELSE ops'[p] = ops[p]
  BY <1>0, <1>3 DEF GoTo, TypeOK, Reading, Changing, Handlers
<1>4. ASSUME NEW kind, NEW pc, Begin(o, kind, pc)
      PROVE  IF p = o THEN /\ ops'[p].kind = kind /\ ops'[p].pc = pc
                           /\ ops'[p].result = None
                           /\ ops[p] = Idle
             ELSE ops'[p] = ops[p]
  BY <1>4 DEF Begin, Unstarted, Idle, TypeOK
<1> QED
  BY <1>1, <1>2, <1>3, <1>4

LEMMA CalmMeshStep ==
  ASSUME TypeOK, CalmMesh, [Next]_vars
  PROVE  CalmMesh'
<1> SUFFICES ASSUME Calm', Calm
             PROVE  CalmMesh'
  BY CalmBefore DEF CalmMesh
<1>a. /\ Primary \in Nodes /\ Replica \in Nodes /\ Third \in Nodes
      /\ Primary \in Owners /\ Replica \in Owners
      /\ Primary # Replica /\ Third # Primary /\ Third # Replica
  BY MeshAssumption DEF Nodes, Owners
<1>b. /\ ~env.timeouts /\ \A n \in Nodes : Up(n) /\ status[n] = "ready"
      /\ \A n \in Nodes : dump[n] = NoItem /\ syncFrom[n] = {}
      /\ \A n \in Owners : view[n] = "ALIVE"
  BY DEF Calm, CalmMesh, TypeOK, Up
<1>c. Writing = \E o \in Ops : Writer(o)
  BY DEF Writing, Writer
<1>1. CASE UNCHANGED vars
  BY <1>1 DEF vars, nodeVars, CalmMesh, Calm, Writer, Writing, Active, ValueAt
<1>2. ASSUME NEW o \in Ops, BeginSet(o) \/ BeginDelete(o)
      PROVE  CalmMesh'
  <2>1. /\ ops'[o].pc = "primary" /\ ops'[o].kind # "get"
        /\ \A p \in Ops \ {o} : ops'[p] = ops[p]
    BY <1>2, <1>a, <1>b, Moves DEF BeginSet, BeginDelete
  <2> DEFINE c == Quiescent \/ env.timeouts
  <2>2. ops'[o].calm = c
    <3>1. PICK kind \in {"set", "delete"}, pc \in {"primary", "replica"} :
            ops'[o] = [Idle EXCEPT !.kind = kind, !.pc = pc, !.calm = c]
      BY <1>2 DEF BeginSet, BeginDelete, Begin, TypeOK
    <3> HIDE DEF c
    <3> QED
      BY <3>1 DEF Idle
  <2>3. Quiescent
    BY <1>b, <2>2 DEF Calm
  <2>4. UNCHANGED <<env, item, view, net, status, crashes>>
    BY <1>2 DEF BeginSet, BeginDelete, Begin, nodeVars
  <2> QED
    BY <2>1, <2>3, <2>4, <1>c
    DEF CalmMesh, Quiescent, Writer, Active, ValueAt
<1>3. ASSUME NEW o \in Ops, BeginGet(o)
      PROVE  CalmMesh'
  <2>1. ops'[o].kind = "get" /\ \A p \in Ops \ {o} : ops'[p] = ops[p]
    BY <1>3, Moves DEF BeginGet
  <2>2. \A p \in Ops : Writer(p)' => Writer(p) /\ ops'[p] = ops[p]
    BY <2>1 DEF Writer, Active
  <2>3. UNCHANGED <<env, item, view, net, status, crashes>>
    BY <1>3 DEF BeginGet, Begin, nodeVars
  <2>4. Writing' => Writing
    BY <2>2 DEF Writing, Writer
  <2> QED
    BY <2>2, <2>3, <2>4 DEF CalmMesh, ValueAt
<1>4. ASSUME NEW o \in Ops, SetAtPrimary(o)
      PROVE  CalmMesh'
  <2>1. Writer(o)
    BY <1>4 DEF SetAtPrimary, Writer, Active
  <2>2. \A p \in Ops : ~Writer(p)'
    BY <1>4, <2>1, Moves DEF SetAtPrimary, Writer, Active, CalmMesh
  <2>3. ValueAt(Primary)' = o
    BY <1>4, <1>a, EntryType, MeshAssumption
    DEF SetAtPrimary, handleSet, SetWithMetadata, ValueAt, TypeOK
  <2>4. net' = net \cup {PostSet(Replica, o),
           ReplicateSet(Replica, SetWithMetadata(Primary, o, 0, FALSE), o)}
    BY <1>4, <1>a DEF SetAtPrimary, handleSet
  <2>5. \A m \in net' : m.to # Primary /\ (m.to = Replica => m.value = o)
    BY <1>a, <1>c, <2>1, <2>4
    DEF CalmMesh, PostSet, ReplicateSet, SetWithMetadata
  <2>6. PostSet(Replica, o) \in net' /\ PostSet(Replica, o).to = Replica
    BY <2>4 DEF PostSet
  <2>7. UNCHANGED <<view, status>>
    BY <1>4 DEF SetAtPrimary, nodeVars
  <2>8. ~Writing'
    BY <2>2 DEF Writing, Writer
  <2> QED
    BY <1>b, <2>2, <2>3, <2>5, <2>6, <2>7, <2>8 DEF CalmMesh
<1>5. ASSUME NEW o \in Ops, DeleteAtPrimary(o)
      PROVE  CalmMesh'
  <2>1. Writer(o)
    BY <1>5 DEF DeleteAtPrimary, Writer, Active
  <2>2. \A p \in Ops : ~Writer(p)'
    BY <1>5, <2>1, Moves DEF DeleteAtPrimary, Writer, Active, CalmMesh
  <2>3. ValueAt(Primary)' = None
    BY <1>5, <1>a DEF DeleteAtPrimary, handleDelete, ValueAt, TypeOK
  <2>4. net' = net \cup {ReplicateDelete(o)}
    BY <1>5, <1>a DEF DeleteAtPrimary, handleDelete
  <2>5. \A m \in net' : m.to # Primary /\ (m.to = Replica => m.value = None)
    BY <1>a, <1>c, <2>1, <2>4 DEF CalmMesh, ReplicateDelete
  <2>6. ReplicateDelete(o) \in net' /\ ReplicateDelete(o).to = Replica
    BY <2>4 DEF ReplicateDelete
  <2>7. UNCHANGED <<view, status>>
    BY <1>5 DEF DeleteAtPrimary, nodeVars
  <2>8. ~Writing'
    BY <2>2 DEF Writing, Writer
  <2> QED
    BY <1>b, <2>2, <2>3, <2>5, <2>6, <2>7, <2>8 DEF CalmMesh
<1>6. ASSUME NEW o \in Ops, GetAtPrimary(o) \/ GetAtReplica(o)
                              \/ GetAtPrimaryFails(o) \/ GetMisses(o)
      PROVE  CalmMesh'
  <2>1. \A p \in Ops : Writer(p)' => Writer(p) /\ ops'[p] = ops[p]
    <3>1. ops[o].kind = "get" /\ ops[o] \in Reading \cup Changing
      BY <1>6 DEF GetAtPrimary, GetAtReplica, GetAtPrimaryFails, GetMisses,
                  TypeOK
    <3>2. (\E r : Finish(o, r)) \/ GoTo(o, "replica")
      BY <1>6 DEF GetAtPrimary, GetAtReplica, GetAtPrimaryFails, GetMisses
    <3>3. ops'[o].kind = "get"
      BY <3>1, <3>2, Moves
    <3>4. \A p \in Ops \ {o} : ops'[p] = ops[p]
      BY <3>2, Moves
    <3> QED
      BY <3>3, <3>4 DEF Writer, Active
  <2>2. UNCHANGED <<item, view, status>>
    BY <1>6 DEF GetAtPrimary, GetAtReplica, GetAtPrimaryFails, GetMisses,
                handleGet, nodeVars
  <2>3. /\ net \subseteq net'
        /\ \A m \in net' : m \in net \/ m.to = Third
    BY <1>6 DEF GetAtPrimary, GetAtReplica, GetAtPrimaryFails, GetMisses,
                handleGet, ReplicateSet
  <2>4. Writing' => Writing
    BY <2>1 DEF Writing, Writer
  <2> QED
    BY <1>a, <1>b, <2>1, <2>2, <2>3, <2>4 DEF CalmMesh, ValueAt
<1>7. ASSUME NEW m \in net, Deliver(m)
      PROVE  CalmMesh'
  <2>1. /\ m \in Message /\ m.to # Primary /\ m.to \in Nodes
        /\ m.to = Replica => m.value = ValueAt(Primary)
    BY DEF TypeOK, CalmMesh, Message, Nodes, Owners
  <2>2. /\ net' = net \ {m}
        /\ \A n \in Nodes \ {m.to} : item'[n] = item[n]
    BY <1>7, <2>1
    DEF Deliver, handleSet, handleDelete, TypeOK, Message, Owners
  <2>3. ASSUME m.to = Replica PROVE ValueAt(Replica)' = m.value
    <3>1. CASE m.type \in {"set", "replicate"}
      <4>1. PICK e : item'[Replica] = e /\ e \in Item /\ e.value = m.value
        <5>1. m.value \in Ops /\ m.version \in Nat
          BY <2>1, <3>1 DEF Message
        <5>2. \A v \in Nat, b \in BOOLEAN :
                /\ SetWithMetadata(Replica, m.value, v, b) \in Item
                /\ SetWithMetadata(Replica, m.value, v, b).value = m.value
          BY <1>a, <5>1, EntryType DEF SetWithMetadata
        <5>3. \/ item'[Replica] = SetWithMetadata(Replica, m.value, 0, FALSE)
              \/ item'[Replica]
                   = SetWithMetadata(Replica, m.value, m.version, TRUE)
          BY <1>7, <1>a, <2>3, <3>1 DEF Deliver, handleSet, TypeOK
        <5> QED
          BY <5>1, <5>2, <5>3
      <4> QED
        BY <4>1, MeshAssumption DEF ValueAt
    <3>2. CASE m.type \in {"delete", "replicateDelete"}
      BY <1>7, <1>a, <2>1, <2>3, <3>2
      DEF Deliver, handleDelete, TypeOK, Message, ValueAt
    <3> QED
      BY <2>1, <3>1, <3>2 DEF Message
  <2>4. ValueAt(Primary)' = ValueAt(Primary)
    BY <1>a, <2>1, <2>2 DEF ValueAt
  <2>5. m.to # Replica => ValueAt(Replica)' = ValueAt(Replica)
    BY <1>a, <2>1, <2>2 DEF ValueAt
  <2>6. UNCHANGED <<view, status, ops>>
    BY <1>7 DEF Deliver, nodeVars
  <2>7. Writing' = Writing /\ \A p \in Ops : Writer(p)' = Writer(p)
    BY <2>6 DEF Writing, Writer, Active
  <2>8. \/ ValueAt(Primary)' = ValueAt(Replica)'
        \/ \E k \in net' : k.to = Replica
    BY <2>1, <2>2, <2>3, <2>4, <2>5 DEF CalmMesh
  <2>9. \A k \in net' : /\ k.to # Primary
                        /\ k.to = Replica
                             => ~Writing' /\ k.value = ValueAt(Primary)'
    BY <2>2, <2>4, <2>7 DEF CalmMesh
  <2>10. /\ \A p \in Ops : Writer(p)' => ops'[p].pc = "primary"
         /\ \A p, q \in Ops : Writer(p)' /\ Writer(q)' => p = q
    BY <2>6, <2>7 DEF CalmMesh
  <2> QED
    BY <1>b, <2>6, <2>8, <2>9, <2>10 DEF CalmMesh
<1>8. CASE Settle
  BY <1>8 DEF Settle, nodeVars, CalmMesh, Calm, Writer, Writing, Active, ValueAt
\* Everything else needs a failure or a second attempt.
<1>9. ASSUME NEW o \in Ops, SetAtPrimaryFails(o) \/ SetAtReplica(o)
                 \/ SetAtReplicaFails(o) \/ DeleteAtPrimaryFails(o)
                 \/ DeleteAtReplica(o)
      PROVE  FALSE
  BY <1>9, <1>a, <1>b
  DEF SetAtPrimaryFails, SetAtReplica, SetAtReplicaFails, DeleteAtPrimaryFails,
      DeleteAtReplica, CallFails, CalmMesh, Writer, Active
<1>10. ASSUME NEW m \in net, Lose(m)
       PROVE  FALSE
  BY <1>10, <1>b DEF Lose, TypeOK, Message, Owners, Nodes
<1>11. ASSUME NEW n \in Nodes, Crash(n) \/ Restart(n) \/ Sync(n)
       PROVE  FALSE
  <2>1. crashes = 0 /\ crashes' = 0
    BY DEF Calm
  <2> QED
    BY <1>11, <1>b, <2>1
    DEF Crash, Restart, Sync, CheckAllPeers, SyncFetch, SyncFails, SyncApply,
        SyncDone
<1>12. ASSUME NEW n \in Owners, MonitorMisses(n) \/ MonitorHears(n)
       PROVE  FALSE
  BY <1>12, <1>b
  DEF MonitorMisses, MonitorHears, Detector!Miss, Detector!Hear, Up, Owners,
      Nodes
<1> QED
  BY <1>1, <1>2, <1>3, <1>4, <1>5, <1>6, <1>7, <1>8, <1>9, <1>10, <1>11, <1>12
  DEF Next, Handler

(***************************************************************************)
(* Replication converges when nothing fails and writes are paced, for any  *)
(* number of writes, deletes and hot reads, although the replica gets each *)
(* write twice (handleAPISet, handleSet, handleInternalReplicate).         *)
(***************************************************************************)
THEOREM OwnersAgree == Spec => []CalmAgreement
<1>1. Init => CalmMesh
  BY DEF Init, CalmMesh, Nodes, Owners, Writer, Active, Idle, ValueAt
<1>2. CalmMesh => CalmAgreement
  BY DEF CalmMesh, Calm, CalmAgreement, Agreement, Quiescent
<1> QED
  BY <1>1, <1>2, CalmMeshStep, MeshTypeCorrect, PTL DEF Spec

-----------------------------------------------------------------------------
(* The mesh as a register. *)

Stored(v) == ops[v].kind = "set" /\ ops[v].pc = "done"
Reader(o) == ops[o].kind = "get" /\ Active(o)

(***************************************************************************)
(* Why reads that fall through to the replica are right: every value that  *)
(* is anywhere in the mesh was stored at the primary; the primary was      *)
(* empty when the read missed there, so every stored value was stored      *)
(* during the read.                                                        *)
(***************************************************************************)
AtomicMesh ==
  Atomic =>
    /\ \A o \in Ops : /\ ops[o].kind # "delete"
                      /\ ops[o].kind = "set" => ops[o].pc # "replica"
    /\ \A n \in Nodes : /\ item[n] # NoItem => Stored(item[n].value)
                        /\ dump[n] # NoItem => Stored(dump[n].value)
    /\ \A m \in net : /\ m.type \in {"set", "replicate"} /\ m.to # Primary
                      /\ Stored(m.value)
    /\ item[Primary] = NoItem => \A v \in Ops : ~Stored(v)
    /\ \A o \in Ops : Reader(o) =>
         /\ ValueAt(Primary) \in ops[o].seen
         /\ ops[o].pc = "replica" =>
              /\ None \in ops[o].seen
              /\ \A v \in Ops : Stored(v) => v \in ops[o].seen

\* Steps that leave the handlers and the primary's entry as they are, and bring
\* no new value into the mesh.
LEMMA AtomicMeshKept ==
  ASSUME TypeOK, AtomicMesh, [Next]_vars, UNCHANGED ops,
         item'[Primary] = item[Primary],
         Atomic => \A n \in Nodes :
           /\ item'[n] # NoItem => Stored(item'[n].value)
           /\ dump'[n] # NoItem => Stored(dump'[n].value),
         Atomic => net' \subseteq net
  PROVE  AtomicMesh'
<1> SUFFICES ASSUME Atomic PROVE AtomicMesh'
  BY SameEnvironment DEF AtomicMesh
<1>1. /\ \A o \in Ops : Stored(o)' = Stored(o) /\ Reader(o)' = Reader(o)
      /\ ValueAt(Primary)' = ValueAt(Primary)
  BY DEF Stored, Reader, Active, ValueAt
<1>2. \A n \in Nodes : /\ (item[n] # NoItem => Stored(item[n].value))'
                       /\ (dump[n] # NoItem => Stored(dump[n].value))'
  BY DEF Stored
<1>3. \A m \in net' : /\ m.type \in {"set", "replicate"} /\ m.to # Primary
                      /\ Stored(m.value)'
  BY DEF Stored, AtomicMesh
<1> QED
  BY <1>1, <1>2, <1>3 DEF AtomicMesh

LEMMA AtomicMeshStep ==
  ASSUME TypeOK, PrimaryStays, AtomicMesh, [Next]_vars
  PROVE  AtomicMesh'
<1> SUFFICES ASSUME Atomic PROVE AtomicMesh'
  BY SameEnvironment DEF AtomicMesh
<1>a. /\ Primary \in Nodes /\ Replica \in Nodes /\ Third \in Nodes
      /\ Primary \in Owners /\ Replica \in Owners
      /\ Primary # Replica /\ Third # Primary /\ Third # Replica
  BY MeshAssumption DEF Nodes, Owners
<1>b. /\ ~env.timeouts /\ "delete" \notin env.kinds
      /\ status[Primary] = "ready" /\ view[Primary] = "ALIVE" /\ Up(Primary)
      /\ dump[Primary] = NoItem /\ syncFrom[Primary] = {}
      /\ Primary \notin env.mayCrash
  BY <1>a DEF Atomic, PrimaryStays, StablePrimary, Up, TypeOK
<1>c. Atomic' = Atomic
  BY SameEnvironment
<1>1. CASE UNCHANGED vars
  BY <1>1 DEF vars, nodeVars, AtomicMesh, Atomic, StablePrimary, Stored, Reader,
              Active, ValueAt
<1>2. ASSUME NEW o \in Ops, BeginSet(o)
      PROVE  AtomicMesh'
  <2>1. /\ ops'[o].kind = "set" /\ ops'[o].pc = "primary" /\ ops[o] = Idle
        /\ \A p \in Ops \ {o} : ops'[p] = ops[p]
    BY <1>2, <1>b, Moves DEF BeginSet
  <2>2. UNCHANGED <<item, net, dump>>
    BY <1>2 DEF BeginSet, Begin, nodeVars
  <2>3. \A v \in Ops : Stored(v)' = Stored(v)
    BY <2>1 DEF Stored, Idle
  <2>4. \A p \in Ops : Reader(p)' => Reader(p) /\ ops'[p] = ops[p]
    BY <2>1 DEF Reader, Active
  <2>5. ValueAt(Primary)' = ValueAt(Primary)
    BY <2>2 DEF ValueAt
  <2>6. \A n \in Nodes : /\ (item[n] # NoItem => Stored(item[n].value))'
                         /\ (dump[n] # NoItem => Stored(dump[n].value))'
    BY <2>2, <2>3 DEF AtomicMesh, TypeOK, Item
  <2>7. \A m \in net' : /\ m.type \in {"set", "replicate"} /\ m.to # Primary
                        /\ Stored(m.value)'
    BY <2>2, <2>3 DEF AtomicMesh, TypeOK, Message
  <2> QED
    BY <1>c, <2>1, <2>2, <2>3, <2>4, <2>5, <2>6, <2>7 DEF AtomicMesh
<1>3. ASSUME NEW o \in Ops, BeginGet(o)
      PROVE  AtomicMesh'
  <2>1. /\ ops'[o].kind = "get" /\ ops'[o].pc = "primary" /\ ops[o] = Idle
        /\ \A p \in Ops \ {o} : ops'[p] = ops[p]
    BY <1>3, <1>b, Moves DEF BeginGet
  <2>2. ops'[o].seen = {ValueAt(Primary)}
    BY <1>3 DEF BeginGet, Begin, Idle, TypeOK
  <2>3. UNCHANGED <<item, net, dump>>
    BY <1>3 DEF BeginGet, Begin, nodeVars
  <2>4. \A v \in Ops : Stored(v)' = Stored(v)
    BY <2>1 DEF Stored, Idle
  <2>5. \A p \in Ops \ {o} : Reader(p)' = Reader(p)
    BY <2>1 DEF Reader, Active
  <2>6. ValueAt(Primary)' = ValueAt(Primary)
    BY <2>3 DEF ValueAt
  <2>7. \A n \in Nodes : /\ (item[n] # NoItem => Stored(item[n].value))'
                         /\ (dump[n] # NoItem => Stored(dump[n].value))'
    BY <2>3, <2>4 DEF AtomicMesh, TypeOK, Item
  <2>8. \A m \in net' : /\ m.type \in {"set", "replicate"} /\ m.to # Primary
                        /\ Stored(m.value)'
    BY <2>3, <2>4 DEF AtomicMesh, TypeOK, Message
  <2> QED
    BY <1>c, <2>1, <2>2, <2>3, <2>4, <2>5, <2>6, <2>7, <2>8 DEF AtomicMesh
<1>4. ASSUME NEW o \in Ops, SetAtPrimary(o)
      PROVE  AtomicMesh'
  <2> DEFINE entry == SetWithMetadata(Primary, o, 0, FALSE)
  <2>1. entry \in Item /\ entry.value = o
    BY <1>a, EntryType DEF SetWithMetadata
  <2>2. /\ item' = [item EXCEPT ![Primary] = entry]
        /\ net' = net \cup {PostSet(Replica, o), ReplicateSet(Replica, entry, o)}
        /\ UNCHANGED dump
    BY <1>4, <1>a DEF SetAtPrimary, handleSet, nodeVars
  <2>3. ReplicateSet(Replica, entry, o).value = o
        /\ ReplicateSet(Replica, entry, o).to = Replica
        /\ ReplicateSet(Replica, entry, o).type = "replicate"
    BY <2>1 DEF ReplicateSet
  <2> HIDE DEF entry
  <2>4. item'[Primary] # NoItem /\ ValueAt(Primary)' = o
    BY <1>a, <2>1, <2>2, MeshAssumption DEF ValueAt, TypeOK
  <2>5. /\ ops[o].kind = "set" /\ ops[o].pc = "primary" /\ FinishSet(o)
        /\ ops'[o].kind = "set" /\ ops'[o].pc = "done"
        /\ \A p \in Ops \ {o} : ops'[p].kind = ops[p].kind /\ ops'[p].pc = ops[p].pc
    BY <1>4, Moves DEF SetAtPrimary
  <2>6. \A v \in Ops : Stored(v)' = (Stored(v) \/ v = o)
    BY <2>5 DEF Stored
  <2>7. \A p \in Ops : Reader(p)' =>
          p # o /\ Reader(p) /\ ops'[p].seen = ops[p].seen \cup {o}
    <3> SUFFICES ASSUME NEW p \in Ops, Reader(p)'
                 PROVE p # o /\ Reader(p) /\ ops'[p].seen = ops[p].seen \cup {o}
      OBVIOUS
    <3>1. p # o /\ Reader(p)
      BY <2>5 DEF Reader, Active
    <3>2. ops[p] \in Reading \cup Changing
      BY DEF TypeOK
    <3> QED
      BY <2>5, <3>1, <3>2 DEF FinishSet, Reader, Reading, Changing, Handlers
  <2>8. \A n \in Nodes : /\ (item[n] # NoItem => Stored(item[n].value))'
                         /\ (dump[n] # NoItem => Stored(dump[n].value))'
    <3> SUFFICES ASSUME NEW n \in Nodes
                 PROVE  /\ item'[n] # NoItem
                             => item'[n].value \in Ops /\ Stored(item[n].value)'
                        /\ (dump[n] # NoItem => Stored(dump[n].value))'
      OBVIOUS
    <3>1. item'[n] = item[n] \/ item'[n].value = o
      BY <2>1, <2>2 DEF TypeOK
    <3>2. /\ item[n] # NoItem => item[n].value \in Ops /\ Stored(item[n].value)
          /\ dump[n] # NoItem => dump[n].value \in Ops /\ Stored(dump[n].value)
      BY DEF AtomicMesh, TypeOK, Item
    <3> QED
      BY <2>2, <2>6, <3>1, <3>2
  <2>9. \A m \in net' : /\ m.type \in {"set", "replicate"} /\ m.to # Primary
                        /\ Stored(m.value)'
    <3>1. PostSet(Replica, o).value = o /\ PostSet(Replica, o).to = Replica
          /\ PostSet(Replica, o).type = "set"
      BY DEF PostSet
    <3> QED
      BY <1>a, <2>2, <2>3, <2>6, <3>1 DEF AtomicMesh, TypeOK, Message
  <2>10. \A p \in Ops : ops'[p].kind # "delete"
                        /\ (ops'[p].kind = "set" => ops'[p].pc # "replica")
    BY <2>5 DEF AtomicMesh
  <2>11. \A p \in Ops : Reader(p)' =>
           /\ ValueAt(Primary)' \in ops'[p].seen
           /\ ops'[p].pc = "replica" =>
                /\ None \in ops'[p].seen
                /\ \A v \in Ops : Stored(v)' => v \in ops'[p].seen
    BY <2>4, <2>5, <2>6, <2>7 DEF AtomicMesh
  <2> QED
    BY <2>4, <2>8, <2>9, <2>10, <2>11 DEF AtomicMesh
<1>5. ASSUME NEW o \in Ops, GetAtPrimary(o) \/ GetAtReplica(o) \/ GetMisses(o)
      PROVE  AtomicMesh'
  <2>1. /\ ops[o].kind = "get" /\ Active(o)
        /\ ops'[o].kind = "get" /\ ops'[o].pc = "done"
        /\ \A p \in Ops \ {o} : ops'[p] = ops[p]
    BY <1>5, Moves DEF GetAtPrimary, GetAtReplica, GetMisses, Active
  <2>2. UNCHANGED <<item, dump>>
    BY <1>5 DEF GetAtPrimary, GetAtReplica, GetMisses, handleGet, nodeVars
  <2>3. \A v \in Ops : Stored(v)' = Stored(v)
    BY <2>1 DEF Stored
  <2>4. \A p \in Ops : Reader(p)' => Reader(p) /\ ops'[p] = ops[p]
    BY <2>1 DEF Reader, Active
  <2>5. ValueAt(Primary)' = ValueAt(Primary)
    BY <2>2 DEF ValueAt
  <2>6. \A n \in Nodes : /\ (item[n] # NoItem => Stored(item[n].value))'
                         /\ (dump[n] # NoItem => Stored(dump[n].value))'
    BY <2>2, <2>3 DEF AtomicMesh, TypeOK, Item
  <2>7. \A m \in net' : \/ m \in net
                        \/ \E n \in Owners : item[n] # NoItem
                             /\ m = ReplicateSet(Third, item[n], o)
    BY <1>5, <1>a DEF GetAtPrimary, GetAtReplica, GetMisses, handleGet
  <2>8. \A m \in net' : /\ m.type \in {"set", "replicate"} /\ m.to # Primary
                        /\ Stored(m.value)'
    <3>1. \A m \in net : /\ m.type \in {"set", "replicate"} /\ m.to # Primary
                         /\ Stored(m.value)'
      BY <2>3 DEF AtomicMesh, TypeOK, Message
    <3>2. ASSUME NEW n \in Owners, item[n] # NoItem,
                 NEW m, m = ReplicateSet(Third, item[n], o)
          PROVE  /\ m.type \in {"set", "replicate"} /\ m.to # Primary
                 /\ Stored(m.value)'
      BY <1>a, <2>2, <2>6, <3>2 DEF ReplicateSet, Owners
    <3> QED
      BY <2>7, <3>1, <3>2
  <2> QED
    BY <2>1, <2>2, <2>3, <2>4, <2>5, <2>6, <2>8 DEF AtomicMesh
<1>6. ASSUME NEW o \in Ops, GetAtPrimaryFails(o)
      PROVE  AtomicMesh'
  <2>1. /\ ops[o].kind = "get" /\ ops[o].pc = "primary" /\ item[Primary] = NoItem
        /\ ops'[o].kind = "get" /\ ops'[o].pc = "replica"
        /\ ops'[o].seen = ops[o].seen
        /\ \A p \in Ops \ {o} : ops'[p] = ops[p]
    BY <1>6, <1>b, Moves DEF GetAtPrimaryFails
  <2>2. UNCHANGED <<item, net, dump>>
    BY <1>6 DEF GetAtPrimaryFails, nodeVars
  <2>3. \A v \in Ops : Stored(v)' = Stored(v)
    BY <2>1 DEF Stored
  <2>4. /\ Reader(o)
        /\ \A p \in Ops \ {o} : Reader(p)' => Reader(p) /\ ops'[p] = ops[p]
    BY <2>1 DEF Reader, Active
  <2>5. ValueAt(Primary)' = ValueAt(Primary) /\ ValueAt(Primary) = None
    BY <2>1, <2>2 DEF ValueAt
  <2>6. \A n \in Nodes : /\ (item[n] # NoItem => Stored(item[n].value))'
                         /\ (dump[n] # NoItem => Stored(dump[n].value))'
    BY <2>2, <2>3 DEF AtomicMesh, TypeOK, Item
  <2>7. \A m \in net' : /\ m.type \in {"set", "replicate"} /\ m.to # Primary
                        /\ Stored(m.value)'
    BY <2>2, <2>3 DEF AtomicMesh, TypeOK, Message
  <2>8. None \in ops[o].seen /\ \A v \in Ops : ~Stored(v)
    BY <2>1, <2>4, <2>5 DEF AtomicMesh
  <2> QED
    BY <2>1, <2>2, <2>3, <2>4, <2>5, <2>6, <2>7, <2>8 DEF AtomicMesh
<1>7. ASSUME NEW o \in Ops, SetAtPrimaryFails(o) \/ SetAtReplica(o)
                 \/ SetAtReplicaFails(o) \/ DeleteAtPrimary(o)
                 \/ DeleteAtPrimaryFails(o) \/ DeleteAtReplica(o)
                 \/ BeginDelete(o)
      PROVE  FALSE
  BY <1>7, <1>b
  DEF SetAtPrimaryFails, SetAtReplica, SetAtReplicaFails, DeleteAtPrimary,
      DeleteAtPrimaryFails, DeleteAtReplica, BeginDelete, Begin, CallFails,
      AtomicMesh
<1>8. ASSUME NEW m \in net, Deliver(m)
      PROVE  AtomicMesh'
  <2>1. /\ m \in Message /\ m.type \in {"set", "replicate"} /\ m.to # Primary
        /\ Stored(m.value) /\ m.to \in Nodes /\ m.value \in Ops
        /\ m.version \in Nat
    BY DEF TypeOK, AtomicMesh, Message, Nodes, Owners
  <2>2. m.type = "set" => m.to = Replica
    BY <2>1 DEF Message, Owners
  <2>3. /\ net' = net \ {m} /\ UNCHANGED <<ops, dump>>
        /\ \/ item' = [item EXCEPT ![m.to] =
                         SetWithMetadata(m.to, m.value, 0, FALSE)]
           \/ item' = [item EXCEPT ![m.to] =
                         SetWithMetadata(m.to, m.value, m.version, TRUE)]
    BY <1>8, <2>1, <2>2 DEF Deliver, handleSet, nodeVars
  <2>4. PICK e : item' = [item EXCEPT ![m.to] = e] /\ e.value = m.value
    <3>1. /\ SetWithMetadata(m.to, m.value, 0, FALSE).value = m.value
          /\ SetWithMetadata(m.to, m.value, m.version, TRUE).value = m.value
      BY DEF SetWithMetadata
    <3> QED
      BY <2>3, <3>1
  <2>5. /\ item'[Primary] = item[Primary]
        /\ \A n \in Nodes : item'[n] = item[n] \/ item'[n].value = m.value
    BY <1>a, <2>1, <2>4 DEF TypeOK
  <2>6. \A n \in Nodes : /\ item'[n] # NoItem => Stored(item'[n].value)
                         /\ dump'[n] # NoItem => Stored(dump'[n].value)
    BY <2>1, <2>3, <2>5 DEF AtomicMesh
  <2> QED
    BY <2>3, <2>5, <2>6, AtomicMeshKept
<1>9. ASSUME NEW m \in net, Lose(m)
      PROVE  AtomicMesh'
  BY <1>9, AtomicMeshKept DEF Lose, nodeVars, AtomicMesh
<1>10. ASSUME NEW n \in Nodes, Crash(n) \/ Restart(n) \/ Sync(n)
       PROVE  AtomicMesh'
  <2>1. UNCHANGED <<ops, net>> /\ item'[Primary] = item[Primary]
    BY <1>10, <1>a, <1>b
    DEF TypeOK, Crash, Restart, Sync, CheckAllPeers, SyncFetch, SyncFails,
        SyncApply, SyncDone
  <2>2. ASSUME NEW k \in Nodes, item'[k] # NoItem
        PROVE  Stored(item'[k].value)
    <3>1. \/ item'[k] = item[k]
          \/ dump[k] # NoItem /\ item'[k].value = dump[k].value
      BY <1>10, <2>2
      DEF TypeOK, Crash, Restart, Sync, CheckAllPeers, SyncFetch, SyncFails,
          SyncApply, SyncDone, SetWithMetadata
    <3> QED
      BY <2>2, <3>1 DEF AtomicMesh
  <2>3. ASSUME NEW k \in Nodes, dump'[k] # NoItem
        PROVE  Stored(dump'[k].value)
    <3>1. dump'[k] = dump[k] \/ \E p \in Nodes : dump'[k] = item[p]
      BY <1>10, <2>3
      DEF TypeOK, Crash, Restart, Sync, CheckAllPeers, SyncFetch, SyncFails,
          SyncApply, SyncDone
    <3> QED
      BY <2>3, <3>1 DEF AtomicMesh
  <2> QED
    BY <2>1, <2>2, <2>3, AtomicMeshKept
<1>11. ASSUME NEW n \in Owners, MonitorMisses(n) \/ MonitorHears(n)
       PROVE  AtomicMesh'
  BY <1>11, AtomicMeshKept DEF MonitorMisses, MonitorHears, nodeVars, AtomicMesh
<1>12. CASE Settle
  BY <1>12, AtomicMeshKept DEF Settle, nodeVars, AtomicMesh
<1> QED
  BY <1>1, <1>2, <1>3, <1>4, <1>5, <1>6, <1>7, <1>8, <1>9, <1>10, <1>11, <1>12
  DEF Next, Handler

LEMMA AtomicMeshInvariant == Spec => []AtomicMesh
<1>1. Init => AtomicMesh
  BY MeshAssumption
  DEF Init, AtomicMesh, Idle, Stored, Reader, Active, ValueAt, Nodes
<1> QED
  BY <1>1, AtomicMeshStep, MeshTypeCorrect, PrimaryStaysInvariant, PTL DEF Spec

\* What the register sees of a handler.
Shown(o) ==
  [kind   |-> ops[o].kind,
   pc     |-> IF Active(o) THEN "busy" ELSE ops[o].pc,
   result |-> ops[o].result,
   seen   |-> ops[o].seen]

\* A handler that answers has nothing to remember.
LEMMA ShownDone ==
  ASSUME NEW o \in Ops, NEW r, Atomic, ops'[o] = Done(o, r)
  PROVE  Shown(o)' = Cell!Answered(o, r)
<1>1. ShownCalls[o].kind = ops[o].kind
  BY DEF ShownCalls
<1>2. /\ Done(o, r).kind = ops[o].kind /\ Done(o, r).pc = "done"
      /\ Done(o, r).result = r /\ Done(o, r).seen = {}
  BY DEF Done, Idle
<1>3. Shown(o)' = [kind |-> ops[o].kind, pc |-> "done", result |-> r, seen |-> {}]
  BY <1>2 DEF Shown, Active
<1> QED
  BY <1>1, <1>3 DEF Cell!Answered

(***************************************************************************)
(* While the primary stays, calls are answered and nothing is deleted, the *)
(* mesh is a register to any number of concurrent clients: a set takes     *)
(* effect when the primary stores it, and a get returns a value that the   *)
(* primary had during the get, also when it was answered by a replica that *)
(* is behind, that crashed and came back, or that pulled from a stale      *)
(* third copy (RouteGet, handleAPISet, SyncFromPeer).                      *)
(***************************************************************************)
THEOREM MeshIsRegister == Spec => ImplementsRegister
<1>1. Init => Cell!Init
  <2> SUFFICES ASSUME Init PROVE Cell!Init
    OBVIOUS
  <2>1. ShownCell = None
    BY DEF Init, ShownCell, ValueAt, Nodes
  <2>2. \A o \in Ops : ShownCalls[o] = Cell!NotCalled
    BY DEF Init, ShownCalls, Unseen, Idle, Active, Cell!NotCalled
  <2> QED
    BY <2>1, <2>2 DEF Cell!Init, ShownCalls
<1>2. TypeOK /\ PrimaryStays /\ AtomicMesh /\ [Next]_vars
        => [Cell!Next]_<<ShownCell, ShownCalls>>
  <2> SUFFICES ASSUME TypeOK, PrimaryStays, AtomicMesh, [Next]_vars
               PROVE  [Cell!Next]_<<ShownCell, ShownCalls>>
    OBVIOUS
  <2>a. /\ Primary \in Nodes /\ Replica \in Nodes
        /\ Primary \in Owners /\ Replica \in Owners /\ Primary # Replica
    BY MeshAssumption DEF Nodes, Owners
  <2>1. CASE ~Atomic
    <3>1. ~Atomic'
      BY <2>1, SameEnvironment
    <3> QED
      BY <2>1, <3>1 DEF ShownCell, ShownCalls, Unseen
  <2>2. CASE Atomic
    <3>a. Atomic'
      BY <2>2, SameEnvironment
    <3>b. /\ ~env.timeouts /\ "delete" \notin env.kinds
          /\ status[Primary] = "ready" /\ view[Primary] = "ALIVE" /\ Up(Primary)
          /\ dump[Primary] = NoItem
      BY <2>2, <2>a DEF Atomic, PrimaryStays, StablePrimary, Up, TypeOK
    <3>c. /\ ShownCell = ValueAt(Primary) /\ ShownCell' = ValueAt(Primary)'
          /\ ShownCalls = [o \in Ops |-> Shown(o)]
          /\ ShownCalls' = [o \in Ops |-> Shown(o)']
      BY <2>2, <3>a DEF ShownCell, ShownCalls, Shown
    <3>d. ASSUME UNCHANGED ops, item'[Primary] = item[Primary]
          PROVE  [Cell!Next]_<<ShownCell, ShownCalls>>
      BY <3>c, <3>d DEF ValueAt, Shown, Active
    <3>e. ASSUME NEW o \in Ops, NEW r \in ops[o].seen, Reader(o),
                 UNCHANGED item, Finish(o, r)
          PROVE  Cell!Next
      <4>1. /\ ops'[o] = Done(o, r)
            /\ \A p \in Ops \ {o} : ops'[p] = ops[p]
        BY <3>e DEF Finish, TypeOK
      <4>2. Shown(o)' = Cell!Answered(o, r)
        BY <2>2, <4>1, ShownDone
      <4>3. \A p \in Ops \ {o} : Shown(p)' = Shown(p)
        BY <4>1 DEF Shown, Active
      <4>4. ShownCalls' = [ShownCalls EXCEPT ![o] = Cell!Answered(o, r)]
        BY <3>c, <4>2, <4>3
      <4>5. ShownCalls[o].seen = ops[o].seen /\ Cell!Reading(o)
        BY <3>c, <3>e DEF Shown, Reader, Cell!Reading
      <4>6. ShownCell' = ShownCell
        BY <3>c, <3>e DEF ValueAt
      <4> QED
        BY <4>4, <4>5, <4>6 DEF Cell!Next, Cell!Get
    <3>1. CASE UNCHANGED vars
      BY <3>1, <3>d DEF vars
    <3>2. ASSUME NEW o \in Ops, BeginSet(o) \/ BeginGet(o)
          PROVE  Cell!Next
      <4>1. PICK kind \in {"set", "get"} : Begin(o, kind, "primary")
        BY <3>2, <3>b DEF BeginSet, BeginGet
      <4>2. /\ ops'[o].kind = kind /\ ops'[o].pc = "primary"
            /\ ops'[o].result = None /\ ops[o] = Idle
            /\ \A p \in Ops \ {o} : ops'[p] = ops[p]
        BY <4>1, Moves
      <4>3. ops'[o].seen = IF kind = "get" THEN {ValueAt(Primary)} ELSE {}
        BY <2>2, <4>1 DEF Begin, Idle, TypeOK
      <4>4. Shown(o)' = [kind |-> kind, pc |-> "busy", result |-> None,
                         seen |-> IF kind = "get" THEN {ShownCell} ELSE {}]
        BY <3>c, <4>2, <4>3 DEF Shown, Active
      <4>5. \A p \in Ops \ {o} : Shown(p)' = Shown(p)
        BY <4>2 DEF Shown, Active
      <4>6. ShownCalls[o] = Cell!NotCalled
        <5>1. Shown(o) = [kind |-> None, pc |-> "idle", result |-> None,
                          seen |-> {}]
          BY <4>2 DEF Shown, Active, Idle
        <5> QED
          BY <3>c, <5>1 DEF Cell!NotCalled
      <4>7. ShownCell' = ShownCell
        BY <3>c, <4>1 DEF Begin, ValueAt
      <4>8. ShownCalls' = [ShownCalls EXCEPT ![o] =
              [kind |-> kind, pc |-> "busy", result |-> None,
               seen |-> IF kind = "get" THEN {ShownCell} ELSE {}]]
        BY <3>c, <4>4, <4>5
      <4>9. Cell!Invoke(o, kind)
        BY <4>6, <4>7, <4>8 DEF Cell!Invoke
      <4> QED
        BY <4>9 DEF Cell!Next
    <3>3. ASSUME NEW o \in Ops, SetAtPrimary(o)
          PROVE  Cell!Next
      <4>1. ShownCell' = o
        BY <3>3, <3>c, <2>a, EntryType, MeshAssumption
        DEF SetAtPrimary, handleSet, SetWithMetadata, ValueAt, TypeOK
      <4>2. /\ ops[o].kind = "set" /\ ops[o].pc = "primary" /\ FinishSet(o)
            /\ ops'[o] = Done(o, "stored")
        BY <3>3 DEF SetAtPrimary, FinishSet
      <4>3. Shown(o)' = Cell!Answered(o, "stored")
        BY <2>2, <4>2, ShownDone
      <4>4. ASSUME NEW p \in Ops \ {o}
            PROVE  Shown(p)' = IF Cell!Reading(p)
                               THEN [Shown(p) EXCEPT !.seen = @ \cup {o}]
                               ELSE Shown(p)
        <5>1. /\ ops'[p].kind = ops[p].kind /\ ops'[p].pc = ops[p].pc
              /\ ops'[p].result = ops[p].result
          BY <4>2, Moves
        <5>2. Cell!Reading(p) <=> Reader(p)
          <6>1. ops[p] \in Reading \cup Changing
            BY DEF TypeOK
          <6>2. ShownCalls[p] = Shown(p)
            BY <3>c
          <6>3. Shown(p).kind = ops[p].kind
            BY DEF Shown
          <6>4. Shown(p).pc = "busy" <=> Active(p)
            BY <6>1 DEF Shown, Active, Reading, Changing, Handlers
          <6> QED
            BY <6>2, <6>3, <6>4 DEF Cell!Reading, Reader
        <5>3. ops'[p].seen = IF Reader(p) THEN ops[p].seen \cup {o}
                             ELSE ops[p].seen
          <6>1. ops[p] \in Reading \cup Changing
            BY DEF TypeOK
          <6> QED
            BY <2>2, <4>2, <6>1 DEF FinishSet, Reader, Reading, Changing, Handlers
        <5> QED
          BY <5>1, <5>2, <5>3 DEF Shown, Active
      <4>5. ShownCalls[o].kind = "set" /\ ShownCalls[o].pc = "busy"
        BY <3>c, <4>2 DEF Shown, Active
      <4>6. Cell!Set(o)
        BY <3>c, <4>1, <4>3, <4>4, <4>5 DEF Cell!Set
      <4> QED
        BY <4>6 DEF Cell!Next
    <3>4. ASSUME NEW o \in Ops, GetAtPrimary(o)
          PROVE  Cell!Next
      <4>1. Reader(o) /\ ValueAt(Primary) \in ops[o].seen
        BY <2>2, <3>4 DEF GetAtPrimary, Reader, Active, AtomicMesh
      <4>2. ValueAt(Primary) = item[Primary].value
        BY <3>4 DEF GetAtPrimary, handleGet, ValueAt
      <4> QED
        BY <3>4, <3>e, <4>1, <4>2 DEF GetAtPrimary, handleGet
    <3>5. ASSUME NEW o \in Ops, GetAtReplica(o)
          PROVE  Cell!Next
      <4>1. Reader(o) /\ ops[o].pc = "replica" /\ item[Replica] # NoItem
        BY <3>5 DEF GetAtReplica, Reader, Active, handleGet
      <4>2. item[Replica].value \in Ops /\ Stored(item[Replica].value)
        BY <2>2, <2>a, <4>1 DEF AtomicMesh, TypeOK, Item
      <4>3. item[Replica].value \in ops[o].seen
        BY <2>2, <4>1, <4>2 DEF AtomicMesh
      <4> QED
        BY <3>5, <3>e, <4>1, <4>3 DEF GetAtReplica, handleGet
    <3>6. ASSUME NEW o \in Ops, GetMisses(o)
          PROVE  Cell!Next
      <4>1. Reader(o) /\ None \in ops[o].seen
        BY <2>2, <3>6 DEF GetMisses, Reader, Active, AtomicMesh
      <4> QED
        BY <3>6, <3>e, <4>1 DEF GetMisses
    <3>7. ASSUME NEW o \in Ops, GetAtPrimaryFails(o)
          PROVE  [Cell!Next]_<<ShownCell, ShownCalls>>
      <4>1. /\ ops[o].pc = "primary" /\ GoTo(o, "replica") /\ UNCHANGED item
        BY <3>7 DEF GetAtPrimaryFails
      <4>2. ops[o] \in Reading \cup Changing
        BY DEF TypeOK
      <4>3. Shown(o)' = Shown(o)
        BY <4>1, <4>2 DEF GoTo, Shown, Active, TypeOK, Reading, Changing, Handlers
      <4>4. \A p \in Ops \ {o} : Shown(p)' = Shown(p)
        BY <4>1, Moves DEF Shown, Active
      <4> QED
        BY <3>c, <4>1, <4>3, <4>4 DEF ValueAt
    <3>8. ASSUME NEW o \in Ops, SetAtPrimaryFails(o) \/ SetAtReplica(o)
                     \/ SetAtReplicaFails(o) \/ DeleteAtPrimary(o)
                     \/ DeleteAtPrimaryFails(o) \/ DeleteAtReplica(o)
                     \/ BeginDelete(o)
          PROVE  FALSE
      BY <2>2, <3>8, <3>b
      DEF SetAtPrimaryFails, SetAtReplica, SetAtReplicaFails, DeleteAtPrimary,
          DeleteAtPrimaryFails, DeleteAtReplica, BeginDelete, Begin, CallFails,
          AtomicMesh
    <3>9. ASSUME NEW m \in net, Deliver(m) \/ Lose(m)
          PROVE  [Cell!Next]_<<ShownCell, ShownCalls>>
      <4>1. m \in Message /\ m.to # Primary /\ m.type \in {"set", "replicate"}
        BY <2>2 DEF AtomicMesh, TypeOK
      <4>2. UNCHANGED ops /\ item'[Primary] = item[Primary]
        BY <3>9, <2>a, <4>1 DEF Deliver, Lose, handleSet, TypeOK
      <4> QED
        BY <3>d, <4>2
    <3>10. ASSUME NEW n \in Nodes, Crash(n) \/ Restart(n) \/ Sync(n)
           PROVE  [Cell!Next]_<<ShownCell, ShownCalls>>
      <4>1. UNCHANGED ops /\ item'[Primary] = item[Primary]
        BY <2>2, <3>10, <2>a, <3>b
        DEF TypeOK, Crash, Restart, Sync, CheckAllPeers, SyncFetch, SyncFails,
            SyncApply, SyncDone, Atomic, StablePrimary
      <4> QED
        BY <3>d, <4>1
    <3>11. ASSUME \/ \E n \in Owners : MonitorMisses(n) \/ MonitorHears(n)
                  \/ Settle
           PROVE  [Cell!Next]_<<ShownCell, ShownCalls>>
      BY <3>11, <3>d DEF MonitorMisses, MonitorHears, Settle
    <3> QED
      BY <3>1, <3>2, <3>3, <3>4, <3>5, <3>6, <3>7, <3>8, <3>9, <3>10, <3>11
      DEF Next, Handler
  <2> QED
    BY <2>1, <2>2
<1> QED
  BY <1>1, <1>2, MeshTypeCorrect, PrimaryStaysInvariant, AtomicMeshInvariant, PTL
  DEF Spec, ImplementsRegister, Cell!Spec

-----------------------------------------------------------------------------
(* A settled value survives single crashes. *)

Other(n) == IF n = Primary THEN Replica ELSE Primary

\* No two nodes are ill at a time: a node is down, synchronising, or back and
\* not yet known as ALIVE.
OneIll == \A m, n \in Nodes : ~Well(m) /\ ~Well(n) => m = n

\* Without hot reads nothing comes to the third node.
NoThirdCopy == item[Third] = NoItem /\ \A m \in net : m.to # Third

(***************************************************************************)
(* A settled value v is at every owner that is ready, an owner that is not *)
(* can hold or have pulled nothing else, and the pull that will bring v    *)
(* back is still to come, until it is applied.                             *)
(***************************************************************************)
Saved(v) ==
  \A n \in Owners :
    /\ ValueAt(n) \in {v, None}
    /\ dump[n] = NoItem \/ dump[n].value = v
    /\ status[n] = "ready" => ValueAt(n) = v
    /\ status[n] = "syncing" => \/ Other(n) \in syncFrom[n]
                                \/ dump[n] # NoItem
                                \/ ValueAt(n) = v

ShelteredMesh ==
  /\ settled # None => Sheltered /\ Quiescent /\ Saved(settled)
  /\ Sheltered => OneIll /\ NoThirdCopy

\* Only a crash makes a node ill when calls are answered.
LEMMA Illness ==
  ASSUME TypeOK, Sheltered, [Next]_vars, NEW m \in Nodes, Well(m), ~Well(m)'
  PROVE  Crash(m)
<1>1. CASE UNCHANGED <<status, crashes>>
  <2>1. m \in Owners /\ view[m] = "ALIVE" /\ view'[m] # "ALIVE"
        /\ status[m] = "ready"
    BY <1>1 DEF Well
  <2>2. PICK n \in Owners : MonitorMisses(n) \/ MonitorHears(n)
    BY <2>1, ViewSteps
  <2>3. CASE MonitorHears(n)
    BY <2>1, <2>3 DEF MonitorHears, Detector!Hear, TypeOK
  <2>4. CASE MonitorMisses(n)
    BY <2>1, <2>4 DEF MonitorMisses, Detector!Miss, TypeOK, Sheltered
  <2> QED
    BY <2>2, <2>3, <2>4
<1>2. ASSUME NEW n \in Nodes,
             Crash(n) \/ Restart(n) \/ CheckAllPeers(n) \/ SyncDone(n)
      PROVE  Crash(m)
  <2>1. status[m] = "ready" /\ status'[m] # "ready"
    BY <1>2 DEF Well, Crash, Restart, CheckAllPeers, SyncDone
  <2> QED
    BY <1>2, <2>1 DEF TypeOK, Crash, Restart, CheckAllPeers, SyncDone
<1> QED
  BY <1>1, <1>2, StatusSteps

LEMMA OneIllStep ==
  ASSUME TypeOK, Sheltered, OneIll, [Next]_vars
  PROVE  OneIll'
<1> SUFFICES ASSUME NEW m \in Nodes, NEW n \in Nodes, ~Well(m)', ~Well(n)', m # n
             PROVE  FALSE
  BY DEF OneIll
<1>1. ASSUME NEW k \in Nodes, NEW l \in Nodes, k # l, Crash(k), ~Well(l)'
      PROVE  FALSE
  <2>1. Well(l)
    BY <1>1 DEF Crash, Sheltered
  <2>2. Crash(l)
    BY <1>1, <2>1, Illness
  <2> QED
    BY <1>1, <2>2 DEF Crash, Up, TypeOK
<1>2. ~(Well(m) /\ Crash(m)) /\ ~(Well(n) /\ Crash(n))
  BY <1>1
<1>3. ~Well(m) /\ ~Well(n)
  BY <1>2, Illness
<1> QED
  BY <1>3 DEF OneIll

\* What the delivery of a message sends goes to the replica.
LEMMA NetDelivery ==
  ASSUME TypeOK, NEW m \in net, Deliver(m) \/ Lose(m)
  PROVE  \A k \in net' : k \in net \/ k.to = Replica
<1>1. m.type \in {"set", "delete", "replicate", "replicateDelete"}
  BY DEF TypeOK, Message
<1>2. \A entry, p : /\ ReplicateSet(Replica, entry, p).to = Replica
                   /\ ReplicateDelete(p).to = Replica
  BY DEF ReplicateSet, ReplicateDelete
<1>3. CASE Lose(m)
  BY <1>3 DEF Lose
<1>4. CASE Deliver(m) /\ m.type = "set"
  <2>1. PICK others : others \subseteq net
                        /\ handleSet(m.to, m.value, m.op, others)
    BY <1>4 DEF Deliver
  <2> QED
    BY <1>2, <2>1 DEF handleSet
<1>5. CASE Deliver(m) /\ m.type = "delete"
  BY <1>2, <1>5 DEF Deliver, handleDelete
<1>6. CASE Deliver(m) /\ m.type \in {"replicate", "replicateDelete"}
  BY <1>6 DEF Deliver
<1> QED
  BY <1>1, <1>3, <1>4, <1>5, <1>6

\* What the gateway's handlers leave under way goes to the replica, too.
LEMMA GatewaySends ==
  ASSUME Sheltered, NEW o \in Ops,
         BeginSet(o) \/ BeginDelete(o) \/ BeginGet(o) \/ Handler(o)
  PROVE  \A m \in net' : m \in net \/ m.to = Replica
<1>1. \A entry, p : /\ ReplicateSet(Replica, entry, p).to = Replica
                   /\ ReplicateDelete(p).to = Replica
                   /\ PostSet(Replica, p).to = Replica
  BY DEF ReplicateSet, ReplicateDelete, PostSet
<1>2. CASE SetAtPrimary(o)
  BY <1>1, <1>2 DEF SetAtPrimary, handleSet
<1>3. CASE ~SetAtPrimary(o)
  BY <1>1, <1>3
  DEF Sheltered, BeginSet, BeginDelete, BeginGet, Begin, Handler,
      SetAtPrimaryFails, SetAtReplica, SetAtReplicaFails, DeleteAtPrimary,
      DeleteAtPrimaryFails, DeleteAtReplica, GetAtPrimary, GetAtPrimaryFails,
      GetAtReplica, GetMisses, handleSet, handleDelete, handleGet, CallFails
<1> QED
  BY <1>2, <1>3

LEMMA NoThirdCopyStep ==
  ASSUME TypeOK, Sheltered, NoThirdCopy, [Next]_vars
  PROVE  NoThirdCopy'
<1>a. /\ Third \in Nodes /\ Third \notin Owners /\ Third # Primary
      /\ Third # Replica /\ ~env.hotReads /\ ~env.timeouts
  BY MeshAssumption DEF Nodes, Owners, Sheltered
<1>1. CASE UNCHANGED vars
  BY <1>1 DEF vars, NoThirdCopy
<1>2. ASSUME NEW o \in Ops,
             BeginSet(o) \/ BeginDelete(o) \/ BeginGet(o) \/ Handler(o)
      PROVE  NoThirdCopy'
  <2>1. item'[Third] = item[Third]
    BY <1>2, <1>a
    DEF TypeOK, BeginSet, BeginDelete, BeginGet, Begin, Handler, SetAtPrimary,
        SetAtPrimaryFails, SetAtReplica, SetAtReplicaFails, DeleteAtPrimary,
        DeleteAtPrimaryFails, DeleteAtReplica, GetAtPrimary, GetAtPrimaryFails,
        GetAtReplica, GetMisses, handleSet, handleDelete, handleGet
  <2>3. \A m \in net' : m \in net \/ m.to = Replica
    BY <1>2, GatewaySends
  <2> QED
    BY <1>a, <2>1, <2>3 DEF NoThirdCopy
<1>3. ASSUME NEW m \in net, Deliver(m) \/ Lose(m)
      PROVE  NoThirdCopy'
  <2>1. m \in Message /\ m.to # Third
    BY <1>3 DEF TypeOK, NoThirdCopy
  <2>2. m.type \in {"set", "delete", "replicate", "replicateDelete"}
    BY <2>1 DEF Message
  <2>3. item'[Third] = item[Third]
    BY <1>3, <1>a, <2>1, <2>2 DEF TypeOK, Deliver, Lose, handleSet, handleDelete
  <2>4. \A k \in net' : k \in net \/ k.to = Replica
    BY <1>3, NetDelivery
  <2> QED
    BY <1>a, <2>3, <2>4 DEF NoThirdCopy
<1>4. ASSUME NEW n \in Nodes, Crash(n) \/ Restart(n) \/ Sync(n)
      PROVE  NoThirdCopy'
  BY <1>4, <1>a
  DEF TypeOK, NoThirdCopy, Crash, Restart, Sync, CheckAllPeers, SyncFetch,
      SyncFails, SyncApply, SyncDone
<1>5. ASSUME \/ \E n \in Owners : MonitorMisses(n) \/ MonitorHears(n)
             \/ Settle
      PROVE  NoThirdCopy'
  BY <1>5 DEF NoThirdCopy, MonitorMisses, MonitorHears, Settle
<1> QED
  BY <1>1, <1>2, <1>3, <1>4, <1>5 DEF Next

LEMMA SavedSettle ==
  ASSUME TypeOK, Settle
  PROVE  /\ Sheltered /\ Quiescent' /\ settled' # None
         /\ Saved(settled)'
<1>a. Owners \subseteq Nodes /\ Primary \in Owners /\ Replica \in Owners
      /\ \A n \in Owners : n = Primary \/ n = Replica
  BY DEF Owners, Nodes
<1>1. Sheltered /\ Quiescent'
  BY DEF Settle, Quiescent, Writing, Active
<1>2. settled' \in Ops
  BY <1>a DEF Settle, TypeOK, Item
<1>3. ASSUME NEW n \in Owners
      PROVE  ValueAt(n)' = settled' /\ status'[n] = "ready" /\ dump'[n] = NoItem
  BY <1>a DEF Settle, Well, nodeVars, TypeOK, ValueAt
<1>4. Saved(settled)'
  BY <1>3 DEF Saved
<1> QED
  BY <1>1, <1>2, <1>4, MeshAssumption

\* Nothing but reads is under way after a settled value, and reads of the
\* gateway change no entry.
LEMMA SavedGateway ==
  ASSUME TypeOK, ShelteredMesh, settled # None, settled' # None, NEW o \in Ops,
         BeginSet(o) \/ BeginDelete(o) \/ BeginGet(o) \/ Handler(o)
  PROVE  /\ UNCHANGED <<item, net, status, dump, syncFrom, settled>>
         /\ Quiescent'
<1>a. Sheltered /\ net = {} /\ ~Writing
  BY DEF ShelteredMesh, Quiescent
<1>1. ~(ops[o].kind # "get" /\ ops[o].pc \in {"primary", "replica"})
  BY <1>a DEF Writing, Active
<1>2. \/ BeginGet(o) \/ GetAtPrimary(o) \/ GetAtPrimaryFails(o)
      \/ GetAtReplica(o) \/ GetMisses(o)
  BY <1>1
  DEF BeginSet, BeginDelete, Handler, SetAtPrimary, SetAtPrimaryFails,
      SetAtReplica, SetAtReplicaFails, DeleteAtPrimary, DeleteAtPrimaryFails,
      DeleteAtReplica
<1>3. UNCHANGED <<item, net, status, dump, syncFrom, settled>>
  BY <1>2, <1>a
  DEF BeginGet, Begin, GetAtPrimary, GetAtPrimaryFails, GetAtReplica, GetMisses,
      handleGet, nodeVars, Sheltered
<1>4. ops'[o].kind = "get" /\ \A p \in Ops \ {o} : ops'[p] = ops[p]
  BY <1>2, Moves
  DEF BeginGet, GetAtPrimary, GetAtPrimaryFails, GetAtReplica, GetMisses
<1>5. ~Writing'
  BY <1>a, <1>4 DEF Writing, Active
<1> QED
  BY <1>a, <1>3, <1>5 DEF Quiescent

LEMMA SavedNodes ==
  ASSUME TypeOK, ShelteredMesh, settled # None, NEW k \in Nodes,
         Crash(k) \/ Restart(k) \/ Sync(k)
  PROVE  Quiescent' /\ settled' = settled /\ Saved(settled)'
<1>a. /\ Sheltered /\ Quiescent /\ Saved(settled) /\ OneIll /\ NoThirdCopy
      /\ ~env.timeouts /\ env.oneAtATime
  BY DEF ShelteredMesh, Sheltered
<1>b. UNCHANGED <<settled, net, ops, view, env>>
  BY DEF Crash, Restart, Sync, CheckAllPeers, SyncFetch, SyncFails, SyncApply,
         SyncDone
<1>c. Quiescent'
  BY <1>a, <1>b DEF Quiescent, Writing, Active
<1>d. settled \in Ops /\ settled # None
  BY DEF TypeOK
<1>e. /\ Owners \subseteq Nodes
      /\ \A n \in Owners : Other(n) \in Owners /\ Other(n) # n
      /\ \A n \in Nodes \ {Third} : n \in Owners
      /\ \A n \in Nodes : n # Third => n \in Owners
      /\ \A n \in Owners : n # Third
      /\ \A n \in Owners, p \in Nodes : p \in {n, Other(n), Third}
  BY MeshAssumption DEF Owners, Nodes, Other
<1> SUFFICES ASSUME NEW n \in Owners
             PROVE  /\ ValueAt(n)' \in {settled, None}
                    /\ dump'[n] = NoItem \/ dump'[n].value = settled
                    /\ status'[n] = "ready" => ValueAt(n)' = settled
                    /\ status'[n] = "syncing" =>
                         \/ Other(n) \in syncFrom'[n]
                         \/ dump'[n] # NoItem
                         \/ ValueAt(n)' = settled
  BY <1>b, <1>c DEF Saved
<1>f. /\ n \in Nodes
      /\ ValueAt(n) \in {settled, None}
      /\ dump[n] = NoItem \/ dump[n].value = settled
      /\ status[n] = "ready" => ValueAt(n) = settled
      /\ status[n] = "syncing" => \/ Other(n) \in syncFrom[n]
                                  \/ dump[n] # NoItem
                                  \/ ValueAt(n) = settled
  BY <1>a, <1>e DEF Saved
<1>1. CASE k # n
  <2>1. /\ item'[n] = item[n] /\ status'[n] = status[n]
        /\ dump'[n] = dump[n] /\ syncFrom'[n] = syncFrom[n]
    BY <1>1, <1>f
    DEF TypeOK, Crash, Restart, Sync, CheckAllPeers, SyncFetch, SyncFails,
        SyncApply, SyncDone
  <2> QED
    BY <1>f, <2>1 DEF ValueAt
<1>2. CASE k = n
  \* The other owner is well while this one is not, and so has the value.
  <2>a. ASSUME ~Well(n)
        PROVE  /\ Up(Other(n)) /\ item[Other(n)] # NoItem
               /\ item[Other(n)].value = settled /\ \A p \in Nodes : Up(p) \/ p = n
    <3>1. Other(n) \in Nodes /\ Other(n) \in Owners /\ Other(n) # n
      BY <1>e
    <3>2. \A p \in Nodes : p # n => Well(p)
      BY <1>a, <1>f, <2>a DEF OneIll
    <3>3. status[Other(n)] = "ready"
      BY <3>1, <3>2 DEF Well
    <3>4. ValueAt(Other(n)) = settled
      BY <1>a, <3>1, <3>3 DEF Saved
    <3> QED
      BY <1>d, <3>2, <3>3, <3>4 DEF Up, ValueAt, Well
  <2>1. CASE Crash(n)
    BY <2>1, <1>f DEF Crash, TypeOK, ValueAt
  <2>2. CASE Restart(n)
    BY <2>2, <1>f DEF Restart, TypeOK, ValueAt
  <2>3. CASE CheckAllPeers(n)
    <3>1. Up(Other(n))
      BY <2>3, <2>a DEF CheckAllPeers, Well
    <3>2. Other(n) \in syncFrom'[n]
      BY <1>a, <1>e, <1>f, <2>3, <3>1 DEF CheckAllPeers, TypeOK
    <3> QED
      BY <1>f, <2>3, <3>2 DEF CheckAllPeers, TypeOK, ValueAt
  <2>4. ASSUME NEW p \in Nodes, SyncFetch(n, p)
        PROVE  /\ dump'[n] = NoItem \/ dump'[n].value = settled
               /\ \/ Other(n) \in syncFrom'[n]
                  \/ dump'[n] # NoItem
                  \/ ValueAt(n) = settled
    <3>1. status[n] = "syncing" /\ dump[n] = NoItem
      BY <1>f, <2>4 DEF SyncFetch, TypeOK
    <3>2. dump'[n] = item[p] /\ syncFrom'[n] = syncFrom[n] \ {p}
      BY <1>f, <2>4 DEF SyncFetch, TypeOK
    <3>3. CASE p = Other(n)
      BY <2>a, <3>1, <3>2, <3>3 DEF Well
    <3>4. CASE p = Third
      BY <1>a, <1>e, <1>f, <3>1, <3>2, <3>4 DEF NoThirdCopy
    <3>5. CASE p = n
      <4>1. Other(n) \in syncFrom[n] => Other(n) \in syncFrom'[n]
        BY <1>e, <3>2, <3>5
      <4>2. item[n] = NoItem \/ item[n].value \in Ops
        BY <1>f DEF TypeOK, Item
      <4>3. dump'[n] = NoItem \/ dump'[n].value = settled
        BY <1>f, <3>2, <3>5, <4>2, MeshAssumption DEF ValueAt
      <4> QED
        BY <1>f, <3>1, <4>1, <4>3
    <3> QED
      BY <1>e, <3>3, <3>4, <3>5
  <2>5. ASSUME NEW p \in Nodes, SyncFails(n, p)
        PROVE  FALSE
    <3>1. status[n] = "syncing" /\ ~Up(p)
      BY <1>a, <1>f, <2>5 DEF SyncFails, TypeOK
    <3> QED
      BY <2>a, <3>1 DEF Well, Up
  <2>6. CASE SyncApply(n)
    <3>1. dump[n] \in Item /\ dump[n].value = settled
      BY <1>f, <2>6 DEF SyncApply, TypeOK
    <3>2. item'[n] = SetWithMetadata(n, dump[n].value, dump[n].version, n = Replica)
      BY <1>f, <2>6 DEF SyncApply, TypeOK
    <3>3. item'[n] \in Item
      <4>1. /\ dump[n].value \in Ops /\ dump[n].version \in Nat
            /\ (n = Replica) \in BOOLEAN
        BY <3>1 DEF Item
      <4> QED
        BY <1>f, <3>2, <4>1, EntryType
    <3>4. item'[n].value = settled
      BY <3>1, <3>2 DEF SetWithMetadata
    <3>5. ValueAt(n)' = settled
      BY <3>3, <3>4, MeshAssumption DEF ValueAt
    <3> QED
      BY <1>f, <2>6, <3>5 DEF SyncApply, TypeOK
  <2>7. CASE SyncDone(n)
    BY <2>7, <1>f DEF SyncDone, TypeOK, ValueAt
  <2>8. ASSUME NEW p \in Nodes, SyncFetch(n, p)
        PROVE  UNCHANGED <<item, status>> /\ status[n] = "syncing"
    BY <1>f, <2>8 DEF SyncFetch, TypeOK
  <2>9. CASE \E p \in Nodes : SyncFetch(n, p)
    BY <1>f, <2>4, <2>8, <2>9 DEF ValueAt
  <2> QED
    BY <1>2, <2>1, <2>2, <2>3, <2>5, <2>6, <2>7, <2>9 DEF Sync
<1> QED
  BY <1>1, <1>2

LEMMA ShelteredMeshStep ==
  ASSUME TypeOK, ShelteredMesh, [Next]_vars
  PROVE  ShelteredMesh'
<1>1. ASSUME Sheltered' PROVE OneIll' /\ NoThirdCopy'
  BY <1>1, SameEnvironment, OneIllStep, NoThirdCopyStep DEF ShelteredMesh
<1>2. ASSUME settled' # None PROVE Sheltered /\ Quiescent' /\ Saved(settled)'
  <2>1. CASE Settle
    BY <2>1, SavedSettle
  <2>2. CASE settled = None /\ ~Settle
    BY <1>2, <2>2
    DEF Next, vars, nodeVars, BeginSet, BeginDelete, BeginGet, Begin, Handler,
     SetAtPrimary, SetAtPrimaryFails, SetAtReplica, SetAtReplicaFails,
     DeleteAtPrimary, DeleteAtPrimaryFails, DeleteAtReplica, GetAtPrimary,
     GetAtPrimaryFails, GetAtReplica, GetMisses, Deliver, Lose, Crash, Restart,
     Sync, CheckAllPeers, SyncFetch, SyncFails, SyncApply, SyncDone,
     MonitorMisses, MonitorHears
  <2>3. CASE settled # None /\ ~Settle
    <3>a. Sheltered /\ Quiescent /\ net = {} /\ Saved(settled)
      BY <2>3 DEF ShelteredMesh, Quiescent
    <3>1. ASSUME UNCHANGED <<item, status, dump, syncFrom, settled>>, Quiescent'
          PROVE  Quiescent' /\ Saved(settled)'
      BY <3>1, <3>a DEF Saved, ValueAt
    <3>2. CASE UNCHANGED vars
      BY <3>a, <3>1, <3>2 DEF vars, nodeVars, Quiescent, Writing, Active
    <3>3. ASSUME NEW o \in Ops,
                 BeginSet(o) \/ BeginDelete(o) \/ BeginGet(o) \/ Handler(o)
          PROVE  Quiescent' /\ Saved(settled)'
      BY <1>2, <2>3, <3>1, <3>3, SavedGateway
    <3>4. ASSUME NEW n \in Nodes, Crash(n) \/ Restart(n) \/ Sync(n)
          PROVE  Quiescent' /\ Saved(settled)'
      BY <2>3, <3>4, SavedNodes
    <3>5. ASSUME NEW n \in Owners, MonitorMisses(n) \/ MonitorHears(n)
          PROVE  Quiescent' /\ Saved(settled)'
      BY <3>a, <3>1, <3>5
      DEF MonitorMisses, MonitorHears, nodeVars, Quiescent, Writing, Active
    <3> QED
      BY <2>3, <3>a, <3>2, <3>3, <3>4, <3>5 DEF Next
  <2> QED
    BY <2>1, <2>2, <2>3
<1> QED
  BY <1>1, <1>2, SameEnvironment DEF ShelteredMesh

LEMMA ShelteredMeshInvariant == Spec => []ShelteredMesh
<1>1. Init => ShelteredMesh
  BY DEF Init, ShelteredMesh, OneIll, Well, NoThirdCopy, Nodes
<1> QED
  BY <1>1, ShelteredMeshStep, MeshTypeCorrect, PTL DEF Spec

(***************************************************************************)
(* A value that both owners held with nothing under way is never lost to   *)
(* crashes of one node at a time, however many there are (cache, server    *)
(* start-up, SyncFromPeer).                                                *)
(***************************************************************************)
THEOREM SettledValueSurvives == Spec => []SettledSurvives
<1>1. TypeOK /\ ShelteredMesh => SettledSurvives
  <2> SUFFICES ASSUME TypeOK, ShelteredMesh, settled # None
               PROVE  /\ \E n \in Owners : Up(n) /\ ValueAt(n) = settled
                      /\ \A n \in Owners : ValueAt(n) \in {settled, None}
    BY DEF SettledSurvives
  <2>1. OneIll /\ Saved(settled)
    BY DEF ShelteredMesh
  <2>2. /\ Primary \in Nodes /\ Replica \in Nodes /\ Primary # Replica
        /\ Primary \in Owners /\ Replica \in Owners
    BY MeshAssumption DEF Nodes, Owners
  <2>3. Well(Primary) \/ Well(Replica)
    BY <2>1, <2>2 DEF OneIll
  <2> QED
    BY <2>1, <2>2, <2>3 DEF Saved, Well, Up
<1> QED
  BY <1>1, ShelteredMeshInvariant, MeshTypeCorrect, PTL

(***************************************************************************)
(* A node that has ended its start-up synchronisation (SyncFromPeer from   *)
(* every peer) has brought a settled value back: both owners hold it.      *)
(***************************************************************************)
THEOREM SyncRestoresRedundancy == Spec => []RedundancyRestored
<1>1. ShelteredMesh => RedundancyRestored
  BY DEF ShelteredMesh, RedundancyRestored, Saved, Owners, Nodes
<1> QED
  BY <1>1, ShelteredMeshInvariant, PTL

-----------------------------------------------------------------------------
(* While the primary stays, answered writes are read. *)

\* The last write is answered.
IsLast(w) == w \in Writes /\ ~Writing /\ \A p \in Writes : p <= w
IsStored(w) == IsLast(w) /\ ops[w].result = "stored"

(***************************************************************************)
(* Operations start in the order of their numbers, a write is the last     *)
(* while it is under way, and the primary is asked.  The primary holds the *)
(* last write from its answer on, so a read that started after the answer  *)
(* cannot miss there and does not go on to the replica.                    *)
(***************************************************************************)
OrderedMesh ==
  /\ \A p, q \in Ops : q < p /\ ops[p] # Idle => ops[q] # Idle
  /\ \A w \in Writes : ops[w].pc # "idle"
  /\ \A m \in net : m.to # Primary
  /\ \A o \in Ops : Writer(o) =>
       o \in Writes /\ ops[o].pc = "primary" /\ \A p \in Writes : p <= o
  /\ \A w \in Ops : IsStored(w) => ValueAt(Primary) = w
  /\ \A o, w \in Ops : Reader(o) /\ ops[o].after = w =>
       /\ ops[w].pc = "done"
       /\ IsStored(w) => ops[o].pc = "primary"

LEMMA LastWriteIs ==
  ASSUME NEW w \in Ops
  PROVE  IsLast(w) <=> LastWrite = w
<1>1. ASSUME IsLast(w) PROVE LastWrite = w
  <2>1. \A p \in Writes : (\A q \in Writes : q <= p) => p = w
    BY <1>1 DEF IsLast, Writes, Ops
  <2>2. \E p \in Writes : \A q \in Writes : q <= p
    BY <1>1 DEF IsLast
  <2>3. w \in Writes /\ ~Writing
    BY <1>1 DEF IsLast
  <2> QED
    BY <2>1, <2>2, <2>3 DEF LastWrite
<1>2. ASSUME LastWrite = w PROVE IsLast(w)
  <2>1. w # None
    BY MeshAssumption
  <2>2. Writes # {} /\ ~Writing
    BY <1>2, <2>1 DEF LastWrite
  <2>3. \E p \in Writes : \A q \in Writes : q <= p
    BY <2>2, LastExists DEF Writes
  <2> QED
    BY <1>2, <2>2, <2>3 DEF LastWrite, IsLast
<1> QED
  BY <1>1, <1>2

LEMMA OrderedRest ==
  ASSUME OrderedMesh, UNCHANGED ops, item'[Primary] = item[Primary],
         \A m \in net' : m.to # Primary
  PROVE  OrderedMesh'
<1>1. \A o : /\ Writer(o)' = Writer(o) /\ Reader(o)' = Reader(o)
             /\ IsStored(o)' = IsStored(o)
  BY DEF Writer, Reader, IsStored, IsLast, Writing, Writes, Active
<1>2. ValueAt(Primary)' = ValueAt(Primary) /\ Writes' = Writes
  BY DEF ValueAt, Writes
<1> QED
  BY <1>1, <1>2 DEF OrderedMesh

\* A read moves or ends.
LEMMA OrderedRead ==
  ASSUME TypeOK, OrderedMesh, UNCHANGED item, \A m \in net' : m.to # Primary,
         NEW o \in Ops, Reader(o), ops'[o].kind = "get", ops'[o].pc # "idle",
         \A p \in Ops \ {o} : ops'[p] = ops[p],
         Reader(o)' => /\ ops'[o].after = ops[o].after
                       /\ item[Primary] = NoItem
  PROVE  OrderedMesh'
<1>1. /\ Writes' = Writes /\ Writing' = Writing
      /\ \A p \in Ops : Writer(p)' = Writer(p)
      /\ \A p \in Ops \ {o} : Reader(p)' = Reader(p)
  <2>1. \A p \in Ops : Writer(p)' = Writer(p)
    BY DEF Writer, Reader, Active
  <2> QED
    BY <2>1 DEF Writer, Writing, Reader, Writes, Active
<1>2. ValueAt(Primary)' = ValueAt(Primary)
  BY DEF ValueAt
<1>3. \A w \in Ops : IsStored(w)' = IsStored(w) /\ (IsStored(w) => w # o)
  BY <1>1 DEF IsStored, IsLast, Writes, Reader
<1>4. /\ \A p, q \in Ops : q < p /\ ops'[p] # Idle => ops'[q] # Idle
      /\ \A w \in Writes' : ops'[w].pc # "idle"
  <2>1. ops'[o] # Idle /\ ops[o] # Idle
    BY DEF Idle, Reader, Active
  <2>2. \A w \in Writes' : ops'[w].pc # "idle"
    BY <1>1 DEF OrderedMesh, Writes, Reader
  <2> QED
    BY <2>1, <2>2 DEF OrderedMesh
<1>5. \A p \in Ops : Writer(p) => p # o
  BY DEF Writer, Reader
<1>6. ASSUME NEW p \in Ops, NEW w \in Ops, Reader(p)', ops'[p].after = w
      PROVE  /\ ops'[w].pc = "done"
             /\ IsStored(w)' => ops'[p].pc = "primary"
  <2>1. Reader(p) /\ ops[p].after = w
    BY <1>1, <1>6
  <2>2. ops[w].pc = "done" /\ (IsStored(w) => ops[p].pc = "primary")
    BY <2>1 DEF OrderedMesh
  <2>3. ops'[w].pc = "done"
    BY <2>2 DEF Reader, Active
  <2>4. CASE p = o
    <3>1. ~IsStored(w)
      BY <1>6, <2>4, MeshAssumption DEF OrderedMesh, ValueAt
    <3> QED
      BY <1>3, <2>3, <3>1
  <2> QED
    BY <1>3, <2>2, <2>3, <2>4
<1>7. \A p \in Ops : Writer(p)' => /\ p \in Writes' /\ ops'[p].pc = "primary"
                                   /\ \A q \in Writes' : q <= p
  BY <1>1, <1>5 DEF OrderedMesh
<1> QED
  BY <1>2, <1>3, <1>4, <1>6, <1>7 DEF OrderedMesh

LEMMA OrderedBegin ==
  ASSUME TypeOK, Ordered, PrimaryStays, OrderedMesh, NEW o \in Ops,
         BeginSet(o) \/ BeginDelete(o) \/ BeginGet(o)
  PROVE  OrderedMesh'
<1>a. view[Primary] = "ALIVE" /\ env.pacing # "concurrent"
  BY DEF Ordered, PrimaryStays
<1>1. PICK kind \in {"set", "delete", "get"} :
        /\ Begin(o, kind, "primary")
        /\ kind # "get" => ~Writing
  BY <1>a DEF BeginSet, BeginDelete, BeginGet, MayWrite
<1>2. /\ ops'[o].kind = kind /\ ops'[o].pc = "primary" /\ ops[o] = Idle
      /\ ops'[o].result = None
      /\ \A p \in Ops \ {o} : ops'[p] = ops[p]
  BY <1>1, Moves
<1>3. kind = "get" => ops'[o].after = LastWrite
  BY <1>1 DEF Begin, Idle, TypeOK
<1>4. UNCHANGED <<item, net>> /\ \A q \in Ops : q < o => ops[q] # Idle
  BY <1>1 DEF Begin, Unstarted, Ops
<1>5. \A p \in Ops : p > o => ops[p] = Idle
  BY <1>2 DEF OrderedMesh
<1>6. \A p \in Writes : p < o
  BY <1>2, <1>5, MeshAssumption DEF Writes, Idle, Ops
<1>7. /\ \A p, q \in Ops : q < p /\ ops'[p] # Idle => ops'[q] # Idle
      /\ \A w \in Writes' : ops'[w].pc # "idle"
  <2>1. ops'[o] # Idle
    BY <1>2 DEF Idle
  <2>2. \A w \in Writes' : ops'[w].pc # "idle"
    BY <1>2 DEF OrderedMesh, Writes
  <2> QED
    BY <1>2, <1>4, <2>1, <2>2 DEF OrderedMesh, Ops
<1>8. ValueAt(Primary)' = ValueAt(Primary)
  BY <1>4 DEF ValueAt
<1>9. \A p \in Ops \ {o} : Reader(p)' = Reader(p) /\ Writer(p)' = Writer(p)
  BY <1>2 DEF Reader, Writer, Active
<1>10. CASE kind = "get"
  <2>1. Writes' = Writes
    BY <1>2, <1>10, MeshAssumption DEF Writes, Idle
  <2>2. ~Writer(o)' /\ ~Writer(o) /\ Reader(o)'
    BY <1>2, <1>10 DEF Writer, Reader, Active, Idle
  <2>3. Writing' = Writing
    BY <1>9, <2>2 DEF Writing, Writer
  <2>4. \A w \in Ops : IsStored(w)' = IsStored(w) /\ IsLast(w)' = IsLast(w)
    <3>1. \A w \in Writes : w \in Ops \ {o}
      BY <1>6 DEF Writes, Ops
    <3> QED
      BY <1>2, <2>1, <2>3, <3>1 DEF IsStored, IsLast
  <2>5. ASSUME NEW p \in Ops, NEW w \in Ops, Reader(p)', ops'[p].after = w
        PROVE  /\ ops'[w].pc = "done"
               /\ IsStored(w)' => ops'[p].pc = "primary"
    <3>1. CASE p = o
      <4>1. IsLast(w)
        BY <1>3, <1>10, <2>5, <3>1, LastWriteIs
      <4>2. w \in Writes /\ ~Writing /\ w # o
        BY <1>6, <4>1 DEF IsLast, Ops
      <4>3. ops[w] \in Reading \cup Changing /\ ops[w] # Idle
        BY <4>2, MeshAssumption DEF TypeOK, Writes, Idle
      <4>4. ops[w].pc \notin {"primary", "replica"}
        BY <4>2 DEF Writing, Active, Writes
      <4>5. ops[w].pc # "idle"
        BY <4>2 DEF OrderedMesh, Writes
      <4> QED
        BY <1>2, <3>1, <4>2, <4>3, <4>4, <4>5 DEF Reading, Changing, Handlers
    <3>2. CASE p # o
      <4>1. Reader(p) /\ ops[p].after = w
        BY <1>2, <1>9, <2>5, <3>2
      <4>2. ops[w].pc = "done" /\ (IsStored(w) => ops[p].pc = "primary")
        BY <4>1 DEF OrderedMesh
      <4>3. w # o
        BY <1>2, <4>2 DEF Idle
      <4> QED
        BY <1>2, <2>4, <3>2, <4>2, <4>3
    <3> QED
      BY <3>1, <3>2
  <2>6. \A p \in Ops : Writer(p)' => /\ p \in Writes' /\ ops'[p].pc = "primary"
                                   /\ \A q \in Writes' : q <= p
    BY <1>2, <1>9, <2>1, <2>2 DEF OrderedMesh
  <2> QED
    BY <1>4, <1>7, <1>8, <2>4, <2>5, <2>6 DEF OrderedMesh
<1>11. CASE kind # "get"
  <2>1. ~Writing /\ \A p \in Ops : ~Writer(p)
    BY <1>1, <1>11 DEF Writing, Writer
  <2>2. Writer(o)' /\ Writing' /\ ~Reader(o)'
    BY <1>2, <1>11 DEF Writer, Writing, Reader, Active
  <2>3. \A w : ~IsStored(w)'
    BY <2>2 DEF IsStored, IsLast
  <2>4. \A p \in Ops : Writer(p)' => /\ p \in Writes' /\ ops'[p].pc = "primary"
                                   /\ \A q \in Writes' : q <= p
    <3>1. \A q \in Writes' : q = o \/ q \in Writes
      BY <1>2 DEF Writes
    <3>2. o \in Writes'
      BY <1>2, <1>11 DEF Writes
    <3> QED
      BY <1>2, <1>6, <1>9, <2>1, <3>1, <3>2 DEF Writes, Ops
  <2>5. ASSUME NEW p \in Ops, NEW w \in Ops, Reader(p)', ops'[p].after = w
        PROVE  ops'[w].pc = "done"
    <3>1. Reader(p) /\ ops[p].after = w
      BY <1>2, <1>9, <2>2, <2>5
    <3>2. ops[w].pc = "done"
      BY <3>1 DEF OrderedMesh
    <3> QED
      BY <1>2, <3>2 DEF Idle
  <2> QED
    BY <1>4, <1>7, <2>3, <2>4, <2>5 DEF OrderedMesh
<1> QED
  BY <1>10, <1>11

\* A write is answered: afterwards the primary holds it, or it was a delete.
LEMMA OrderedWrite ==
  ASSUME TypeOK, Ordered, OrderedMesh, NEW o \in Ops,
         SetAtPrimary(o) \/ DeleteAtPrimary(o)
  PROVE  OrderedMesh'
<1>a. Primary \in Nodes /\ Primary # Replica
  BY MeshAssumption DEF Nodes
<1>1. /\ Writer(o) /\ ops[o].pc = "primary" /\ ops[o].kind \in {"set", "delete"}
      /\ ops'[o].kind = ops[o].kind /\ ops'[o].pc = "done"
      /\ ops'[o].result = "stored" => ValueAt(Primary)' = o
  <2>1. CASE SetAtPrimary(o)
    <3>1. /\ ops'[o].kind = ops[o].kind /\ ops'[o].pc = "done"
      BY <2>1, Moves DEF SetAtPrimary
    <3>2. item'[Primary] = SetWithMetadata(Primary, o, 0, FALSE)
      BY <2>1, <1>a DEF SetAtPrimary, handleSet, TypeOK
    <3>3. item'[Primary] \in Item /\ item'[Primary].value = o
      <4>1. 0 \in Nat /\ FALSE \in BOOLEAN
        OBVIOUS
      <4>2. SetWithMetadata(Primary, o, 0, FALSE) \in Item
        BY <1>a, <4>1, EntryType
      <4> QED
        BY <3>2, <4>2 DEF SetWithMetadata
    <3> QED
      BY <2>1, <3>1, <3>3, MeshAssumption DEF SetAtPrimary, Writer, Active, ValueAt
  <2>2. CASE DeleteAtPrimary(o)
    <3>1. /\ ops'[o].kind = ops[o].kind /\ ops'[o].pc = "done"
          /\ ops'[o].result = "deleted"
      BY <2>2, Moves DEF DeleteAtPrimary
    <3> QED
      BY <2>2, <3>1 DEF DeleteAtPrimary, Writer, Active
  <2> QED
    BY <2>1, <2>2
<1>2. \A p \in Ops \ {o} :
        /\ ops'[p].kind = ops[p].kind /\ ops'[p].pc = ops[p].pc
        /\ ops'[p].result = ops[p].result /\ ops'[p].after = ops[p].after
        /\ ops'[p] = Idle <=> ops[p] = Idle
  <2>1. CASE SetAtPrimary(o)
    <3>1. \A p \in Ops \ {o} :
            /\ ops'[p].kind = ops[p].kind /\ ops'[p].pc = ops[p].pc
            /\ ops'[p].result = ops[p].result /\ ops'[p].after = ops[p].after
      BY <2>1, Moves DEF SetAtPrimary
    <3>2. ASSUME NEW p \in Ops \ {o} PROVE ops'[p] = Idle <=> ops[p] = Idle
      <4>1. ops'[p] = ops[p] \/ Active(p)
        BY <2>1 DEF SetAtPrimary, FinishSet
      <4> QED
        BY <3>1, <4>1 DEF Active, Idle
    <3> QED
      BY <3>1, <3>2
  <2>2. CASE DeleteAtPrimary(o)
    BY <2>2, Moves DEF DeleteAtPrimary
  <2> QED
    BY <2>1, <2>2
<1>3. \A m \in net' : m.to # Primary
  <2>1. \A entry : /\ ReplicateSet(Replica, entry, o).to = Replica
                   /\ ReplicateDelete(o).to = Replica
                   /\ PostSet(Replica, o).to = Replica
    BY DEF ReplicateSet, ReplicateDelete, PostSet
  <2> QED
    <3>1. CASE SetAtPrimary(o)
      <4>1. \E entry : net' = (net \cup {PostSet(Replica, o)})
                                \cup {ReplicateSet(Replica, entry, o)}
        BY <1>a, <3>1 DEF SetAtPrimary, handleSet
      <4> QED
        BY <1>a, <2>1, <4>1 DEF OrderedMesh
    <3>2. CASE DeleteAtPrimary(o)
      BY <1>a, <2>1, <3>2 DEF OrderedMesh, DeleteAtPrimary, handleDelete
    <3> QED
      BY <3>1, <3>2
<1>4. o \in Writes /\ (\A p \in Writes : p <= o) /\ Writes' = Writes
  BY <1>1, <1>2 DEF OrderedMesh, Writes
<1>5. \A p \in Ops : Writer(p) => p = o
  <2> SUFFICES ASSUME NEW p \in Ops, Writer(p) PROVE p = o
    OBVIOUS
  <2>1. o <= p /\ p <= o
    BY <1>4 DEF OrderedMesh
  <2> QED
    BY <2>1 DEF Ops
<1>6. \A p \in Ops : ~Writer(p)'
  BY <1>1, <1>2, <1>5 DEF Writer, Active
<1>7. \A w \in Ops : IsStored(w)' => w = o /\ ops'[o].result = "stored"
  BY <1>4 DEF IsStored, IsLast, Ops
<1>8. \A w \in Ops : IsStored(w)' => ValueAt(Primary)' = w
  BY <1>1, <1>7
<1>9. ASSUME NEW p \in Ops, NEW w \in Ops, Reader(p)', ops'[p].after = w
      PROVE  /\ ops'[w].pc = "done"
             /\ IsStored(w)' => ops'[p].pc = "primary"
  <2>1. p # o /\ Reader(p) /\ ops[p].after = w
    BY <1>1, <1>2, <1>9 DEF Reader, Active
  <2>2. ops[w].pc = "done" /\ w # o
    BY <1>1, <2>1 DEF OrderedMesh
  <2> QED
    BY <1>2, <1>7, <2>2
<1>10. /\ \A p, q \in Ops : q < p /\ ops'[p] # Idle => ops'[q] # Idle
       /\ \A w \in Writes' : ops'[w].pc # "idle"
  <2>1. ops[o] # Idle /\ ops'[o] # Idle
    BY <1>1 DEF Idle
  <2>2. \A p \in Ops : ops'[p] = Idle <=> ops[p] = Idle
    BY <1>2, <2>1
  <2>3. \A w \in Writes' : ops'[w].pc # "idle"
    BY <1>1, <1>2, <1>4 DEF OrderedMesh, Writes
  <2> QED
    BY <2>2, <2>3 DEF OrderedMesh
<1> QED
  BY <1>3, <1>6, <1>8, <1>9, <1>10 DEF OrderedMesh

LEMMA OrderedMeshStep ==
  ASSUME TypeOK, PrimaryStays, Ordered => OrderedMesh, [Next]_vars
  PROVE  (Ordered => OrderedMesh)'
<1> SUFFICES ASSUME Ordered, OrderedMesh PROVE OrderedMesh'
  BY SameEnvironment
<1>a. /\ Primary \in Nodes /\ Primary # Replica /\ Primary # Third
      /\ ~env.timeouts /\ status[Primary] = "ready" /\ Up(Primary)
      /\ dump[Primary] = NoItem /\ Primary \notin env.mayCrash
  BY MeshAssumption DEF Nodes, Ordered, StablePrimary, PrimaryStays, Up, TypeOK
<1>1. CASE UNCHANGED vars
  BY <1>1, OrderedRest DEF vars, OrderedMesh
<1>2. ASSUME NEW o \in Ops, BeginSet(o) \/ BeginDelete(o) \/ BeginGet(o)
      PROVE  OrderedMesh'
  BY <1>2, OrderedBegin
<1>3. ASSUME NEW o \in Ops, SetAtPrimary(o) \/ DeleteAtPrimary(o)
      PROVE  OrderedMesh'
  BY <1>3, OrderedWrite
<1>4. ASSUME NEW o \in Ops, SetAtPrimaryFails(o) \/ SetAtReplica(o)
               \/ SetAtReplicaFails(o) \/ DeleteAtPrimaryFails(o)
               \/ DeleteAtReplica(o)
      PROVE  FALSE
  <2>1. Writer(o) => ops[o].pc = "primary"
    BY DEF OrderedMesh
  <2> QED
    BY <1>a, <1>4, <2>1
    DEF SetAtPrimaryFails, SetAtReplica, SetAtReplicaFails, CallFails,
        DeleteAtPrimaryFails, DeleteAtReplica, Writer, Active
<1>5. ASSUME NEW o \in Ops, GetAtPrimary(o) \/ GetAtPrimaryFails(o)
               \/ GetAtReplica(o) \/ GetMisses(o)
      PROVE  OrderedMesh'
  <2>1. Reader(o) /\ UNCHANGED item
    BY <1>5 DEF Reader, Active, GetAtPrimary, GetAtPrimaryFails, GetAtReplica,
                GetMisses, handleGet
  <2>2. \A m \in net' : m.to # Primary
    <3>1. \A entry : ReplicateSet(Third, entry, o).to = Third
      BY DEF ReplicateSet
    <3> QED
      BY <1>a, <1>5, <3>1
      DEF OrderedMesh, GetAtPrimary, GetAtPrimaryFails, GetAtReplica, GetMisses,
          handleGet
  <2>3. /\ ops'[o].kind = "get" /\ ops'[o].pc # "idle"
        /\ \A p \in Ops \ {o} : ops'[p] = ops[p]
    BY <1>5, Moves DEF GetAtPrimary, GetAtPrimaryFails, GetAtReplica, GetMisses
  <2>4. ASSUME Reader(o)'
        PROVE  ops'[o].after = ops[o].after /\ item[Primary] = NoItem
    <3>1. GetAtPrimaryFails(o)
      BY <1>5, <2>4, Moves
      DEF GetAtPrimary, GetAtReplica, GetMisses, Reader, Active
    <3> QED
      BY <1>a, <3>1, Moves DEF GetAtPrimaryFails
  <2> QED
    BY <2>1, <2>2, <2>3, <2>4, OrderedRead
<1>6. ASSUME NEW m \in net, Deliver(m) \/ Lose(m)
      PROVE  OrderedMesh'
  <2>1. m \in Message /\ m.to # Primary
    BY DEF OrderedMesh, TypeOK
  <2>2. m.type \in {"set", "delete", "replicate", "replicateDelete"} /\ m.to \in Nodes
    BY <2>1 DEF Message, Owners, Nodes
  <2>3. UNCHANGED ops /\ item'[Primary] = item[Primary]
    BY <1>6, <1>a, <2>1, <2>2 DEF Deliver, Lose, handleSet, handleDelete, TypeOK
  <2>4. \A k \in net' : k \in net \/ k.to = Replica
    BY <1>6, NetDelivery
  <2> QED
    BY <1>a, <2>3, <2>4, OrderedRest DEF OrderedMesh
<1>7. ASSUME NEW n \in Nodes, Crash(n) \/ Restart(n) \/ Sync(n)
      PROVE  OrderedMesh'
  <2>1. UNCHANGED <<ops, net>> /\ item'[Primary] = item[Primary]
    BY <1>7, <1>a
    DEF TypeOK, Crash, Restart, Sync, CheckAllPeers, SyncFetch, SyncFails,
        SyncApply, SyncDone
  <2> QED
    BY <2>1, OrderedRest DEF OrderedMesh
<1>8. ASSUME \/ \E n \in Owners : MonitorMisses(n) \/ MonitorHears(n)
             \/ Settle
      PROVE  OrderedMesh'
  BY <1>8, OrderedRest DEF MonitorMisses, MonitorHears, Settle, OrderedMesh
<1> QED
  BY <1>1, <1>2, <1>3, <1>4, <1>5, <1>6, <1>7, <1>8 DEF Next, Handler

LEMMA OrderedMeshInvariant == Spec => [](Ordered => OrderedMesh)
<1>1. Init => OrderedMesh
  BY MeshAssumption
  DEF Init, OrderedMesh, Idle, Writes, Writer, Reader, Active, IsStored, IsLast
<1> QED
  BY <1>1, OrderedMeshStep, MeshTypeCorrect, PrimaryStaysInvariant, PTL DEF Spec

(***************************************************************************)
(* While the primary stays and calls are answered, a read that starts      *)
(* after a set was answered and ends before another write starts returns   *)
(* that set (handleAPISet, RouteGet), whatever the replica does meanwhile. *)
(***************************************************************************)
THEOREM ReadYourWrites == Spec => AckedWritesAreRead
<1> DEFINE Ends(o, w) ==
             /\ ops[o].kind = "get" /\ Active(o) /\ ops'[o].pc = "done"
             /\ w # None /\ LastWrite = w
             /\ ops[w].result = "stored"
<1>1. ASSUME TypeOK, Ordered => OrderedMesh, PrimaryStays, [Next]_vars, Ordered,
             NEW o \in Ops, Ends(o, ops[o].after)
      PROVE  ops'[o].result = ops[o].after
  <2> DEFINE w == ops[o].after
  <2>a. w \in Ops
    <3>1. ops[o] \in Reading \cup Changing
      BY <1>1 DEF TypeOK
    <3> QED
      BY <1>1, <3>1 DEF Reading, Changing, Handlers
  <2>1. Reader(o) /\ IsStored(w)
    BY <1>1, <2>a, LastWriteIs DEF IsStored, Reader
  <2>2. ops[o].pc = "primary" /\ ValueAt(Primary) = w
    BY <1>1, <2>a, <2>1 DEF OrderedMesh
  <2>3. item[Primary] # NoItem /\ item[Primary].value = w
    BY <2>a, <2>2, MeshAssumption DEF ValueAt
  <2>4. PICK p \in Ops : BeginSet(p) \/ BeginDelete(p) \/ BeginGet(p) \/ Handler(p)
    <3>1. ops' # ops
      BY <1>1 DEF Active
    <3> QED
      BY <1>1, <3>1
      DEF Next, vars, Deliver, Lose, Crash, Restart, Sync, CheckAllPeers,
          SyncFetch, SyncFails, SyncApply, SyncDone, MonitorMisses,
          MonitorHears, Settle
  <2>5. p = o
    <3> SUFFICES ASSUME p # o PROVE ops'[o].pc = ops[o].pc
      BY <1>1 DEF Active
    <3> QED
      BY <1>1, <2>4, Moves
      DEF BeginSet, BeginDelete, BeginGet, Handler, SetAtPrimary,
          SetAtPrimaryFails, SetAtReplica, SetAtReplicaFails, DeleteAtPrimary,
          DeleteAtPrimaryFails, DeleteAtReplica, GetAtPrimary,
          GetAtPrimaryFails, GetAtReplica, GetMisses
  <2>6. GetAtPrimary(o) \/ GetAtPrimaryFails(o)
    BY <1>1, <2>2, <2>4, <2>5
    DEF BeginSet, BeginDelete, BeginGet, Begin, Unstarted, Idle, Handler,
        SetAtPrimary, SetAtPrimaryFails, SetAtReplica, SetAtReplicaFails,
        DeleteAtPrimary, DeleteAtPrimaryFails, DeleteAtReplica, GetAtReplica,
        GetMisses
  <2>7. GetAtPrimary(o)
    BY <1>1, <2>6, Moves DEF GetAtPrimaryFails
  <2> QED
    BY <1>1, <2>3, <2>7, Moves DEF GetAtPrimary
<1>2. TypeOK /\ (Ordered => OrderedMesh) /\ PrimaryStays /\ [Next]_vars =>
        (Ordered => \A o \in Ops : Ends(o, ops[o].after)
                                     => ops'[o].result = ops[o].after)
  BY <1>1
<1> QED
  BY <1>2, MeshTypeCorrect, PrimaryStaysInvariant, OrderedMeshInvariant, PTL
  DEF Spec, AckedWritesAreRead

-----------------------------------------------------------------------------
(* Failover hides single outages from reads of a settled value. *)

Born(x) == ops[x].pc # "idle"
NoWrite(h) == ~(h.pc \in {"primary", "replica"} /\ h.kind # "get")

\* Every value in the mesh is that of a write that has begun.
Origin ==
  /\ \A n \in Nodes : /\ item[n] # NoItem => Born(item[n].value)
                      /\ dump[n] # NoItem => Born(dump[n].value)
  /\ \A m \in net : m.value \in Ops => Born(m.value)

(***************************************************************************)
(* A read under way that started with a settled value v.  Without a crash  *)
(* since the outages it counts, all nodes are well.  A read that has       *)
(* turned to the replica within its one outage did so for one of two       *)
(* reasons: the primary is the node of that outage, so the replica is well *)
(* and stays so; or the primary is well and has lost v to a later write,   *)
(* so v is not settled and cannot become so.                               *)
(***************************************************************************)
SafeRead(o) ==
  LET v == ops[o].settled
  IN  /\ ops[o].outages <= crashes
      /\ ops[o].outages = crashes => \A n \in Nodes : Well(n)
      /\ v # None =>
           /\ Born(v) /\ NoWrite(ops[v])
           /\ ops[o].pc = "replica" /\ crashes <= ops[o].outages + 1 =>
                \/ crashes = ops[o].outages + 1 /\ Well(Replica)
                \/ /\ status[Primary] = "ready" /\ ValueAt(Primary) # v
                   /\ settled # v

ReadMesh ==
  /\ Origin
  /\ settled # None => Born(settled)
  /\ \A o \in Ops : Reader(o) /\ ops[o].settled # None => Sheltered
  /\ Sheltered => /\ \A m \in net : m.to # Primary
                  /\ crashes = 0 => \A n \in Nodes : Well(n)
                  /\ \A o \in Ops : Reader(o) => SafeRead(o)

\* What a step can do to a handler.
Keeps(p) ==
  /\ ops'[p].kind = ops[p].kind
  /\ ops'[p].settled = ops[p].settled /\ ops'[p].outages = ops[p].outages

LEMMA HandlerSteps ==
  ASSUME TypeOK, [Next]_vars, NEW p \in Ops
  PROVE  \/ Keeps(p) /\ ops'[p].pc = ops[p].pc
         \/ ops[p] = Idle /\ (BeginSet(p) \/ BeginDelete(p) \/ BeginGet(p))
         \/ Active(p) /\ ops'[p].pc = "done"
         \/ /\ Keeps(p) /\ ops[p].pc = "primary" /\ ops'[p].pc = "replica"
            /\ ops[p].kind = "get" => GetAtPrimaryFails(p)
<1>0. ops[p] \in Reading \cup Changing
  BY DEF TypeOK
<1>1. CASE UNCHANGED ops
  BY <1>1 DEF Keeps
<1>2. ASSUME NEW o \in Ops, BeginSet(o) \/ BeginDelete(o) \/ BeginGet(o)
      PROVE  \/ Keeps(p) /\ ops'[p].pc = ops[p].pc
             \/ ops[p] = Idle /\ (BeginSet(p) \/ BeginDelete(p) \/ BeginGet(p))
  BY <1>2, Moves DEF BeginSet, BeginDelete, BeginGet, Keeps
<1>3. ASSUME NEW o \in Ops, Active(o), (\E r : Finish(o, r)) \/ FinishSet(o)
      PROVE  \/ Keeps(p) /\ ops'[p].pc = ops[p].pc
             \/ Active(p) /\ ops'[p].pc = "done"
  BY <1>3, Moves DEF Keeps
<1>4. ASSUME NEW o \in Ops, GoTo(o, "replica"), ops[o].pc = "primary",
             ops[o].kind = "get" => GetAtPrimaryFails(o)
      PROVE  \/ Keeps(p) /\ ops'[p].pc = ops[p].pc
             \/ /\ Keeps(p) /\ ops[p].pc = "primary" /\ ops'[p].pc = "replica"
                /\ ops[p].kind = "get" => GetAtPrimaryFails(p)
  <2>1. CASE p = o
    <3>1. ops'[p] = [ops[p] EXCEPT !.pc = "replica"]
      BY <1>4, <2>1 DEF GoTo, TypeOK
    <3>2. Keeps(p) /\ ops'[p].pc = "replica"
      BY <1>0, <3>1 DEF Keeps, Reading, Changing, Handlers
    <3> QED
      BY <1>4, <2>1, <3>2
  <2>2. CASE p # o
    BY <1>4, <2>2, Moves DEF Keeps
  <2> QED
    BY <2>1, <2>2
<1>5. ASSUME NEW o \in Ops, Handler(o)
      PROVE  \/ Active(o) /\ ((\E r : Finish(o, r)) \/ FinishSet(o))
             \/ /\ GoTo(o, "replica") /\ ops[o].pc = "primary"
                /\ ops[o].kind = "get" => GetAtPrimaryFails(o)
  BY <1>5
  DEF Handler, Active, SetAtPrimary, SetAtPrimaryFails, SetAtReplica,
      SetAtReplicaFails, DeleteAtPrimary, DeleteAtPrimaryFails,
      DeleteAtReplica, GetAtPrimary, GetAtPrimaryFails, GetAtReplica, GetMisses
<1>6. ASSUME NEW o \in Ops, Handler(o)
      PROVE  \/ Keeps(p) /\ ops'[p].pc = ops[p].pc
             \/ Active(p) /\ ops'[p].pc = "done"
             \/ /\ Keeps(p) /\ ops[p].pc = "primary" /\ ops'[p].pc = "replica"
                /\ ops[p].kind = "get" => GetAtPrimaryFails(p)
  BY <1>3, <1>4, <1>5, <1>6
<1>7. \/ UNCHANGED ops
      \/ \E o \in Ops : BeginSet(o) \/ BeginDelete(o) \/ BeginGet(o) \/ Handler(o)
  BY DEF Next, vars, Deliver, Lose, Crash, Restart, Sync, CheckAllPeers,
         SyncFetch, SyncFails, SyncApply, SyncDone, MonitorMisses,
         MonitorHears, Settle
<1> QED
  BY <1>1, <1>2, <1>6, <1>7

\* Operations that have begun stay so, and begin no write.
LEMMA BornStays ==
  ASSUME TypeOK, [Next]_vars
  PROVE  \A x \in Ops : Born(x) =>
           ops'[x].pc # "idle" /\ (NoWrite(ops[x]) => NoWrite(ops'[x]))
<1> SUFFICES ASSUME NEW x \in Ops, Born(x)
             PROVE  ops'[x].pc # "idle" /\ (NoWrite(ops[x]) => NoWrite(ops'[x]))
  OBVIOUS
<1>1. ops[x] # Idle
  BY DEF Born, Idle
<1> QED
  BY <1>1, HandlerSteps DEF Born, NoWrite, Active, Keeps

\* Crashes are counted, and nothing else makes a node ill.
LEMMA CrashCount ==
  ASSUME TypeOK, [Next]_vars
  PROVE  \/ crashes' = crashes /\ \A n \in Nodes : ~Crash(n)
         \/ crashes' = crashes + 1 /\ \E n \in Nodes : Crash(n)
<1>0. crashes \in Nat
  BY DEF TypeOK
<1>1. ASSUME NEW n \in Nodes, Crash(n)
      PROVE  crashes' = crashes + 1
  BY <1>1 DEF Crash
<1>2. CASE \A n \in Nodes : ~Crash(n)
  BY <1>0, <1>2, StatusSteps DEF Restart, CheckAllPeers, SyncDone
<1> QED
  BY <1>0, <1>1, <1>2

\* A step brings no value of an operation that has not begun.
Known(x) == x \in Ops => Born(x)
OldValues ==
  /\ \A n \in Nodes : /\ item'[n] # NoItem => Known(item'[n].value)
                      /\ dump'[n] # NoItem => Known(dump'[n].value)
  /\ \A m \in net' : Known(m.value)

LEMMA OldValuesStep ==
  ASSUME TypeOK, Origin, [Next]_vars
  PROVE  OldValues
<1>0. /\ \A n \in Nodes : /\ item[n] # NoItem => Known(item[n].value)
                          /\ dump[n] # NoItem => Known(dump[n].value)
      /\ \A m \in net : Known(m.value)
  BY DEF Origin, Known
<1>1. CASE UNCHANGED <<item, dump>> /\ net' \subseteq net
  BY <1>0, <1>1 DEF OldValues
<1>n. \A o : ~(None \in Ops) /\ Known(None) /\ ReplicateDelete(o).value = None
             /\ \A n : PostDelete(n, o).value = None /\ PostSet(n, o).value = o
  BY MeshAssumption DEF Known, ReplicateDelete, PostDelete, PostSet
<1>2. ASSUME NEW n \in Nodes, NEW v, Known(v), NEW o, NEW others,
             \A m \in others : Known(m.value), handleSet(n, v, o, others),
             UNCHANGED dump
      PROVE  OldValues
  <2> DEFINE entry == SetWithMetadata(n, v, 0, FALSE)
  <2>1. entry.value = v /\ ReplicateSet(Replica, entry, o).value = v
    BY DEF SetWithMetadata, ReplicateSet
  <2>2. /\ item' = [item EXCEPT ![n] = entry]
        /\ net' \subseteq others \cup {ReplicateSet(Replica, entry, o)}
    BY <1>2 DEF handleSet
  <2> HIDE DEF entry
  <2>3. \A m \in net' : Known(m.value)
    BY <1>2, <2>1, <2>2
  <2>4. \A k \in Nodes : item'[k] # NoItem => Known(item'[k].value)
    BY <1>0, <1>2, <2>1, <2>2 DEF TypeOK
  <2> QED
    BY <1>0, <1>2, <2>3, <2>4 DEF OldValues
<1>3. ASSUME NEW n \in Nodes, NEW o, NEW others,
             \A m \in others : Known(m.value), handleDelete(n, o, others),
             UNCHANGED dump
      PROVE  OldValues
  <2>1. /\ item' = [item EXCEPT ![n] = NoItem]
        /\ net' \subseteq others \cup {ReplicateDelete(o)}
    BY <1>3 DEF handleDelete
  <2>2. \A m \in net' : Known(m.value)
    BY <1>3, <1>n, <2>1
  <2> QED
    BY <1>0, <1>3, <2>1, <2>2 DEF OldValues, TypeOK
<1>4. ASSUME NEW n \in Nodes, NEW o, handleGet(n, o), UNCHANGED dump
      PROVE  OldValues
  <2>1. ReplicateSet(Third, item[n], o).value = item[n].value /\ item' = item
    BY <1>4 DEF ReplicateSet, handleGet
  <2>2. Known(item[n].value)
    BY <1>0, <1>4 DEF handleGet
  <2>3. \A m \in net' : Known(m.value)
    BY <1>0, <1>4, <2>1, <2>2 DEF handleGet
  <2> QED
    BY <1>0, <1>4, <2>1, <2>3 DEF OldValues
<1>5. ASSUME NEW n, NEW o \in Ops, Born(o), UNCHANGED <<item, dump>>,
             CallFails(n, PostSet(n, o)) \/ CallFails(n, PostDelete(n, o))
      PROVE  OldValues
  <2>1. Known(o)
    BY <1>5 DEF Known
  <2>2. \A m \in net' : Known(m.value)
    BY <1>0, <1>5, <1>n, <2>1 DEF CallFails
  <2> QED
    BY <1>0, <1>5, <2>2 DEF OldValues
<1>a. Primary \in Nodes /\ Replica \in Nodes /\ Owners \subseteq Nodes
  BY DEF Nodes, Owners
<1>6. ASSUME NEW o \in Ops, BeginSet(o) \/ BeginDelete(o) \/ BeginGet(o)
      PROVE  OldValues
  BY <1>1, <1>6 DEF BeginSet, BeginDelete, BeginGet, Begin, nodeVars
<1>7. ASSUME NEW o \in Ops, Handler(o)
      PROVE  OldValues
  <2>0. Born(o) /\ Known(o)
    BY <1>7
    DEF Born, Known, Handler, SetAtPrimary, SetAtPrimaryFails, SetAtReplica,
        SetAtReplicaFails, DeleteAtPrimary, DeleteAtPrimaryFails,
        DeleteAtReplica, GetAtPrimary, GetAtPrimaryFails, GetAtReplica,
        GetMisses
  <2>1. CASE SetAtPrimary(o)
    <3>1. \A m \in net \cup {PostSet(Replica, o)} : Known(m.value)
      BY <1>0, <1>n, <2>0
    <3> QED
      BY <1>2, <1>a, <2>0, <2>1, <3>1 DEF SetAtPrimary, nodeVars
  <2>2. CASE SetAtReplica(o)
    BY <1>0, <1>2, <1>a, <2>0, <2>2 DEF SetAtReplica, nodeVars
  <2>3. CASE DeleteAtPrimary(o)
    BY <1>0, <1>3, <1>a, <2>3 DEF DeleteAtPrimary, nodeVars
  <2>4. CASE DeleteAtReplica(o)
    BY <1>0, <1>3, <1>5, <1>a, <2>0, <2>4 DEF DeleteAtReplica, nodeVars
  <2>5. CASE GetAtPrimary(o) \/ GetAtReplica(o)
    BY <1>4, <1>a, <2>5 DEF GetAtPrimary, GetAtReplica, nodeVars
  <2>6. CASE GetAtPrimaryFails(o) \/ GetMisses(o)
    BY <1>1, <2>6 DEF GetAtPrimaryFails, GetMisses, nodeVars
  <2>7. CASE SetAtPrimaryFails(o) \/ SetAtReplicaFails(o) \/ DeleteAtPrimaryFails(o)
    BY <1>5, <2>0, <2>7
    DEF SetAtPrimaryFails, SetAtReplicaFails, DeleteAtPrimaryFails, nodeVars
  <2> QED
    BY <1>7, <2>1, <2>2, <2>3, <2>4, <2>5, <2>6, <2>7 DEF Handler
<1>8. ASSUME NEW m \in net, Deliver(m) \/ Lose(m)
      PROVE  OldValues
  <2>0. /\ m \in Message /\ m.to \in Nodes /\ Known(m.value)
        /\ m.type \in {"set", "delete", "replicate", "replicateDelete"}
        /\ \A k \in net \ {m} : Known(k.value)
    BY <1>0 DEF TypeOK, Message, Nodes, Owners
  <2>1. CASE Lose(m)
    BY <1>1, <2>1 DEF Lose, nodeVars
  <2>2. CASE Deliver(m) /\ m.type = "set"
    BY <1>2, <2>0, <2>2 DEF Deliver, nodeVars
  <2>3. CASE Deliver(m) /\ m.type = "delete"
    BY <1>3, <2>0, <2>3 DEF Deliver, nodeVars
  <2>4. CASE Deliver(m) /\ m.type = "replicate"
    <3> DEFINE entry == SetWithMetadata(m.to, m.value, m.version, TRUE)
    <3>1. entry.value = m.value
      BY DEF SetWithMetadata
    <3>2. /\ item' = [item EXCEPT ![m.to] = entry] /\ net' = net \ {m}
          /\ UNCHANGED dump
      BY <2>4 DEF Deliver, nodeVars
    <3> HIDE DEF entry
    <3> QED
      BY <1>0, <2>0, <3>1, <3>2 DEF OldValues, TypeOK
  <2>5. CASE Deliver(m) /\ m.type = "replicateDelete"
    <3>1. /\ item' = [item EXCEPT ![m.to] = NoItem] /\ net' = net \ {m}
          /\ UNCHANGED dump
      BY <2>5 DEF Deliver, nodeVars
    <3> QED
      BY <1>0, <2>0, <3>1 DEF OldValues, TypeOK
  <2> QED
    BY <1>8, <2>0, <2>1, <2>2, <2>3, <2>4, <2>5
<1>9. ASSUME NEW n \in Nodes, Crash(n) \/ Restart(n) \/ Sync(n)
      PROVE  OldValues
  <2>1. CASE Crash(n)
    BY <1>0, <2>1 DEF Crash, OldValues, TypeOK
  <2>2. CASE Restart(n) \/ CheckAllPeers(n) \/ SyncDone(n)
    BY <1>1, <2>2 DEF Restart, CheckAllPeers, SyncDone
  <2>3. ASSUME NEW p \in Nodes, SyncFetch(n, p)
        PROVE  OldValues
    BY <1>0, <2>3 DEF SyncFetch, OldValues, TypeOK
  <2>4. ASSUME NEW p \in Nodes, SyncFails(n, p)
        PROVE  OldValues
    BY <1>1, <2>4 DEF SyncFails
  <2>5. CASE SyncApply(n)
    <3> DEFINE entry == SetWithMetadata(n, dump[n].value, dump[n].version,
                                        n = Replica)
    <3>1. entry.value = dump[n].value /\ Known(dump[n].value)
      BY <1>0, <2>5 DEF SetWithMetadata, SyncApply
    <3>2. /\ item' = item \/ item' = [item EXCEPT ![n] = entry]
          /\ dump' = [dump EXCEPT ![n] = NoItem] /\ net' = net
      BY <2>5 DEF SyncApply
    <3> HIDE DEF entry
    <3> QED
      BY <1>0, <3>1, <3>2 DEF OldValues, TypeOK
  <2> QED
    BY <1>9, <2>1, <2>2, <2>3, <2>4, <2>5 DEF Sync
<1>10. CASE \/ \E n \in Owners : MonitorMisses(n) \/ MonitorHears(n)
            \/ Settle \/ UNCHANGED vars
  BY <1>1, <1>10 DEF MonitorMisses, MonitorHears, Settle, vars, nodeVars
<1> QED
  BY <1>6, <1>7, <1>8, <1>9, <1>10 DEF Next

LEMMA OriginStep ==
  ASSUME TypeOK, TypeOK', Origin, [Next]_vars
  PROVE  Origin'
<1>1. \A x \in Ops : Known(x) => Born(x)'
  BY BornStays DEF Known, Born
<1>2. OldValues
  BY OldValuesStep
<1>3. \A n \in Nodes : /\ item'[n] # NoItem => item'[n].value \in Ops
                       /\ dump'[n] # NoItem => dump'[n].value \in Ops
  BY DEF TypeOK, Item
<1> QED
  BY <1>1, <1>2, <1>3 DEF OldValues, Origin

\* A primary that is ready and does not have v gets it from the write v only.
LEMMA PrimaryStaysWithout ==
  ASSUME TypeOK, [Next]_vars, \A m \in net : m.to # Primary, ~Crash(Primary),
         NEW v \in Ops, NoWrite(ops[v]),
         status[Primary] = "ready", ValueAt(Primary) # v, settled # v
  PROVE  status'[Primary] = "ready" /\ ValueAt(Primary)' # v /\ settled' # v
<1>a. /\ Primary \in Nodes /\ Primary \notin {Replica, Third}
      /\ dump[Primary] = NoItem /\ v # None
  BY MeshAssumption DEF Nodes, TypeOK
<1>1. status'[Primary] = "ready"
  BY <1>a, StatusSteps DEF TypeOK, Crash, Restart, CheckAllPeers, SyncDone
<1>2. settled' # v
  <2>1. CASE Settle
    BY <2>1, <1>a DEF Settle, ValueAt, Owners
  <2>2. CASE ~Settle
    <3>1. settled' = settled \/ settled' = None
      BY <2>2
      DEF Next, vars, BeginSet, BeginDelete, BeginGet, Begin, Handler,
          SetAtPrimary, SetAtPrimaryFails, SetAtReplica, SetAtReplicaFails,
          DeleteAtPrimary, DeleteAtPrimaryFails, DeleteAtReplica, GetAtPrimary,
          GetAtPrimaryFails, GetAtReplica, GetMisses, Deliver, Lose, Crash,
          Restart, Sync, CheckAllPeers, SyncFetch, SyncFails, SyncApply,
          SyncDone, MonitorMisses, MonitorHears
    <3> QED
      BY <1>a, <3>1
  <2> QED
    BY <2>1, <2>2
<1>3. ASSUME item'[Primary] = item[Primary] \/ item'[Primary] = NoItem
      PROVE  ValueAt(Primary)' # v
  BY <1>3, <1>a DEF ValueAt
<1>4. ASSUME NEW o \in Ops, SetAtPrimary(o)
      PROVE  ValueAt(Primary)' # v
  <2>1. o # v
    BY <1>4 DEF SetAtPrimary, NoWrite
  <2>2. item'[Primary].value = o
    BY <1>4, <1>a DEF SetAtPrimary, handleSet, SetWithMetadata, TypeOK
  <2> QED
    BY <1>a, <2>1, <2>2 DEF ValueAt
<1>5. ASSUME NEW o \in Ops, ~SetAtPrimary(o),
             BeginSet(o) \/ BeginDelete(o) \/ BeginGet(o) \/ Handler(o)
      PROVE  item'[Primary] = item[Primary] \/ item'[Primary] = NoItem
  BY <1>a, <1>5
  DEF TypeOK, BeginSet, BeginDelete, BeginGet, Begin, Handler,
      SetAtPrimaryFails, SetAtReplica, SetAtReplicaFails, DeleteAtPrimary,
      DeleteAtPrimaryFails, DeleteAtReplica, GetAtPrimary, GetAtPrimaryFails,
      GetAtReplica, GetMisses, handleSet, handleDelete, handleGet
<1>6. ASSUME NEW m \in net, Deliver(m) \/ Lose(m)
      PROVE  item'[Primary] = item[Primary]
  <2>1. /\ m.to # Primary
        /\ m.type \in {"set", "delete", "replicate", "replicateDelete"}
    BY DEF TypeOK, Message
  <2> QED
    BY <1>a, <1>6, <2>1 DEF TypeOK, Deliver, Lose, handleSet, handleDelete
<1>7. ASSUME NEW n \in Nodes, Crash(n) \/ Restart(n) \/ Sync(n)
      PROVE  item'[Primary] = item[Primary] \/ item'[Primary] = NoItem
  BY <1>a, <1>7
  DEF TypeOK, Crash, Restart, Sync, CheckAllPeers, SyncFetch, SyncFails,
      SyncApply, SyncDone
<1>8. ASSUME \/ \E n \in Owners : MonitorMisses(n) \/ MonitorHears(n)
             \/ Settle \/ UNCHANGED vars
      PROVE  item'[Primary] = item[Primary]
  BY <1>8 DEF MonitorMisses, MonitorHears, Settle, vars
<1>9. ValueAt(Primary)' # v
  BY <1>3, <1>4, <1>5, <1>6, <1>7, <1>8 DEF Next
<1> QED
  BY <1>1, <1>2, <1>9

LEMMA SafeReadBegins ==
  ASSUME TypeOK, ShelteredMesh, ReadMesh, Sheltered, [Next]_vars,
         NEW o \in Ops, BeginGet(o)
  PROVE  SafeRead(o)'
<1>a. /\ Primary \in Nodes /\ Replica \in Nodes /\ Primary # Replica
      /\ Primary \in Owners /\ Replica \in Owners /\ OneIll
  BY MeshAssumption DEF Nodes, Owners, ShelteredMesh
<1>b. crashes \in Nat /\ (crashes = 0 => \A n \in Nodes : Well(n))
  BY DEF TypeOK, ReadMesh
<1>1. /\ ops'[o].settled = settled /\ ops'[o].outages = OutagesOver
      /\ ops'[o].pc = IF view[Primary] = "ALIVE" THEN "primary" ELSE "replica"
  BY DEF BeginGet, Begin, Idle, TypeOK
<1>2. UNCHANGED <<status, view, crashes>>
  BY DEF BeginGet, Begin, nodeVars
<1>3. \A n \in Nodes : Well(n)' = Well(n)
  BY <1>2 DEF Well
<1>4. /\ OutagesOver <= crashes
      /\ OutagesOver = crashes => \A n \in Nodes : Well(n)
      /\ (\E n \in Nodes : ~Well(n)) => crashes = OutagesOver + 1
  BY <1>b DEF OutagesOver
<1>5. ASSUME settled # None
      PROVE  ops'[settled].pc # "idle" /\ NoWrite(ops'[settled])
  <2>1. settled \in Ops /\ Born(settled)
    BY <1>5 DEF TypeOK, ReadMesh
  <2>2. NoWrite(ops[settled])
    BY <1>5, <2>1 DEF ShelteredMesh, Quiescent, Writing, Active, NoWrite
  <2> QED
    BY <2>1, <2>2, BornStays
<1>6. ASSUME ops'[o].pc = "replica"
      PROVE  crashes = OutagesOver + 1 /\ Well(Replica)
  <2>1. ~Well(Primary)
    BY <1>1, <1>6, <1>a DEF Well
  <2> QED
    BY <1>4, <1>a, <2>1 DEF OneIll
<1> QED
  BY <1>1, <1>2, <1>3, <1>4, <1>5, <1>6, <1>a DEF SafeRead, Born

LEMMA SafeReadStays ==
  ASSUME TypeOK, ShelteredMesh, ReadMesh, Sheltered, [Next]_vars,
         NEW o \in Ops, Reader(o), Keeps(o),
         \/ ops'[o].pc = ops[o].pc
         \/ /\ ops[o].pc = "primary" /\ ops'[o].pc = "replica"
            /\ GetAtPrimaryFails(o)
  PROVE  SafeRead(o)'
<1> DEFINE v == ops[o].settled
           u == ops[o].outages
<1>a. /\ Primary \in Nodes /\ Replica \in Nodes /\ Primary # Replica
      /\ Primary \in Owners /\ Replica \in Owners /\ OneIll
  BY MeshAssumption DEF Nodes, Owners, ShelteredMesh
<1>b. crashes \in Nat /\ u \in Nat /\ v \in Ops \cup {None}
  <2>1. ops[o] \in Reading \cup Changing
    BY DEF TypeOK
  <2>2. u \in Nat /\ v \in Ops \cup {None}
    BY <2>1 DEF Reading, Changing, Handlers
  <2> QED
    BY <2>2 DEF TypeOK
<1>c. ops'[o].settled = v /\ ops'[o].outages = u
  BY DEF Keeps
<1>d. /\ u <= crashes /\ (u = crashes => \A n \in Nodes : Well(n))
      /\ v # None => /\ Born(v) /\ NoWrite(ops[v])
                     /\ ops[o].pc = "replica" /\ crashes <= u + 1 =>
                          \/ crashes = u + 1 /\ Well(Replica)
                          \/ /\ status[Primary] = "ready"
                             /\ ValueAt(Primary) # v /\ settled # v
  BY DEF ReadMesh, SafeRead
<1>e. \A m \in net : m.to # Primary
  BY DEF ReadMesh
<1>f. ~env.timeouts
  BY DEF Sheltered
<1> HIDE DEF v, u
<1>1. /\ crashes' \in Nat /\ crashes <= crashes'
      /\ crashes' = crashes => \A n \in Nodes : ~Crash(n)
      /\ \A n \in Nodes : Crash(n) => crashes' = crashes + 1
  BY <1>b, CrashCount
<1>2. \A n \in Nodes : Well(n) /\ ~Crash(n) => Well(n)'
  BY Illness
<1>3. u <= crashes' /\ (u = crashes' => \A n \in Nodes : Well(n)')
  <2>1. u <= crashes'
    BY <1>b, <1>d, <1>1
  <2>2. ASSUME u = crashes' PROVE \A n \in Nodes : Well(n)'
    <3>1. crashes' = crashes /\ u = crashes
      BY <1>b, <1>d, <1>1, <2>2
    <3> QED
      BY <1>d, <1>1, <1>2, <3>1
  <2> QED
    BY <2>1, <2>2
<1>4. ASSUME v # None PROVE ops'[v].pc # "idle" /\ NoWrite(ops'[v])
  BY <1>4, <1>b, <1>d, BornStays
<1>5. ASSUME v # None, ops'[o].pc = "replica", crashes' <= u + 1
      PROVE  \/ crashes' = u + 1 /\ Well(Replica)'
             \/ status'[Primary] = "ready" /\ ValueAt(Primary)' # v /\ settled' # v
  <2>0. v \in Ops /\ crashes <= u + 1
    BY <1>5, <1>b, <1>1
  <2>1. CASE ops[o].pc = "replica"
    <3>1. CASE crashes = u + 1 /\ Well(Replica)
      <4>1. crashes' = crashes
        BY <1>5, <1>b, <1>1, <3>1
      <4> QED
        BY <1>a, <1>1, <1>2, <3>1, <4>1
    <3>2. CASE /\ status[Primary] = "ready" /\ ValueAt(Primary) # v
               /\ settled # v
      <4>1. CASE Crash(Primary)
        <5>1. crashes' = crashes + 1
          BY <1>a, <1>1, <4>1
        <5>2. u = crashes
          BY <1>5, <1>b, <1>d, <5>1
        <5>3. Well(Replica) /\ ~Crash(Replica)
          BY <1>a, <1>d, <3>2, <4>1, <5>2 DEF Crash, TypeOK
        <5> QED
          BY <1>a, <1>2, <5>1, <5>2, <5>3
      <4>2. CASE ~Crash(Primary)
        BY <1>5, <1>d, <1>e, <2>0, <3>2, <4>2, PrimaryStaysWithout
      <4> QED
        BY <4>1, <4>2
    <3> QED
      BY <1>5, <1>d, <2>0, <2>1, <3>1, <3>2
  <2>2. CASE ops[o].pc = "primary" /\ GetAtPrimaryFails(o)
    <3>1. UNCHANGED <<item, status, view, crashes, settled>>
      BY <2>2 DEF GetAtPrimaryFails, nodeVars
    <3>2. CASE ~Well(Primary)
      <4>1. Well(Replica)
        BY <1>a, <3>2 DEF OneIll
      <4>2. crashes = u + 1
        BY <1>a, <1>b, <1>d, <2>0, <3>2
      <4> QED
        BY <3>1, <4>1, <4>2 DEF Well
    <3>3. CASE Well(Primary)
      <4>1. status[Primary] = "ready" /\ item[Primary] = NoItem
        BY <1>f, <2>2, <3>3 DEF Well, Up, GetAtPrimaryFails
      <4>2. ValueAt(Primary) # v
        BY <1>5, <4>1 DEF ValueAt
      <4>3. settled # v
        BY <1>5, <1>a, <4>1, <4>2 DEF ShelteredMesh, Saved
      <4> QED
        BY <3>1, <4>1, <4>2, <4>3 DEF ValueAt
    <3> QED
      BY <3>2, <3>3
  <2> QED
    BY <1>5, <2>1, <2>2
<1> QED
  BY <1>3, <1>4, <1>5, <1>c DEF SafeRead, Born

LEMMA ReadMeshStep ==
  ASSUME TypeOK, TypeOK', ShelteredMesh, ReadMesh, [Next]_vars
  PROVE  ReadMesh'
<1>1. Origin'
  BY OriginStep DEF ReadMesh
<1>2. ASSUME settled' # None PROVE Born(settled)'
  <2>1. CASE Settle
    <3>1. settled' = item[Primary].value /\ item'[Primary] # NoItem
          /\ item'[Primary].value = settled'
      BY <2>1 DEF Settle, Owners
    <3> QED
      BY <1>1, <3>1 DEF Origin, Nodes, Born
  <2>2. CASE settled' = settled
    <3>1. settled \in Ops /\ Born(settled)
      BY <1>2, <2>2 DEF TypeOK, ReadMesh
    <3> QED
      BY <2>2, <3>1, BornStays DEF Born
  <2>3. Settle \/ settled' = settled \/ settled' = None
    BY DEF Next, vars, BeginSet, BeginDelete, BeginGet, Begin, Handler,
          SetAtPrimary, SetAtPrimaryFails, SetAtReplica, SetAtReplicaFails,
          DeleteAtPrimary, DeleteAtPrimaryFails, DeleteAtReplica, GetAtPrimary,
          GetAtPrimaryFails, GetAtReplica, GetMisses, Deliver, Lose, Crash,
          Restart, Sync, CheckAllPeers, SyncFetch, SyncFails, SyncApply,
          SyncDone, MonitorMisses, MonitorHears
  <2> QED
    BY <1>2, <2>1, <2>2, <2>3
\* A read under way was so before, or begins.
<1>3. ASSUME NEW o \in Ops, Reader(o)'
      PROVE  \/ /\ Reader(o) /\ Keeps(o)
                /\ \/ ops'[o].pc = ops[o].pc
                   \/ /\ ops[o].pc = "primary" /\ ops'[o].pc = "replica"
                      /\ GetAtPrimaryFails(o)
             \/ BeginGet(o)
  <2>1. ~BeginSet(o) /\ ~BeginDelete(o)
    BY <1>3, Moves DEF BeginSet, BeginDelete, Reader
  <2> QED
    BY <1>3, <2>1, HandlerSteps DEF Reader, Active, Keeps
<1>4. ASSUME NEW o \in Ops, Reader(o)', ops'[o].settled # None
      PROVE  Sheltered
  <2>1. CASE BeginGet(o)
    <3>1. ops'[o].settled = settled
      BY <2>1 DEF BeginGet, Begin, Idle, TypeOK
    <3> QED
      BY <1>4, <3>1 DEF ShelteredMesh
  <2>2. CASE Reader(o) /\ Keeps(o)
    BY <1>4, <2>2 DEF ReadMesh, Keeps
  <2> QED
    BY <1>3, <1>4, <2>1, <2>2
<1>5. ASSUME Sheltered
      PROVE  /\ \A m \in net' : m.to # Primary
             /\ crashes' = 0 => \A n \in Nodes : Well(n)'
             /\ \A o \in Ops : Reader(o)' => SafeRead(o)'
  <2>1. \A m \in net' : m.to # Primary
    <3>1. \A m \in net' : m \in net \/ m.to = Replica
      <4>1. ASSUME NEW o \in Ops,
                   BeginSet(o) \/ BeginDelete(o) \/ BeginGet(o) \/ Handler(o)
            PROVE  \A m \in net' : m \in net \/ m.to = Replica
        BY <1>5, <4>1, GatewaySends
      <4>2. ASSUME NEW k \in net, Deliver(k) \/ Lose(k)
            PROVE  \A m \in net' : m \in net \/ m.to = Replica
        BY <4>2, NetDelivery
      <4> QED
        BY <4>1, <4>2
        DEF Next, vars, Crash, Restart, Sync, CheckAllPeers, SyncFetch,
            SyncFails, SyncApply, SyncDone, MonitorMisses, MonitorHears, Settle
    <3> QED
      BY <1>5, <3>1, MeshAssumption DEF ReadMesh
  <2>2. ASSUME crashes' = 0 PROVE \A n \in Nodes : Well(n)'
    <3>1. crashes \in Nat
      BY DEF TypeOK
    <3>2. crashes = 0 /\ \A n \in Nodes : ~Crash(n)
      BY <2>2, <3>1, CrashCount
    <3> QED
      BY <1>5, <3>2, Illness DEF ReadMesh
  <2>3. ASSUME NEW o \in Ops, Reader(o)' PROVE SafeRead(o)'
    BY <1>3, <1>5, <2>3, SafeReadBegins, SafeReadStays
  <2> QED
    BY <2>1, <2>2, <2>3
<1> QED
  BY <1>1, <1>2, <1>4, <1>5, SameEnvironment DEF ReadMesh

LEMMA ReadMeshInvariant == Spec => []ReadMesh
<1>1. Init => ReadMesh
  BY DEF Init, ReadMesh, Origin, Reader, Active, Idle, Well, Nodes
<1> QED
  BY <1>1, ReadMeshStep, ShelteredMeshInvariant, MeshTypeCorrect, PTL DEF Spec

(***************************************************************************)
(* RouteGet finds a settled value whatever single node is down, not yet    *)
(* suspected or up with an empty cache, also when the outage begins or     *)
(* ends during the read, for any number of operations and crashes.         *)
(***************************************************************************)
THEOREM FailoverHidesOutages == Spec => SettledReads
<1> DEFINE Ends(o) ==
             /\ ops[o].kind = "get" /\ Active(o) /\ ops'[o].pc = "done"
             /\ ops[o].settled # None /\ ops[o].settled = settled
             /\ crashes <= ops[o].outages + 1
<1>1. ASSUME TypeOK, ShelteredMesh, ReadMesh, [Next]_vars, NEW o \in Ops, Ends(o)
      PROVE  ops'[o].result = settled
  <2>a. /\ Primary \in Nodes /\ Replica \in Nodes
        /\ Primary \in Owners /\ Replica \in Owners
    BY DEF Nodes, Owners
  <2>b. settled # None /\ Sheltered /\ Saved(settled) /\ ~env.timeouts
    BY <1>1 DEF ShelteredMesh, Sheltered
  <2>1. PICK p \in Ops : BeginSet(p) \/ BeginDelete(p) \/ BeginGet(p) \/ Handler(p)
    <3>1. ops' # ops
      BY <1>1 DEF Active
    <3> QED
      BY <1>1, <3>1
      DEF Next, vars, Deliver, Lose, Crash, Restart, Sync, CheckAllPeers,
          SyncFetch, SyncFails, SyncApply, SyncDone, MonitorMisses,
          MonitorHears, Settle
  <2>2. p = o
    <3> SUFFICES ASSUME p # o PROVE ops'[o].pc = ops[o].pc
      BY <1>1 DEF Active
    <3> QED
      BY <1>1, <2>1, Moves
      DEF BeginSet, BeginDelete, BeginGet, Handler, SetAtPrimary,
          SetAtPrimaryFails, SetAtReplica, SetAtReplicaFails, DeleteAtPrimary,
          DeleteAtPrimaryFails, DeleteAtReplica, GetAtPrimary,
          GetAtPrimaryFails, GetAtReplica, GetMisses
  <2>3. GetAtPrimary(o) \/ GetAtPrimaryFails(o) \/ GetAtReplica(o) \/ GetMisses(o)
    BY <1>1, <2>1, <2>2
    DEF BeginSet, BeginDelete, BeginGet, Begin, Unstarted, Idle, Active,
        Handler, SetAtPrimary, SetAtPrimaryFails, SetAtReplica,
        SetAtReplicaFails, DeleteAtPrimary, DeleteAtPrimaryFails,
        DeleteAtReplica
  <2>4. ~GetAtPrimaryFails(o)
    BY <1>1, Moves DEF GetAtPrimaryFails
  \* A hit is the settled value.
  <2>5. ASSUME NEW n \in Owners, item[n] # NoItem
        PROVE  item[n].value = settled
    <3>1. n \in Nodes /\ item[n].value \in Ops
      BY <1>1, <2>5 DEF TypeOK, Item, Owners, Nodes
    <3> QED
      BY <2>b, <2>5, <3>1, MeshAssumption DEF Saved, ValueAt
  <2>6. CASE GetAtPrimary(o)
    BY <1>1, <2>6, <2>5, <2>a, Moves DEF GetAtPrimary, handleGet
  <2>7. CASE GetAtReplica(o)
    BY <1>1, <2>7, <2>5, <2>a, Moves DEF GetAtReplica, handleGet
  <2>8. CASE GetMisses(o)
    <3>1. ops[o].pc = "replica" /\ Reader(o)
      BY <1>1, <2>8 DEF GetMisses, Reader
    <3>2. Well(Replica)
      BY <1>1, <2>b, <3>1 DEF ReadMesh, SafeRead
    <3>3. status[Replica] = "ready" /\ view[Replica] = "ALIVE"
      BY <2>a, <3>2 DEF Well
    <3>4. item[Replica] # NoItem
      BY <2>a, <2>b, <3>3 DEF Saved, ValueAt
    <3> QED
      BY <2>8, <2>b, <3>3, <3>4 DEF GetMisses, Up
  <2> QED
    BY <2>3, <2>4, <2>6, <2>7, <2>8
<1>2. TypeOK /\ ShelteredMesh /\ ReadMesh /\ [Next]_vars =>
        \A o \in Ops : Ends(o) => ops'[o].result = settled
  BY <1>1
<1> QED
  BY <1>2, MeshTypeCorrect, ShelteredMeshInvariant, ReadMeshInvariant, PTL
  DEF Spec, SettledReads

=============================================================================
