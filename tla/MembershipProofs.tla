-------------------------- MODULE MembershipProofs --------------------------
(***************************************************************************)
(* Joins and restarts in Membership, for any members, keys, orders of the  *)
(* names and number of writes, crashes and refreshes.                      *)
(***************************************************************************)
EXTENDS Membership, TLAPS, WellFoundedInduction

-----------------------------------------------------------------------------
(* The owners of a key. *)

\* Before the join, and whether the key moves to the new node.
P(k) == First(Members, k)
R(k) == First(Members \ {P(k)}, k)
Originals(k) == {P(k), R(k)}
Moves(k) == First(Servers, k) = Joiner

\* A set of names that is not empty has exactly one first name for a key.
LEMMA FirstIs ==
  ASSUME env \in Environments, NEW k \in Keys, NEW S \in SUBSET Names, S # {}
  PROVE  /\ First(S, k) \in S
         /\ \A n \in S :
              (\A m \in S : env.order[k][n] <= env.order[k][m])
                => n = First(S, k)
         /\ \A m \in S : env.order[k][First(S, k)] <= env.order[k][m]
<1> DEFINE rank == env.order[k]
           L == OpToRel(<, Nat)
           T == {rank[n] : n \in S}
<1>0. /\ rank \in [Names -> Nat]
      /\ \A m, n \in Names : rank[m] = rank[n] => m = n
  BY MembershipAssumption DEF Environment
<1> HIDE DEF rank
<1>1. IsWellFoundedOn(L, Nat)
  BY NatLessThanWellFounded
<1>2. T \subseteq Nat /\ T # {}
  BY <1>0
<1>3. PICK t \in T : \A u \in T : ~(<<u, t>> \in L)
  <2> HIDE DEF L, T
  <2> QED BY <1>1, <1>2, WFMin
<1>4. \A u \in T : ~(u < t)
  BY <1>2, <1>3 DEF OpToRel
<1>5. \E n \in S : \A m \in S : rank[n] <= rank[m]
  <2>1. PICK n \in S : t = rank[n]
    OBVIOUS
  <2>2. ASSUME NEW m \in S PROVE rank[n] <= rank[m]
    <3>1. rank[m] \in T /\ rank[m] \in Nat /\ rank[n] \in Nat
      BY <1>0
    <3>2. ~(rank[m] < rank[n])
      BY <1>4, <2>1, <3>1
    <3> QED
      BY <3>1, <3>2
  <2> QED
    BY <2>2
<1>6. First(S, k) = CHOOSE n \in S : \A m \in S : rank[n] <= rank[m]
  BY DEF First, rank
<1>7. First(S, k) \in S /\ \A m \in S : rank[First(S, k)] <= rank[m]
  BY <1>5, <1>6
<1>8. ASSUME NEW n \in S, \A m \in S : rank[n] <= rank[m]
      PROVE  n = First(S, k)
  <2>1. rank[n] <= rank[First(S, k)] /\ rank[First(S, k)] <= rank[n]
    BY <1>7, <1>8
  <2>2. rank[n] \in Nat /\ rank[First(S, k)] \in Nat
    BY <1>0, <1>7
  <2> QED
    BY <1>0, <1>7, <2>1, <2>2
<1> QED
  BY <1>7, <1>8 DEF rank

\* A name added to a ring comes first or changes nothing about who does.
LEMMA FirstWith ==
  ASSUME env \in Environments, NEW k \in Keys, NEW S \in SUBSET Names, S # {},
         NEW n \in Names
  PROVE  First(S \cup {n}, k) \in {n, First(S, k)}
<1> DEFINE T == S \cup {n}
<1>1. /\ First(T, k) \in T
      /\ \A m \in T : env.order[k][First(T, k)] <= env.order[k][m]
  BY FirstIs
<1>2. First(T, k) \in S => First(T, k) = First(S, k)
  BY <1>1, FirstIs
<1> QED
  BY <1>1, <1>2

\* Primary and replica before the join, and what the new node can change.
LEMMA Places ==
  ASSUME env \in Environments, NEW k \in Keys
  PROVE  /\ P(k) \in Members /\ R(k) \in Members /\ P(k) # R(k)
         /\ GetNodes(Members, k) = <<P(k), R(k)>>
         /\ Moves(k) => GetNodes(Servers, k) = <<Joiner, P(k)>>
         /\ ~Moves(k) => /\ GetNodes(Servers, k)[1] = P(k)
                         /\ GetNodes(Servers, k)[2] \in {Joiner, R(k)}
<1>0. /\ Joiner \notin Members /\ Members \subseteq Names /\ Joiner \in Names
      /\ Members # {} /\ \A p \in Members : Members \ {p} # {}
  BY MembershipAssumption DEF Names, Servers
<1>1. P(k) \in Members
  BY <1>0, FirstIs DEF P
<1>2. R(k) \in Members /\ R(k) # P(k)
  <2>1. Members \ {P(k)} # {} /\ Members \ {P(k)} \subseteq Names
    BY <1>0, <1>1
  <2>2. R(k) \in Members \ {P(k)}
    BY <2>1, FirstIs DEF R
  <2> QED
    BY <2>2
<1>3. GetNodes(Members, k) = <<P(k), R(k)>>
  BY DEF GetNodes, P, R
<1>4. CASE Moves(k)
  <2>1. First(Servers, k) = Joiner /\ Servers \ {Joiner} = Members
    BY <1>0, <1>4 DEF Moves, Servers
  <2> QED
    BY <1>1, <1>2, <1>3, <1>4, <2>1 DEF GetNodes, P
<1>5. CASE ~Moves(k)
  <2>1. First(Servers, k) = P(k)
    BY <1>0, <1>5, FirstWith DEF Moves, Servers, P
  <2>2. Servers \ {P(k)} = (Members \ {P(k)}) \cup {Joiner}
    BY <1>0, <1>1 DEF Servers
  <2>3. First(Servers \ {P(k)}, k) \in {Joiner, R(k)}
    <3>1. Members \ {P(k)} \subseteq Names /\ Members \ {P(k)} # {}
      BY <1>0, <1>1
    <3>2. First((Members \ {P(k)}) \cup {Joiner}, k)
            \in {Joiner, First(Members \ {P(k)}, k)}
      BY <1>0, <3>1, FirstWith
    <3> QED
      BY <2>2, <3>2 DEF R
  <2> QED
    BY <1>1, <1>2, <1>3, <1>5, <2>1, <2>3 DEF GetNodes
<1> QED
  BY <1>4, <1>5

\* The gateway's ring before and after the switch.
LEMMA GatewayOwners ==
  ASSUME env \in Environments, NEW k \in Keys, gateway \in {Members, Servers}
  PROVE  /\ Joiner \notin gateway => PrimaryOf(k) = P(k) /\ ReplicaOf(k) = R(k)
         /\ Joiner \in gateway /\ Moves(k)
              => PrimaryOf(k) = Joiner /\ ReplicaOf(k) = P(k)
         /\ Joiner \in gateway /\ ~Moves(k)
              => PrimaryOf(k) = P(k) /\ ReplicaOf(k) \in {Joiner, R(k)}
<1>1. Joiner \in Servers /\ Joiner \notin Members
  BY MembershipAssumption DEF Servers
<1>2. CASE gateway = Members
  BY <1>1, <1>2, Places DEF PrimaryOf, ReplicaOf
<1>3. CASE gateway = Servers
  BY <1>1, <1>3, Places DEF PrimaryOf, ReplicaOf
<1> QED
  BY <1>2, <1>3

\* A node is found at its id and at its address.
LEMMA NodeAtIs ==
  /\ \A name \in Names : NodeAt(name) \in Servers
  /\ \A n \in Servers : NodeAt(n) = n
  BY MembershipAssumption DEF NodeAt, Names

-----------------------------------------------------------------------------
(* The inductive invariant. *)

Values == 0 .. env.writes

\* Keys and values of a request or a batch.
Items(f) ==
  /\ DOMAIN f \subseteq Keys
  /\ \A k \in DOMAIN f : f[k] \in Values \ {Absent}

TypeInv ==
  /\ env \in Environments
  /\ ring \in [Servers -> SUBSET Names]
  /\ \A n \in Servers, p \in Members : p \in ring[n] \/ AddrOf[p] \in ring[n]
  /\ gateway \in {Members, Servers}
  /\ cache \in [Servers -> [Keys -> Values]]
  /\ status \in [Servers -> {"down", "starting", "syncing", "ready"}]
  /\ syncFrom \in [Servers -> SUBSET Members]
  /\ \A m \in net : /\ m.type \in {"set", "replicate", "bulk"}
                    /\ m.to \in Servers
                    /\ Items(m.items)
  /\ DOMAIN transfer = Members
  /\ transfer = [n \in Members |-> transfer[n]]
  /\ \A n \in Members : Items(transfer[n])
  /\ reported \subseteq Members
  /\ latest \in [Keys -> Values]
  /\ writes \in Nat
  /\ crashes \in Nat
  /\ begun \in BOOLEAN /\ hasty \in BOOLEAN
  /\ safe \subseteq Keys

FaultTypes == missed \subseteq Servers \X Keys /\ refused \subseteq Keys

\* One member at a time is out, and without its cache while it is down.
Outages ==
  /\ \A n \in Servers :
       status[n] = "down" => \A k \in Keys : cache[n][k] = Absent
  /\ \A n \in Servers : syncFrom[n] # {} => status[n] = "syncing"
  /\ \A n \in Members : status[n] # "ready" => crashes > 0
  /\ \A m, n \in Members :
       status[m] # "ready" /\ status[n] # "ready" => m = n

\* The order of a join's steps.
Migration ==
  /\ ~begun => /\ reported = {} /\ ~hasty
               /\ \A n \in Members : transfer[n] = NoTransfer
  /\ Joiner \in gateway => /\ reported = Members
                           /\ \A n \in Servers : status[n] = "ready"

(***************************************************************************)
(* With ids, every ring has the members and perhaps the new node, so that  *)
(* only a key's original owners and the new node ever get it.              *)
(***************************************************************************)
NamedRings ==
  env.named =>
    /\ ring[Joiner] = Servers
    /\ \A n \in Members :
         /\ ring[n] \in {Members, Servers}
         /\ status[n] \in {"starting", "syncing"}
              => ring[n] = Members \/ hasty
    /\ \A m \in net : \A k \in DOMAIN m.items :
         m.to \in Originals(k) \cup {Joiner}
    /\ \A n \in Members, k \in Keys :
         cache[n][k] # Absent => n \in Originals(k)

Has(n, k) == cache[n][k] = latest[k]

(***************************************************************************)
(* An owner has the value, or is on the way to it while the other has it   *)
(* and cannot crash; or it declined it, being rebalanced too early.        *)
(***************************************************************************)
Kept(n, k) ==
  \/ Has(n, k)
  \/ \E o \in Originals(k) \ {n} :
       /\ Has(o, k) /\ status[o] = "ready"
       /\ \/ status[n] \in {"down", "starting"}
          \/ status[n] = "syncing" /\ o \in syncFrom[n]
          \/ n = R(k) /\ hasty /\ crashes > 0

\* The new node has the value or is about to pull it.
Arrives(k) ==
  \/ Has(Joiner, k)
  \/ status[Joiner] \in {"down", "starting"}
  \/ /\ status[Joiner] = "syncing"
     /\ \E o \in Originals(k) \cap syncFrom[Joiner] : Has(o, k)

\* What a report is worth: the new node has no other value, and has this one
\* or is about to pull it unless that pull failed.
Delivered(k) ==
  /\ cache[Joiner][k] \in {Absent, latest[k]}
  /\ <<Joiner, k>> \notin missed => Arrives(k)

\* An owner that has reported, or will report, without sending the key again.
Without(n, k) ==
  n \in reported \/ (transfer[n] # NoTransfer /\ k \notin DOMAIN transfer[n])

(***************************************************************************)
(* The new node has what such an owner reported, or the owner had been too *)
(* early and the other one has still to send it.                           *)
(***************************************************************************)
Promised(n, k) ==
  \/ Delivered(k)
  \/ /\ hasty /\ crashes > 0
     /\ \E o \in Originals(k) \ {n} : Has(o, k) /\ ~Without(o, k)

\* No member, request or batch has another value of the key.
Latest(k) ==
  /\ latest[k] # Absent
  /\ \A n \in Members : cache[n][k] \in {Absent, latest[k]}
  /\ \A m \in net : k \in DOMAIN m.items => m.items[k] = latest[k]
  /\ \A n \in Members :
       k \in DOMAIN transfer[n] => transfer[n][k] = latest[k]

SafeKey(k) ==
  /\ Latest(k)
  /\ \A n \in Originals(k) :
       /\ Kept(n, k)
       /\ Moves(k) /\ k \notin refused /\ Without(n, k) => Promised(n, k)

NamedKeys == Named => \A k \in safe : Pulled(k) => SafeKey(k)

\* Written once, a key has no other value, and without crashes both keep it.
BareKeys ==
  Bare => \A k \in safe :
            latest[k] # Absent /\ \A n \in Originals(k) : Has(n, k)

-----------------------------------------------------------------------------
(* Types. *)

LEMMA StoreType ==
  ASSUME TypeInv, NEW n \in Servers, NEW f, Items(f), store(n, f)
  PROVE  /\ cache' \in [Servers -> [Keys -> Values]]
         /\ \A q \in Servers \ {n} : cache'[q] = cache[q]
         /\ \A k \in Keys :
              cache'[n][k] = IF k \in DOMAIN f THEN f[k] ELSE cache[n][k]
  BY DEF TypeInv, Items, store

\* The second target of a ring, and what a node sends there.
LEMMA SecondType ==
  ASSUME TypeInv, NEW n \in Servers, NEW k \in Keys
  PROVE  /\ GetNodes(ring[n], k)[2] \in ring[n]
         /\ NodeAt(GetNodes(ring[n], k)[2]) \in Servers
<1>1. PICK p \in Members, q \in Members : p # q
  BY MembershipAssumption
<1>2. {p, AddrOf[p]} \cap {q, AddrOf[q]} = {}
  BY <1>1, MembershipAssumption DEF Servers
<1>3. ring[n] \subseteq Names /\ ring[n] # {}
  BY DEF TypeInv
<1>4. First(ring[n], k) \in ring[n]
  BY <1>3, FirstIs DEF TypeInv
<1>5. ring[n] \ {First(ring[n], k)} # {}
  <2>1. PICK x \in ring[n] : x \in {p, AddrOf[p]}
    BY DEF TypeInv
  <2>2. PICK y \in ring[n] : y \in {q, AddrOf[q]}
    BY DEF TypeInv
  <2> QED
    BY <1>2, <2>1, <2>2
<1>6. First(ring[n] \ {First(ring[n], k)}, k) \in ring[n]
  <2> DEFINE S == ring[n] \ {First(ring[n], k)}
  <2>1. S \in SUBSET Names /\ S # {}
    BY <1>3, <1>5
  <2> HIDE DEF S
  <2>2. First(S, k) \in S
    BY <2>1, FirstIs DEF TypeInv
  <2> QED
    BY <2>2 DEF S
<1> QED
  BY <1>3, <1>6, NodeAtIs DEF GetNodes

LEMMA HandleSetType ==
  ASSUME TypeInv, NEW n \in Servers, NEW k \in Keys,
         NEW w \in Values \ {Absent}, NEW others,
         \A m \in others : /\ m.type \in {"set", "replicate", "bulk"}
                           /\ m.to \in Servers /\ Items(m.items),
         handleSet(n, k, w, others)
  PROVE  /\ cache' \in [Servers -> [Keys -> Values]]
         /\ cache' = [cache EXCEPT ![n][k] = w]
         /\ \A m \in net' : /\ m.type \in {"set", "replicate", "bulk"}
                            /\ m.to \in Servers /\ Items(m.items)
         /\ \A m \in net' :
              \/ m \in others
              \/ /\ m.to = NodeAt(GetNodes(ring[n], k)[2])
                 /\ DOMAIN m.items = {k} /\ m.items[k] = w
<1> DEFINE second == GetNodes(ring[n], k)[2]
           new == Request("replicate", NodeAt(second), Only(k, w))
<1>1. cache' = [cache EXCEPT ![n][k] = w]
  BY DEF handleSet
<1>2. net' \subseteq others \cup {new}
  BY DEF handleSet
<1>3. /\ new.type = "replicate" /\ new.to = NodeAt(second)
      /\ DOMAIN new.items = {k} /\ new.items[k] = w
  BY DEF Request, Only
<1>4. NodeAt(second) \in Servers
  BY SecondType
<1>5. Items(new.items)
  BY <1>3 DEF Items
<1> HIDE DEF new, second
<1>6. cache' \in [Servers -> [Keys -> Values]]
  BY <1>1 DEF TypeInv
<1> QED
  BY <1>1, <1>2, <1>3, <1>4, <1>5, <1>6 DEF second

LEMMA NewRingType ==
  ASSUME NEW n \in Servers
  PROVE  /\ NewRing(n) \subseteq Names
         /\ \A p \in Members : p \in NewRing(n) \/ AddrOf[p] \in NewRing(n)
<1>1. ASSUME NEW p \in Members
      PROVE  PeerName(p) \in {p, AddrOf[p]} /\ PeerName(p) \in Names
  BY DEF PeerName, Names, Servers
<1>2. n \in Names
  BY DEF Names
<1> QED
  BY <1>1, <1>2 DEF NewRing, Peers

LEMMA InitType == Init => TypeInv
<1> SUFFICES ASSUME Init PROVE TypeInv
  OBVIOUS
<1> USE MembershipAssumption DEF Init
<1>1. env \in Environment /\ 0 \in Values
  BY DEF Environment, Values
<1>2. \A n \in Servers : NewRing(n) \subseteq Names
  BY NewRingType
<1>3. ring \in [Servers -> SUBSET Names]
  BY <1>2
<1>4. \A n \in Servers, p \in Members : p \in ring[n] \/ AddrOf[p] \in ring[n]
  BY NewRingType
<1>5. /\ cache \in [Servers -> [Keys -> Values]]
      /\ latest \in [Keys -> Values]
  BY <1>1 DEF Absent
<1>6. /\ DOMAIN transfer = Members
      /\ transfer = [n \in Members |-> transfer[n]]
      /\ \A n \in Members : Items(transfer[n])
  BY DEF NoTransfer, Items
<1> QED
  BY <1>3, <1>4, <1>5, <1>6 DEF TypeInv

LEMMA NextType == TypeInv /\ [Next]_vars => TypeInv'
<1> SUFFICES ASSUME TypeInv, [Next]_vars PROVE TypeInv'
  OBVIOUS
<1>0. /\ Members \subseteq Servers /\ Joiner \in Servers
      /\ Servers = Members \cup {Joiner}
      /\ \A p \in Servers : p \in Names /\ AddrOf[p] \in Names
  BY DEF Names, Servers
<1>e. env \in Environments /\ env.writes \in Nat
  BY MembershipAssumption DEF TypeInv, Environment
<1> USE <1>0
<1>1. ASSUME NEW k \in Keys, handleAPISet(k) PROVE TypeInv'
  <2> DEFINE w == writes + 1
  <2>1. /\ w \in Values \ {Absent} /\ w \in Nat /\ env' = env
        /\ writes' = w /\ latest' = [latest EXCEPT ![k] = w]
        /\ safe' = safe \ {k}
        /\ UNCHANGED <<ring, gateway, status, syncFrom, transfer, reported,
                       begun, hasty, crashes>>
    BY <1>1, <1>e DEF handleAPISet, TypeInv, Values, Absent, nodeVars, joinVars,
                      faultVars
  <2>2. PrimaryOf(k) \in Servers /\ ReplicaOf(k) \in Servers
    BY GatewayOwners, Places, <1>e DEF TypeInv
  <2> DEFINE set == Request("set", ReplicaOf(k), Only(k, w))
  <2>3. set.type = "set" /\ set.to \in Servers /\ Items(set.items)
    <3>1. /\ set.type = "set" /\ set.to = ReplicaOf(k)
          /\ DOMAIN set.items = {k} /\ set.items[k] = w
      BY DEF Request, Only
    <3> HIDE DEF set
    <3> QED
      BY <2>1, <2>2, <3>1 DEF Items
  <2>4. \/ handleSet(PrimaryOf(k), k, w, net \cup {set})
        \/ handleSet(ReplicaOf(k), k, w, net)
    BY <1>1 DEF handleAPISet
  <2> HIDE DEF w, set
  <2>5. /\ cache' \in [Servers -> [Keys -> Values]]
        /\ \A m \in net' : /\ m.type \in {"set", "replicate", "bulk"}
                           /\ m.to \in Servers /\ Items(m.items)
    <3>1. CASE handleSet(PrimaryOf(k), k, w, net \cup {set})
      <4>1. \A m \in net \cup {set} :
              /\ m.type \in {"set", "replicate", "bulk"}
              /\ m.to \in Servers /\ Items(m.items)
        BY <2>3 DEF TypeInv
      <4> QED
        BY <2>1, <2>2, <3>1, <4>1, HandleSetType
    <3>2. CASE handleSet(ReplicaOf(k), k, w, net)
      <4>1. \A m \in net : /\ m.type \in {"set", "replicate", "bulk"}
                           /\ m.to \in Servers /\ Items(m.items)
        BY DEF TypeInv
      <4> QED
        BY <2>1, <2>2, <3>2, <4>1, HandleSetType
    <3> QED
      BY <2>4, <3>1, <3>2
  <2>6. latest' \in [Keys -> Values]
    BY <2>1 DEF TypeInv
  <2> QED
    BY <2>1, <2>5, <2>6 DEF TypeInv, Items, Values
<1>2. ASSUME NEW m \in net, Deliver(m) PROVE TypeInv'
  <2>0. /\ env' = env
        /\ UNCHANGED <<ring, gateway, status, syncFrom, transfer, reported,
                       begun, hasty, crashes, latest, writes, safe>>
    BY <1>2 DEF Deliver, nodeVars, joinVars, faultVars, clientVars
  <2>1. /\ m.to \in Servers /\ Items(m.items)
        /\ \A q \in net \ {m} : /\ q.type \in {"set", "replicate", "bulk"}
                                /\ q.to \in Servers /\ Items(q.items)
    BY DEF TypeInv
  <2>2. /\ cache' \in [Servers -> [Keys -> Values]]
        /\ \A q \in net' : /\ q.type \in {"set", "replicate", "bulk"}
                           /\ q.to \in Servers /\ Items(q.items)
    <3>1. ASSUME NEW k \in DOMAIN m.items,
                 handleSet(m.to, k, m.items[k], net \ {m})
          PROVE  /\ cache' \in [Servers -> [Keys -> Values]]
                 /\ \A q \in net' : /\ q.type \in {"set", "replicate", "bulk"}
                                    /\ q.to \in Servers /\ Items(q.items)
      <4>1. k \in Keys /\ m.items[k] \in Values \ {Absent}
        BY <2>1 DEF Items
      <4> QED
        BY <2>1, <3>1, <4>1, HandleSetType
    <3>2. CASE store(m.to, m.items) /\ net' = net \ {m}
      BY <2>1, <3>2, StoreType
    <3> QED
      BY <1>2, <3>1, <3>2 DEF Deliver
  <2> QED
    BY <2>0, <2>2 DEF TypeInv, Items, Values
<1>3. ASSUME NEW m \in net, Lose(m) PROVE TypeInv'
  BY <1>3 DEF Lose, TypeInv, Items, Values, nodeVars, joinVars, faultVars,
              clientVars
<1>4. ASSUME NEW n \in Members, RebalanceForNewNode(n) PROVE TypeInv'
  <2> DEFINE newRing == AddNode(ring[n], Joiner)
             moved == {k \in Holds(n) : GetNodes(newRing, k)[1] = Joiner}
  <2>1. /\ env' = env
        /\ UNCHANGED <<gateway, cache, status, syncFrom, net, latest, writes,
                       crashes>>
        /\ begun' = TRUE /\ hasty' \in BOOLEAN
        /\ ring' = [ring EXCEPT ![n] = newRing]
        /\ transfer' = [transfer EXCEPT ![n] = [k \in moved |-> cache[n][k]]]
        /\ reported' \subseteq Members
        /\ safe' \subseteq Keys
    BY <1>4 DEF RebalanceForNewNode, nodeVars, faultVars, clientVars, TypeInv,
                Settled
  <2>2. newRing \subseteq Names
           /\ \A p \in Members : p \in newRing \/ AddrOf[p] \in newRing
    BY MembershipAssumption DEF AddNode, TypeInv
  <2>3. Items([k \in moved |-> cache[n][k]])
    <3>1. moved \subseteq Keys
             /\ \A k \in moved : cache[n][k] \in Values \ {Absent}
      BY DEF Holds, TypeInv
    <3> HIDE DEF moved
    <3> QED
      BY <3>1 DEF Items
  <2> HIDE DEF newRing, moved
  <2>4. /\ ring' \in [Servers -> SUBSET Names]
        /\ \A q \in Servers, p \in Members :
             p \in ring'[q] \/ AddrOf[p] \in ring'[q]
    BY <2>1, <2>2 DEF TypeInv
  <2>5. /\ DOMAIN transfer' = Members
        /\ transfer' = [q \in Members |-> transfer'[q]]
        /\ \A q \in Members : Items(transfer'[q])
    BY <2>1, <2>3 DEF TypeInv
  <2> QED
    BY <2>1, <2>4, <2>5 DEF TypeInv, Items, Values
<1>5. ASSUME NEW n \in Members, BulkTransfer(n) PROVE TypeInv'
  <2>1. /\ env' = env
        /\ UNCHANGED <<ring, gateway, status, syncFrom, net, latest, writes,
                       crashes, begun, hasty, safe>>
        /\ transfer' = [transfer EXCEPT ![n] = NoTransfer]
        /\ reported' \subseteq Members
    BY <1>5 DEF BulkTransfer, nodeVars, faultVars, clientVars, TypeInv
  <2>2. cache' \in [Servers -> [Keys -> Values]]
    BY <1>5, StoreType DEF BulkTransfer, TypeInv
  <2>3. /\ DOMAIN transfer' = Members
        /\ transfer' = [q \in Members |-> transfer'[q]]
        /\ \A q \in Members : Items(transfer'[q])
    BY <2>1 DEF TypeInv, Items, NoTransfer
  <2> QED
    BY <2>1, <2>2, <2>3 DEF TypeInv, Items, Values
<1>6. ASSUME NEW n \in Members, BulkTransferFails(n) PROVE TypeInv'
  <2> DEFINE bulk == Request("bulk", Joiner, transfer[n])
  <2>1. /\ env' = env
        /\ UNCHANGED <<ring, gateway, cache, status, syncFrom, latest, writes,
                       crashes, begun, hasty, safe, reported>>
        /\ transfer' = [transfer EXCEPT ![n] = NoTransfer]
        /\ net' \subseteq net \cup {bulk}
    BY <1>6 DEF BulkTransferFails, nodeVars, faultVars, clientVars, TypeInv
  <2>2. bulk.type = "bulk" /\ bulk.to = Joiner /\ Items(bulk.items)
    BY DEF Request, TypeInv
  <2> HIDE DEF bulk
  <2>3. \A m \in net' : /\ m.type \in {"set", "replicate", "bulk"}
                        /\ m.to \in Servers /\ Items(m.items)
    BY <2>1, <2>2 DEF TypeInv
  <2>4. /\ DOMAIN transfer' = Members
        /\ transfer' = [q \in Members |-> transfer'[q]]
        /\ \A q \in Members : Items(transfer'[q])
    BY <2>1 DEF TypeInv, Items, NoTransfer
  <2> QED
    BY <2>1, <2>3, <2>4 DEF TypeInv, Items, Values
<1>7. ASSUME NEW n \in Servers, Crash(n) PROVE TypeInv'
  <2>1. /\ env' = env
        /\ UNCHANGED <<ring, gateway, net, latest, writes, begun, hasty,
                       reported>>
        /\ crashes' \in Nat /\ safe' \subseteq Keys
        /\ status' \in [Servers -> {"down", "starting", "syncing", "ready"}]
        /\ syncFrom' \in [Servers -> SUBSET Members]
    BY <1>7 DEF Crash, clientVars, TypeInv, Settled
  <2>2. cache' \in [Servers -> [Keys -> Values]]
    <3>1. Absent \in Values
      BY <1>e DEF Values, Absent
    <3> QED
      BY <1>7, <3>1 DEF Crash, TypeInv
  <2>3. /\ DOMAIN transfer' = Members
        /\ transfer' = [q \in Members |-> transfer'[q]]
        /\ \A q \in Members : Items(transfer'[q])
    <3>1. transfer' = transfer
            \/ (n \in Members /\ transfer' = [transfer EXCEPT ![n] = NoTransfer])
      BY <1>7 DEF Crash
    <3> QED
      BY <3>1 DEF TypeInv, Items, NoTransfer
  <2> QED
    BY <2>1, <2>2, <2>3 DEF TypeInv, Items, Values
<1>8. ASSUME NEW n \in Servers, Start(n) PROVE TypeInv'
  <2>1. /\ env' = env
        /\ UNCHANGED <<gateway, cache, syncFrom, net, transfer, reported, begun,
                       hasty, latest, writes, crashes, safe>>
        /\ ring' = [ring EXCEPT ![n] = NewRing(n)]
        /\ status' \in [Servers -> {"down", "starting", "syncing", "ready"}]
    BY <1>8 DEF Start, joinVars, faultVars, clientVars, TypeInv
  <2>2. /\ ring' \in [Servers -> SUBSET Names]
        /\ \A q \in Servers, p \in Members :
             p \in ring'[q] \/ AddrOf[p] \in ring'[q]
    BY <2>1, NewRingType DEF TypeInv
  <2> QED
    BY <2>1, <2>2 DEF TypeInv, Items, Values
<1>9. ASSUME NEW n \in Servers, CheckAllPeers(n) PROVE TypeInv'
  <2>1. /\ env' = env
        /\ UNCHANGED <<ring, gateway, cache, net, transfer, reported, begun,
                       hasty, latest, writes, crashes, safe>>
        /\ syncFrom' \in [Servers -> SUBSET Members]
        /\ status' \in [Servers -> {"down", "starting", "syncing", "ready"}]
    BY <1>9 DEF CheckAllPeers, joinVars, faultVars, clientVars, TypeInv,
                Reached, Peers
  <2> QED
    BY <2>1 DEF TypeInv, Items, Values
<1>10. ASSUME NEW n \in Servers, NEW p \in Members, SyncFromPeer(n, p)
       PROVE  TypeInv'
  <2> DEFINE f == [k \in Offered(n, p) |-> cache[p][k]]
  <2>1. /\ env' = env
        /\ UNCHANGED <<ring, gateway, status, net, transfer, reported, begun,
                       hasty, latest, writes, crashes, safe>>
        /\ syncFrom' \in [Servers -> SUBSET Members]
        /\ store(n, f)
    BY <1>10 DEF SyncFromPeer, joinVars, faultVars, clientVars, TypeInv
  <2>2. Items(f)
    BY DEF Items, Offered, Holds, TypeInv
  <2> HIDE DEF f
  <2>3. cache' \in [Servers -> [Keys -> Values]]
    BY <2>1, <2>2, StoreType
  <2> QED
    BY <2>1, <2>3 DEF TypeInv, Items, Values
<1>11. ASSUME NEW n \in Servers, SyncDone(n) PROVE TypeInv'
  BY <1>11 DEF SyncDone, joinVars, faultVars, clientVars, TypeInv, Items, Values
<1>12. ASSUME NEW n \in Servers, handleInternalPeers(n) PROVE TypeInv'
  <2>1. /\ env' = env
        /\ UNCHANGED <<gateway, cache, status, syncFrom, net, transfer, reported,
                       begun, hasty, latest, writes, crashes, safe>>
    BY <1>12 DEF handleInternalPeers, nodeVars, joinVars, clientVars
  <2>r. ring' = [ring EXCEPT ![n] =
                   (ring[n] \ {AddrOf[p] : p \in Reached}) \cup Reached]
    BY <1>12 DEF handleInternalPeers, TypeInv
  <2>2. Reached \subseteq Members
    BY DEF Reached, Peers
  <2>3. ASSUME NEW p \in Members
        PROVE  LET s == (ring[n] \ {AddrOf[q] : q \in Reached}) \cup Reached
               IN  p \in s \/ AddrOf[p] \in s
    BY <2>2, MembershipAssumption DEF TypeInv
  <2>4. /\ ring' \in [Servers -> SUBSET Names]
        /\ \A q \in Servers, p \in Members :
             p \in ring'[q] \/ AddrOf[p] \in ring'[q]
    BY <2>r, <2>2, <2>3 DEF TypeInv
  <2> QED
    BY <2>1, <2>4 DEF TypeInv, Items, Values
<1>13. CASE RedeployGateway
  BY <1>13 DEF RedeployGateway, nodeVars, joinVars, faultVars, clientVars,
               TypeInv, Items, Values
<1>14. CASE UNCHANGED vars
  BY <1>14 DEF vars, nodeVars, joinVars, faultVars, clientVars, TypeInv, Items,
               Values
<1>15. ASSUME NEW n \in Members, BulkTransferRefused(n) PROVE TypeInv'
  <2>1. /\ env' = env
        /\ UNCHANGED <<ring, gateway, cache, status, syncFrom, net, latest,
                       writes, crashes, begun, hasty, safe>>
        /\ transfer' = [transfer EXCEPT ![n] = NoTransfer]
        /\ reported' \subseteq Members
    BY <1>15 DEF BulkTransferRefused, nodeVars, clientVars, TypeInv
  <2>2. /\ DOMAIN transfer' = Members
        /\ transfer' = [q \in Members |-> transfer'[q]]
        /\ \A q \in Members : Items(transfer'[q])
    BY <2>1 DEF TypeInv, Items, NoTransfer
  <2> QED
    BY <2>1, <2>2 DEF TypeInv, Items, Values
<1>16. ASSUME NEW n \in Servers, NEW peers, SyncFails(n, peers) PROVE TypeInv'
  <2>1. /\ env' = env
        /\ UNCHANGED <<ring, gateway, cache, status, net, transfer, reported,
                       begun, hasty, latest, writes, crashes, safe>>
        /\ syncFrom' \in [Servers -> SUBSET Members]
    BY <1>16 DEF SyncFails, joinVars, clientVars, TypeInv
  <2> QED
    BY <2>1 DEF TypeInv, Items, Values
<1> QED
  BY <1>1, <1>2, <1>3, <1>4, <1>5, <1>6, <1>7, <1>8, <1>9, <1>10, <1>11, <1>12,
     <1>13, <1>14, <1>15, <1>16 DEF Next, Recover

LEMMA NextFaultTypes ==
  TypeInv /\ FaultTypes /\ [Next]_vars => FaultTypes'
<1> SUFFICES ASSUME TypeInv, FaultTypes, [Next]_vars PROVE FaultTypes'
  OBVIOUS
<1>1. ASSUME NEW n \in Members, BulkTransferRefused(n) PROVE FaultTypes'
  BY <1>1 DEF BulkTransferRefused, FaultTypes, TypeInv, Items
<1>2. ASSUME NEW n \in Servers, NEW peers, SyncFails(n, peers)
      PROVE  FaultTypes'
  <2>1. \A p : Offered(n, p) \subseteq Keys
    BY DEF Offered, Holds
  <2> QED
    BY <1>2, <2>1 DEF SyncFails, FaultTypes
<1>3. CASE UNCHANGED <<missed, refused>>
  BY <1>3 DEF FaultTypes
<1>4. CASE Next
  BY <1>1, <1>2, <1>3, <1>4
     DEF Next, Recover, handleAPISet, Deliver, Lose, RebalanceForNewNode,
         BulkTransfer, BulkTransferFails, Crash, Start, CheckAllPeers,
         SyncFromPeer, SyncDone, handleInternalPeers, RedeployGateway, faultVars
<1>5. CASE UNCHANGED vars
  BY <1>3, <1>5 DEF vars, faultVars
<1> QED
  BY <1>4, <1>5

-----------------------------------------------------------------------------
(* Outages, the order of a join's steps, and the rings. *)

\* The deployment is chosen once, and so are the owners.
LEMMA EnvStays == [Next]_vars => env' = env
<1> SUFFICES ASSUME [Next]_vars PROVE env' = env
  OBVIOUS
<1>1. CASE UNCHANGED vars
  BY <1>1 DEF vars
<1>2. CASE Next
  BY <1>2 DEF Next, Recover, handleAPISet, Deliver, Lose, RebalanceForNewNode,
              BulkTransfer, BulkTransferFails, Crash, Start, CheckAllPeers,
              SyncFromPeer, SyncFails, BulkTransferRefused, SyncDone,
              handleInternalPeers, RedeployGateway
<1> QED
  BY <1>1, <1>2

LEMMA OwnersStay ==
  ASSUME env' = env, NEW k
  PROVE  /\ P(k)' = P(k) /\ R(k)' = R(k)
         /\ Originals(k)' = Originals(k) /\ Moves(k)' = Moves(k)
<1>1. ASSUME NEW S PROVE First(S, k)' = First(S, k)
  BY DEF First
<1>2. P(k)' = P(k) /\ Moves(k)' = Moves(k)
  BY <1>1 DEF P, Moves
<1>3. R(k)' = R(k)
  BY <1>1, <1>2 DEF R
<1> QED
  BY <1>2, <1>3 DEF Originals

\* Only nodes that are up store anything.
LEMMA StoredWhenUp ==
  ASSUME TypeInv, Outages,
         \/ \E k \in Keys : handleAPISet(k)
         \/ \E m \in net : Deliver(m)
         \/ \E n \in Members : BulkTransfer(n)
         \/ \E n \in Servers, p \in Members : SyncFromPeer(n, p)
  PROVE  \E n \in Servers : Up(n) /\ \A q \in Servers \ {n} : cache'[q] = cache[q]
<1>1. ASSUME NEW n \in Servers, NEW k \in Keys, NEW w,
             cache' = [cache EXCEPT ![n][k] = w]
      PROVE  \A q \in Servers \ {n} : cache'[q] = cache[q]
  BY <1>1 DEF TypeInv
<1>2. ASSUME NEW n \in Servers, NEW f, store(n, f)
      PROVE  \A q \in Servers \ {n} : cache'[q] = cache[q]
  BY <1>2 DEF TypeInv, store
<1>3. ASSUME NEW k \in Keys, handleAPISet(k)
      PROVE  \E n \in Servers :
               Up(n) /\ \A q \in Servers \ {n} : cache'[q] = cache[q]
  <2>1. PrimaryOf(k) \in Servers /\ ReplicaOf(k) \in Servers
    BY GatewayOwners, Places DEF TypeInv, Servers
  <2>2. \E n \in Servers : Up(n) /\ cache' = [cache EXCEPT ![n][k] = writes + 1]
    BY <1>3, <2>1 DEF handleAPISet, handleSet
  <2> QED
    BY <1>1, <2>2
<1>4. ASSUME NEW m \in net, Deliver(m)
      PROVE  \E n \in Servers :
               Up(n) /\ \A q \in Servers \ {n} : cache'[q] = cache[q]
  <2>1. m.to \in Servers /\ Up(m.to) /\ DOMAIN m.items \subseteq Keys
    BY <1>4 DEF Deliver, TypeInv, Items
  <2>2. \/ store(m.to, m.items)
        \/ \E k \in DOMAIN m.items :
             cache' = [cache EXCEPT ![m.to][k] = m.items[k]]
    BY <1>4 DEF Deliver, handleSet
  <2> QED
    BY <1>1, <1>2, <2>1, <2>2
<1>5. ASSUME NEW n \in Members, BulkTransfer(n)
      PROVE  Up(Joiner) /\ \A q \in Servers \ {Joiner} : cache'[q] = cache[q]
  BY <1>2, <1>5 DEF BulkTransfer, Servers
<1>6. ASSUME NEW n \in Servers, NEW p \in Members, SyncFromPeer(n, p)
      PROVE  Up(n) /\ \A q \in Servers \ {n} : cache'[q] = cache[q]
  BY <1>2, <1>6 DEF SyncFromPeer, Outages, Up
<1> QED
  BY <1>3, <1>4, <1>5, <1>6 DEF Servers

LEMMA NextOutages == TypeInv /\ Outages /\ [Next]_vars => Outages'
<1> SUFFICES ASSUME TypeInv, Outages, [Next]_vars PROVE Outages'
  OBVIOUS
<1>0. Members \subseteq Servers /\ Joiner \in Servers
      /\ Servers = Members \cup {Joiner} /\ Joiner \notin Members
  BY MembershipAssumption DEF Servers
<1> USE <1>0
\* Steps that leave every status and only store something.
<1>a. ASSUME NEW n \in Servers, Up(n),
             \A q \in Servers \ {n} : cache'[q] = cache[q],
             UNCHANGED <<status, crashes>>,
             \A q \in Servers : syncFrom'[q] \subseteq syncFrom[q]
      PROVE  Outages'
  BY <1>a DEF Outages, Up
<1>b. ASSUME UNCHANGED <<cache, status, crashes, syncFrom>>
      PROVE  Outages'
  BY <1>b DEF Outages
<1>1. CASE \E k \in Keys : handleAPISet(k)
  <2>1. UNCHANGED <<status, crashes, syncFrom>>
    BY <1>1 DEF handleAPISet, nodeVars, faultVars
  <2> QED
    BY <1>a, <1>1, <2>1, StoredWhenUp
<1>2. CASE \E m \in net : Deliver(m)
  <2>1. UNCHANGED <<status, crashes, syncFrom>>
    BY <1>2 DEF Deliver, nodeVars, faultVars
  <2> QED
    BY <1>a, <1>2, <2>1, StoredWhenUp
<1>3. CASE \E m \in net : Lose(m)
  BY <1>b, <1>3 DEF Lose, nodeVars, faultVars
<1>4. CASE \E n \in Members : RebalanceForNewNode(n)
  BY <1>b, <1>4 DEF RebalanceForNewNode, nodeVars, faultVars
<1>5. CASE \E n \in Members : BulkTransfer(n)
  <2>1. UNCHANGED <<status, crashes, syncFrom>>
    BY <1>5 DEF BulkTransfer, nodeVars, faultVars
  <2> QED
    BY <1>a, <1>5, <2>1, StoredWhenUp
<1>6. CASE \E n \in Members : BulkTransferFails(n)
  BY <1>b, <1>6 DEF BulkTransferFails, nodeVars, faultVars
<1>7. ASSUME NEW n \in Servers, Crash(n) PROVE Outages'
  <2>1. /\ crashes' = crashes + 1 /\ crashes \in Nat
        /\ status' = [status EXCEPT ![n] = "down"]
        /\ cache' = [cache EXCEPT ![n] = [k \in Keys |-> Absent]]
        /\ syncFrom' = [syncFrom EXCEPT ![n] = {}]
        /\ \A m \in Members \ {n} : status[m] = "ready"
    BY <1>7 DEF Crash, TypeInv
  <2>2. \A q \in Servers :
          status'[q] = "down" => \A k \in Keys : cache'[q][k] = Absent
    BY <2>1 DEF Outages, TypeInv
  <2>3. \A q \in Servers : syncFrom'[q] # {} => status'[q] = "syncing"
    BY <2>1 DEF Outages, TypeInv
  <2>4. crashes' > 0
    BY <2>1
  <2>5. \A p, q \in Members :
          status'[p] # "ready" /\ status'[q] # "ready" => p = q
    BY <2>1 DEF TypeInv
  <2> QED
    BY <2>2, <2>3, <2>4, <2>5 DEF Outages
<1>8. ASSUME NEW n \in Servers, Start(n) PROVE Outages'
  BY <1>8 DEF Start, Outages, TypeInv, faultVars
<1>9. ASSUME NEW n \in Servers, CheckAllPeers(n) PROVE Outages'
  BY <1>9 DEF CheckAllPeers, Outages, TypeInv, faultVars
<1>10. ASSUME NEW n \in Servers, NEW p \in Members, SyncFromPeer(n, p)
       PROVE  Outages'
  <2>1. /\ UNCHANGED <<status, crashes>>
        /\ \A q \in Servers : syncFrom'[q] \subseteq syncFrom[q]
    BY <1>10 DEF SyncFromPeer, faultVars, TypeInv
  <2> QED
    BY <1>a, <1>10, <2>1, StoredWhenUp
<1>11. ASSUME NEW n \in Servers, SyncDone(n) PROVE Outages'
  BY <1>11 DEF SyncDone, Outages, TypeInv, faultVars
<1>12. CASE \E n \in Servers : handleInternalPeers(n)
  BY <1>b, <1>12 DEF handleInternalPeers, nodeVars
<1>13. CASE RedeployGateway
  BY <1>b, <1>13 DEF RedeployGateway, nodeVars, faultVars
<1>14. CASE UNCHANGED vars
  BY <1>b, <1>14 DEF vars, nodeVars, faultVars
<1>15. CASE \E n \in Members : BulkTransferRefused(n)
  BY <1>b, <1>15 DEF BulkTransferRefused, nodeVars
<1>16. ASSUME NEW n \in Servers, NEW peers, SyncFails(n, peers)
       PROVE  Outages'
  BY <1>16 DEF SyncFails, Outages, TypeInv
<1> QED
  BY <1>1, <1>2, <1>3, <1>4, <1>5, <1>6, <1>7, <1>8, <1>9, <1>10, <1>11, <1>12,
     <1>13, <1>14, <1>15, <1>16 DEF Next, Recover

LEMMA NextMigration == TypeInv /\ Migration /\ [Next]_vars => Migration'
<1> SUFFICES ASSUME TypeInv, Migration, [Next]_vars PROVE Migration'
  OBVIOUS
<1>0. Members \subseteq Servers /\ Joiner \in Servers /\ Members # {}
  BY MembershipAssumption DEF Servers
<1> USE <1>0
<1>b. ASSUME UNCHANGED <<begun, reported, hasty, transfer, gateway, status>>
      PROVE  Migration'
  BY <1>b DEF Migration
<1>1. CASE \E k \in Keys : handleAPISet(k)
  BY <1>b, <1>1 DEF handleAPISet, nodeVars, joinVars
<1>2. CASE \E m \in net : Deliver(m) \/ Lose(m)
  BY <1>b, <1>2 DEF Deliver, Lose, nodeVars, joinVars
<1>3. ASSUME NEW n \in Members, RebalanceForNewNode(n) PROVE Migration'
  BY <1>3 DEF RebalanceForNewNode, Migration
<1>4. ASSUME NEW n \in Members, BulkTransfer(n) PROVE Migration'
  <2>1. begun
    BY <1>4 DEF BulkTransfer, Migration
  <2>2. UNCHANGED <<begun, gateway, status>> /\ reported' = reported \cup {n}
    BY <1>4 DEF BulkTransfer, nodeVars
  <2> QED
    BY <2>1, <2>2 DEF Migration
<1>5. ASSUME NEW n \in Members, BulkTransferFails(n) PROVE Migration'
  <2>1. begun
    BY <1>5 DEF BulkTransferFails, Migration
  <2>2. UNCHANGED <<begun, gateway, status, reported>>
    BY <1>5 DEF BulkTransferFails, nodeVars
  <2> QED
    BY <2>1, <2>2 DEF Migration
<1>6. ASSUME NEW n \in Servers, Crash(n) PROVE Migration'
  <2>1. /\ Joiner \notin gateway' /\ UNCHANGED <<begun, reported, hasty>>
        /\ \A q \in Members : transfer'[q] \in {transfer[q], NoTransfer}
    BY <1>6 DEF Crash, TypeInv
  <2> QED
    BY <2>1 DEF Migration
<1>7. ASSUME NEW n \in Servers, Start(n) PROVE Migration'
  BY <1>7 DEF Start, Migration, joinVars
<1>8. ASSUME NEW n \in Servers, CheckAllPeers(n) PROVE Migration'
  BY <1>8 DEF CheckAllPeers, Migration, joinVars
<1>9. ASSUME NEW n \in Servers, NEW p \in Members, SyncFromPeer(n, p)
      PROVE  Migration'
  BY <1>b, <1>9 DEF SyncFromPeer, joinVars
<1>10. ASSUME NEW n \in Servers, SyncDone(n) PROVE Migration'
  BY <1>10 DEF SyncDone, Migration, joinVars, TypeInv
<1>11. CASE \E n \in Servers : handleInternalPeers(n)
  BY <1>b, <1>11 DEF handleInternalPeers, nodeVars, joinVars
<1>12. CASE RedeployGateway
  BY <1>12 DEF RedeployGateway, nodeVars, joinVars, Migration
<1>13. CASE UNCHANGED vars
  BY <1>b, <1>13 DEF vars, nodeVars, joinVars
<1>14. ASSUME NEW n \in Members, BulkTransferRefused(n) PROVE Migration'
  <2>1. begun
    BY <1>14 DEF BulkTransferRefused, Migration
  <2>2. UNCHANGED <<begun, gateway, status>> /\ reported' = reported \cup {n}
    BY <1>14 DEF BulkTransferRefused, nodeVars
  <2> QED
    BY <2>1, <2>2 DEF Migration
<1>15. ASSUME NEW n \in Servers, NEW peers, SyncFails(n, peers)
       PROVE  Migration'
  BY <1>b, <1>15 DEF SyncFails, joinVars
<1> QED
  BY <1>1, <1>2, <1>3, <1>4, <1>5, <1>6, <1>7, <1>8, <1>9, <1>10, <1>11, <1>12,
     <1>13, <1>14, <1>15 DEF Next, Recover

\* With ids, a ring's targets for a key are its owners and the new node.
LEMMA NamedTargets ==
  ASSUME TypeInv, NamedRings, env.named, NEW n \in Servers, NEW k \in Keys
  PROVE  /\ ring[n] \in {Members, Servers}
         /\ GetNodes(ring[n], k)[1] \in Originals(k) \cup {Joiner}
         /\ GetNodes(ring[n], k)[2] \in Originals(k) \cup {Joiner}
         /\ NodeAt(GetNodes(ring[n], k)[2]) \in Originals(k) \cup {Joiner}
<1>1. ring[n] \in {Members, Servers}
  BY DEF NamedRings, Servers
<1>2. /\ GetNodes(ring[n], k)[1] \in Originals(k) \cup {Joiner}
      /\ GetNodes(ring[n], k)[2] \in Originals(k) \cup {Joiner}
  BY <1>1, Places DEF TypeInv, Originals
<1>3. Originals(k) \cup {Joiner} \subseteq Servers
  BY Places DEF TypeInv, Originals, Servers
<1> QED
  BY <1>1, <1>2, <1>3, NodeAtIs

\* The rings a named deployment starts with.
LEMMA NamedNewRing ==
  ASSUME env.named
  PROVE  NewRing(Joiner) = Servers /\ \A n \in Members : NewRing(n) = Members
  BY DEF NewRing, PeerName, Peers, Servers

LEMMA NextNamedRings ==
  TypeInv /\ Outages /\ NamedRings /\ [Next]_vars => NamedRings'
<1> SUFFICES ASSUME TypeInv, Outages, NamedRings, [Next]_vars, env.named
             PROVE  NamedRings'
  BY EnvStays DEF NamedRings
<1>0. /\ Members \subseteq Servers /\ Joiner \in Servers
      /\ Servers = Members \cup {Joiner} /\ Joiner \notin Members
  BY MembershipAssumption DEF Servers
<1>e. env' = env /\ \A k : Originals(k)' = Originals(k)
  BY EnvStays, OwnersStay
<1> DEFINE Rings ==
             /\ ring[Joiner] = Servers
             /\ \A n \in Members :
                  /\ ring[n] \in {Members, Servers}
                  /\ status[n] \in {"starting", "syncing"}
                       => ring[n] = Members \/ hasty
           Sent ==
             \A m \in net : \A k \in DOMAIN m.items :
               m.to \in Originals(k) \cup {Joiner}
           Stored ==
             \A n \in Members, k \in Keys :
               cache[n][k] # Absent => n \in Originals(k)
<1>i. Rings /\ Sent /\ Stored
  BY DEF NamedRings
<1>g. Rings' /\ Sent' /\ Stored' => NamedRings'
  BY DEF NamedRings
<1>r. UNCHANGED <<ring, status, hasty>> => Rings'
  BY <1>i
<1>n. net' \subseteq net => Sent'
  BY <1>i, <1>e
<1>c. UNCHANGED cache => Stored'
  BY <1>i, <1>e
\* What handling a set does to the three.
<1>s. ASSUME NEW n \in Servers, NEW k \in Keys, NEW w \in Values \ {Absent},
             NEW others, others \subseteq net
               \cup {Request("set", ReplicaOf(k), Only(k, w))},
             n \in Originals(k) \cup {Joiner},
             handleSet(n, k, w, others)
      PROVE  Sent' /\ Stored'
  <2> DEFINE set == Request("set", ReplicaOf(k), Only(k, w))
  <2>1. /\ set.type = "set" /\ set.to = ReplicaOf(k)
        /\ DOMAIN set.items = {k} /\ set.items[k] = w
    BY DEF Request, Only
  <2>2. ReplicaOf(k) \in Originals(k) \cup {Joiner} /\ ReplicaOf(k) \in Servers
    BY <1>0, GatewayOwners, Places DEF TypeInv, Originals
  <2> HIDE DEF set
  <2>3. Items(set.items)
    BY <2>1 DEF Items
  <2>4. \A m \in others : /\ m.type \in {"set", "replicate", "bulk"}
                          /\ m.to \in Servers /\ Items(m.items)
    BY <1>s, <2>1, <2>2, <2>3 DEF TypeInv, set
  <2>5. /\ cache' = [cache EXCEPT ![n][k] = w]
        /\ \A m \in net' :
             \/ m \in others
             \/ /\ m.to = NodeAt(GetNodes(ring[n], k)[2])
                /\ DOMAIN m.items = {k}
    BY <1>s, <2>4, HandleSetType
  <2>6. Sent'
    <3> SUFFICES ASSUME NEW m \in net', NEW x \in DOMAIN m.items
                 PROVE  m.to \in Originals(x) \cup {Joiner}
      BY <1>e
    <3>1. CASE m \in net
      BY <1>i, <3>1
    <3>2. CASE m = set
      BY <2>1, <2>2, <3>2
    <3>3. CASE m.to = NodeAt(GetNodes(ring[n], k)[2]) /\ DOMAIN m.items = {k}
      BY <3>3, NamedTargets
    <3> QED
      BY <1>s, <2>5, <3>1, <3>2, <3>3 DEF set
  <2>7. Stored'
    <3> SUFFICES ASSUME NEW q \in Members, NEW x \in Keys, cache'[q][x] # Absent
                 PROVE  q \in Originals(x)
      BY <1>e
    <3>1. CASE q = n /\ x = k
      BY <1>0, <1>s, <3>1
    <3>2. CASE ~(q = n /\ x = k)
      <4>1. cache'[q][x] = cache[q][x]
        BY <1>0, <2>5, <3>2 DEF TypeInv
      <4> QED
        BY <1>i, <4>1
    <3> QED
      BY <3>1, <3>2
  <2> QED
    BY <2>6, <2>7
<1> HIDE DEF Rings, Sent, Stored
<1>1. ASSUME NEW k \in Keys, handleAPISet(k) PROVE NamedRings'
  <2>1. UNCHANGED <<ring, status, hasty>>
    BY <1>1 DEF handleAPISet, nodeVars, joinVars
  <2>2. writes + 1 \in Values \ {Absent}
    BY <1>1, MembershipAssumption
       DEF handleAPISet, TypeInv, Environment, Values, Absent
  <2>3. /\ PrimaryOf(k) \in Servers /\ ReplicaOf(k) \in Servers
        /\ PrimaryOf(k) \in Originals(k) \cup {Joiner}
        /\ ReplicaOf(k) \in Originals(k) \cup {Joiner}
    BY <1>0, GatewayOwners, Places DEF TypeInv, Originals
  <2> DEFINE set == Request("set", ReplicaOf(k), Only(k, writes + 1))
  <2>4. \/ handleSet(PrimaryOf(k), k, writes + 1, net \cup {set})
        \/ handleSet(ReplicaOf(k), k, writes + 1, net)
    BY <1>1 DEF handleAPISet
  <2>5. Sent' /\ Stored'
    BY <1>s, <2>2, <2>3, <2>4
  <2> QED
    BY <1>g, <1>r, <2>1, <2>5
<1>2. ASSUME NEW m \in net, Deliver(m) PROVE NamedRings'
  <2>1. UNCHANGED <<ring, status, hasty>>
    BY <1>2 DEF Deliver, nodeVars, joinVars
  <2>2. m.to \in Servers /\ Items(m.items)
    BY DEF TypeInv
  <2>3. \A k \in DOMAIN m.items :
          /\ m.to \in Originals(k) \cup {Joiner}
          /\ k \in Keys /\ m.items[k] \in Values \ {Absent}
    BY <1>i, <2>2 DEF Sent, Items
  <2>4. CASE store(m.to, m.items) /\ net' = net \ {m}
    <3>1. /\ \A q \in Servers \ {m.to} : cache'[q] = cache[q]
          /\ \A k \in Keys : cache'[m.to][k] =
               IF k \in DOMAIN m.items THEN m.items[k] ELSE cache[m.to][k]
      BY <2>2, <2>4, StoreType
    <3>2. Stored'
      BY <1>0, <1>e, <1>i, <2>3, <3>1 DEF Stored
    <3> QED
      BY <1>g, <1>r, <1>n, <2>1, <2>4, <3>2
  <2>5. CASE \E k \in DOMAIN m.items :
               handleSet(m.to, k, m.items[k], net \ {m})
    <3>1. Sent' /\ Stored'
      BY <1>s, <2>2, <2>3, <2>5
    <3> QED
      BY <1>g, <1>r, <2>1, <3>1
  <2> QED
    BY <1>2, <2>4, <2>5 DEF Deliver
<1>3. CASE \E m \in net : Lose(m)
  BY <1>3, <1>g, <1>r, <1>n, <1>c DEF Lose, nodeVars, joinVars
<1>4. ASSUME NEW n \in Members, RebalanceForNewNode(n) PROVE NamedRings'
  <2>1. AddNode(ring[n], Joiner) = Servers
    BY <1>0, <1>i, MembershipAssumption DEF Rings, AddNode
  <2>2. /\ ring' = [ring EXCEPT ![n] = Servers]
        /\ hasty' = (hasty \/ status[n] # "ready")
        /\ UNCHANGED <<status, cache, net>>
    BY <1>4, <2>1 DEF RebalanceForNewNode, nodeVars
  <2>3. Rings'
    BY <1>0, <1>i, <2>2 DEF Rings, TypeInv
  <2> QED
    BY <1>g, <1>n, <1>c, <2>2, <2>3
<1>5. ASSUME NEW n \in Members, BulkTransfer(n) PROVE NamedRings'
  <2>1. UNCHANGED <<ring, status, hasty, net>>
    BY <1>5 DEF BulkTransfer, nodeVars
  <2>2. \A q \in Servers \ {Joiner} : cache'[q] = cache[q]
    BY <1>0, <1>5, StoreType DEF BulkTransfer, TypeInv
  <2>3. Stored'
    BY <1>0, <1>e, <1>i, <2>2 DEF Stored
  <2> QED
    BY <1>g, <1>r, <1>n, <2>1, <2>3
<1>6. ASSUME NEW n \in Members, BulkTransferFails(n) PROVE NamedRings'
  <2> DEFINE bulk == Request("bulk", Joiner, transfer[n])
  <2>1. UNCHANGED <<ring, status, hasty, cache>> /\ net' \subseteq net \cup {bulk}
    BY <1>6 DEF BulkTransferFails, nodeVars
  <2>2. bulk.to = Joiner
    BY DEF Request
  <2> HIDE DEF bulk
  <2>3. Sent'
    BY <1>e, <1>i, <2>1, <2>2 DEF Sent
  <2> QED
    BY <1>g, <1>r, <1>c, <2>1, <2>3
<1>7. ASSUME NEW n \in Servers, Crash(n) PROVE NamedRings'
  <2>1. /\ UNCHANGED <<ring, hasty, net>>
        /\ status' = [status EXCEPT ![n] = "down"]
        /\ cache' = [cache EXCEPT ![n] = [k \in Keys |-> Absent]]
    BY <1>7 DEF Crash
  <2>2. Rings'
    BY <1>0, <1>i, <2>1 DEF Rings, TypeInv
  <2>3. Stored'
    BY <1>0, <1>e, <1>i, <2>1 DEF Stored, TypeInv
  <2> QED
    BY <1>g, <1>n, <2>1, <2>2, <2>3
<1>8. ASSUME NEW n \in Servers, Start(n) PROVE NamedRings'
  <2>1. /\ UNCHANGED <<hasty, net, cache>>
        /\ status' = [status EXCEPT ![n] = "starting"]
        /\ ring' = [ring EXCEPT ![n] = NewRing(n)]
    BY <1>8 DEF Start, joinVars
  <2>2. Rings'
    BY <1>0, <1>i, <2>1, NamedNewRing DEF Rings, TypeInv
  <2> QED
    BY <1>g, <1>n, <1>c, <2>1, <2>2
<1>9. ASSUME NEW n \in Servers, CheckAllPeers(n) PROVE NamedRings'
  <2>1. /\ UNCHANGED <<hasty, net, cache, ring>>
        /\ status[n] = "starting"
        /\ status' = [status EXCEPT ![n] = "syncing"]
    BY <1>9 DEF CheckAllPeers, joinVars
  <2>2. Rings'
    BY <1>0, <1>i, <2>1 DEF Rings, TypeInv
  <2> QED
    BY <1>g, <1>n, <1>c, <2>1, <2>2
<1>10. ASSUME NEW n \in Servers, NEW p \in Members, SyncFromPeer(n, p)
       PROVE  NamedRings'
  <2> DEFINE f == [k \in Offered(n, p) |-> cache[p][k]]
  <2>1. UNCHANGED <<ring, status, hasty, net>> /\ store(n, f)
    BY <1>10 DEF SyncFromPeer, joinVars
  <2>2. Items(f)
    BY <1>0 DEF Items, Offered, Holds, TypeInv
  <2>3. ASSUME NEW k \in DOMAIN f
        PROVE  k \in Keys /\ n \in Originals(k) \cup {Joiner}
    BY NamedTargets DEF Offered, Holds, Adopts
  <2> HIDE DEF f
  <2>4. /\ \A q \in Servers \ {n} : cache'[q] = cache[q]
        /\ \A k \in Keys :
             cache'[n][k] = IF k \in DOMAIN f THEN f[k] ELSE cache[n][k]
    BY <2>1, <2>2, StoreType
  <2>5. Stored'
    BY <1>0, <1>e, <1>i, <2>3, <2>4 DEF Stored
  <2> QED
    BY <1>g, <1>r, <1>n, <2>1, <2>5
<1>11. ASSUME NEW n \in Servers, SyncDone(n) PROVE NamedRings'
  <2>1. /\ UNCHANGED <<hasty, net, cache, ring>>
        /\ status' = [status EXCEPT ![n] = "ready"]
    BY <1>11 DEF SyncDone, joinVars
  <2>2. Rings'
    BY <1>0, <1>i, <2>1 DEF Rings, TypeInv
  <2> QED
    BY <1>g, <1>n, <1>c, <2>1, <2>2
<1>12. ASSUME NEW n \in Servers, handleInternalPeers(n) PROVE NamedRings'
  <2>1. UNCHANGED <<status, hasty, net, cache>>
    BY <1>12 DEF handleInternalPeers, nodeVars, joinVars
  <2>2. ring' = [ring EXCEPT ![n] =
                   (ring[n] \ {AddrOf[p] : p \in Reached}) \cup Reached]
    BY <1>12 DEF handleInternalPeers, TypeInv
  <2>3. ring[n] \in {Members, Servers}
    BY <1>0, <1>i DEF Rings
  <2>4. (ring[n] \ {AddrOf[p] : p \in Reached}) \cup Reached = ring[n]
    BY <1>0, <2>3, MembershipAssumption DEF Reached, Peers
  <2>5. ring' = ring
    BY <2>2, <2>4 DEF TypeInv
  <2> QED
    BY <1>g, <1>r, <1>n, <1>c, <2>1, <2>5
<1>13. CASE RedeployGateway
  BY <1>13, <1>g, <1>r, <1>n, <1>c DEF RedeployGateway, nodeVars, joinVars
<1>14. CASE UNCHANGED vars
  BY <1>14, <1>g, <1>r, <1>n, <1>c DEF vars, nodeVars, joinVars
<1>15. CASE \E n \in Members : BulkTransferRefused(n)
  BY <1>15, <1>g, <1>r, <1>n, <1>c DEF BulkTransferRefused, nodeVars
<1>16. ASSUME NEW n \in Servers, NEW peers, SyncFails(n, peers)
       PROVE  NamedRings'
  BY <1>16, <1>g, <1>r, <1>n, <1>c DEF SyncFails, joinVars
<1> QED
  BY <1>1, <1>2, <1>3, <1>4, <1>5, <1>6, <1>7, <1>8, <1>9, <1>10, <1>11, <1>12,
     <1>13, <1>14, <1>15, <1>16 DEF Next, Recover

-----------------------------------------------------------------------------
(* Safe keys, with peers configured by id. *)

JoinInv ==
  /\ TypeInv /\ FaultTypes /\ Outages /\ Migration
  /\ NamedRings /\ NamedKeys /\ BareKeys

\* Settled values are safe at the moment they become history.
LEMMA SettledIsSafe ==
  ASSUME TypeInv, Migration, NamedRings, env.named, ~begun, NEW k \in Settled
  PROVE  SafeKey(k)
<1>1. /\ Joiner \notin gateway /\ reported = {}
      /\ \A n \in Members : transfer[n] = NoTransfer
  BY MembershipAssumption DEF Migration
<1>2. k \in Keys /\ net = {} /\ latest[k] # Absent
      /\ \A n \in Owners(k) : Has(n, k)
  BY DEF Settled, Has
<1>3. Owners(k) = Originals(k)
  BY <1>1, <1>2, GatewayOwners DEF TypeInv, Owners, Originals
<1>4. Originals(k) \subseteq Members
  BY <1>2, Places DEF TypeInv, Originals
<1>5. \A n \in Members : cache[n][k] \in {Absent, latest[k]}
  BY <1>2, <1>3 DEF NamedRings, Has
<1>6. \A n \in Members : ~Without(n, k)
  BY <1>1 DEF Without
<1>7. Latest(k)
  BY <1>1, <1>2, <1>5 DEF Latest, NoTransfer
<1> QED
  BY <1>2, <1>3, <1>4, <1>6, <1>7 DEF SafeKey, Kept

\* Steps of which the nodes' states take no notice.
LEMMA KeptPersists ==
  ASSUME NEW k, env' = env, latest'[k] = latest[k],
         Originals(k) \subseteq Servers, Joiner \in Servers,
         \A q \in Servers : cache'[q][k] \in {cache[q][k], latest[k]},
         UNCHANGED <<status, syncFrom, crashes>>, hasty => hasty',
         missed \subseteq missed'
  PROVE  /\ \A n \in Servers : Has(n, k) => Has(n, k)'
         /\ \A n \in Servers : Kept(n, k) => Kept(n, k)'
         /\ Delivered(k) => Delivered(k)'
<1>1. Originals(k)' = Originals(k) /\ R(k)' = R(k)
  BY OwnersStay
<1>2. \A n \in Servers : Has(n, k) => Has(n, k)'
  BY DEF Has
<1>3. ASSUME NEW n \in Servers, Kept(n, k) PROVE Kept(n, k)'
  <2>1. CASE Has(n, k)
    BY <1>2, <2>1 DEF Kept
  <2>2. CASE ~Has(n, k)
    <3>1. PICK o \in Originals(k) \ {n} :
            /\ Has(o, k) /\ status[o] = "ready"
            /\ \/ status[n] \in {"down", "starting"}
               \/ status[n] = "syncing" /\ o \in syncFrom[n]
               \/ n = R(k) /\ hasty /\ crashes > 0
      BY <1>3, <2>2 DEF Kept
    <3>2. Has(o, k)'
      BY <1>2, <3>1
    <3> QED
      BY <1>1, <3>1, <3>2 DEF Kept
  <2> QED
    BY <2>1, <2>2
<1>4. ASSUME Arrives(k) PROVE Arrives(k)'
  BY <1>1, <1>2, <1>4 DEF Arrives
<1>5. Delivered(k) => Delivered(k)'
  BY <1>4 DEF Delivered
<1> QED
  BY <1>2, <1>3, <1>5

LEMMA GrowSafe ==
  ASSUME NEW k, SafeKey(k), env' = env, latest'[k] = latest[k],
         Originals(k) \subseteq Members, Members \subseteq Servers,
         Joiner \in Servers,
         \A q \in Servers : cache'[q][k] \in {cache[q][k], latest[k]},
         \A m \in net' : k \in DOMAIN m.items => m.items[k] = latest[k],
         UNCHANGED <<status, syncFrom, transfer, reported, hasty, crashes, missed,
                     refused>>
  PROVE  SafeKey(k)'
<1>1. Originals(k)' = Originals(k) /\ Moves(k)' = Moves(k)
  BY OwnersStay
<1>2. /\ \A n \in Servers : Has(n, k) => Has(n, k)'
      /\ \A n \in Servers : Kept(n, k) => Kept(n, k)'
      /\ Delivered(k) => Delivered(k)'
  BY KeptPersists
<1>3. \A n \in Members : Without(n, k)' = Without(n, k)
  BY DEF Without
<1>4. Latest(k)'
  BY DEF Latest, SafeKey
<1>5. ASSUME NEW n \in Originals(k), Promised(n, k) PROVE Promised(n, k)'
  <2>1. CASE Delivered(k)
    BY <1>2, <2>1 DEF Promised
  <2>2. CASE ~Delivered(k)
    <3>1. PICK o \in Originals(k) \ {n} :
            Has(o, k) /\ ~Without(o, k) /\ hasty /\ crashes > 0
      BY <1>5, <2>2 DEF Promised
    <3>2. Has(o, k)' /\ ~Without(o, k)'
      BY <1>2, <1>3, <3>1
    <3> QED
      BY <1>1, <3>1, <3>2 DEF Promised
  <2> QED
    BY <2>1, <2>2
<1> QED
  BY <1>1, <1>2, <1>3, <1>4, <1>5 DEF SafeKey

\* Reads, writes of other keys, deliveries and losses.
LEMMA SafeThroughRequests ==
  ASSUME TypeInv, NEW k \in Keys, SafeKey(k), latest'[k] = latest[k],
         \/ \E x \in Keys \ {k} : handleAPISet(x)
         \/ \E m \in net : Deliver(m) \/ Lose(m)
         \/ \E n \in Servers : handleInternalPeers(n)
         \/ RedeployGateway
         \/ UNCHANGED vars
  PROVE  SafeKey(k)'
<1>0. /\ Members \subseteq Servers /\ Joiner \in Servers
      /\ Originals(k) \subseteq Members
  BY Places DEF TypeInv, Originals, Servers
<1>l. /\ \A m \in net : k \in DOMAIN m.items => m.items[k] = latest[k]
      /\ latest[k] # Absent
  BY DEF SafeKey, Latest
<1> DEFINE Calm ==
             /\ env' = env
             /\ UNCHANGED <<status, syncFrom, transfer, reported, hasty, crashes,
                            missed, refused>>
           Grown ==
             \A q \in Servers : cache'[q][k] \in {cache[q][k], latest[k]}
           SentLatest ==
             \A m \in net' : k \in DOMAIN m.items => m.items[k] = latest[k]
<1>g. Calm /\ Grown /\ SentLatest => SafeKey(k)'
  BY <1>0, GrowSafe
<1>h. ASSUME NEW n \in Servers, NEW x \in Keys, NEW w \in Values \ {Absent},
             NEW others, handleSet(n, x, w, others),
             \A m \in others : /\ m.type \in {"set", "replicate", "bulk"}
                               /\ m.to \in Servers /\ Items(m.items)
                               /\ k \in DOMAIN m.items => m.items[k] = latest[k],
             x = k => w = latest[k]
      PROVE  Grown /\ SentLatest
  <2>1. /\ cache' = [cache EXCEPT ![n][x] = w]
        /\ \A m \in net' : \/ m \in others
                           \/ DOMAIN m.items = {x} /\ m.items[x] = w
    BY <1>h, HandleSetType
  <2>2. Grown
    BY <1>h, <2>1 DEF TypeInv
  <2>3. SentLatest
    BY <1>h, <2>1
  <2> QED
    BY <2>2, <2>3
<1> HIDE DEF Calm, Grown, SentLatest
<1>1. ASSUME NEW x \in Keys \ {k}, handleAPISet(x) PROVE SafeKey(k)'
  <2>1. Calm
    BY <1>1 DEF handleAPISet, nodeVars, joinVars, faultVars, Calm
  <2>2. writes + 1 \in Values \ {Absent}
    BY <1>1, MembershipAssumption
       DEF handleAPISet, TypeInv, Environment, Values, Absent
  <2>3. PrimaryOf(x) \in Servers /\ ReplicaOf(x) \in Servers
    BY <1>0, GatewayOwners, Places DEF TypeInv
  <2> DEFINE set == Request("set", ReplicaOf(x), Only(x, writes + 1))
  <2>4. \/ handleSet(PrimaryOf(x), x, writes + 1, net \cup {set})
        \/ handleSet(ReplicaOf(x), x, writes + 1, net)
    BY <1>1 DEF handleAPISet
  <2>5. /\ set.type = "set" /\ set.to = ReplicaOf(x)
        /\ DOMAIN set.items = {x} /\ set.items[x] = writes + 1
    BY DEF Request, Only
  <2> HIDE DEF set
  <2>6. Items(set.items)
    BY <2>2, <2>5 DEF Items
  <2>7. \A m \in net \cup {set} :
          /\ m.type \in {"set", "replicate", "bulk"}
          /\ m.to \in Servers /\ Items(m.items)
          /\ k \in DOMAIN m.items => m.items[k] = latest[k]
    BY <1>l, <2>3, <2>5, <2>6 DEF TypeInv
  <2>8. Grown /\ SentLatest
    BY <1>h, <2>2, <2>3, <2>4, <2>7
  <2> QED
    BY <1>g, <2>1, <2>8
<1>2. ASSUME NEW m \in net, Deliver(m) PROVE SafeKey(k)'
  <2>1. Calm
    BY <1>2 DEF Deliver, nodeVars, joinVars, faultVars, Calm
  <2>2. m.to \in Servers /\ Items(m.items)
    BY DEF TypeInv
  <2>3. CASE store(m.to, m.items) /\ net' = net \ {m}
    <3>1. /\ \A q \in Servers \ {m.to} : cache'[q] = cache[q]
          /\ cache'[m.to][k] =
               IF k \in DOMAIN m.items THEN m.items[k] ELSE cache[m.to][k]
      BY <2>2, <2>3, StoreType
    <3>2. Grown
      BY <1>l, <3>1 DEF Grown
    <3>3. SentLatest
      BY <1>l, <2>3 DEF SentLatest
    <3> QED
      BY <1>g, <2>1, <3>2, <3>3
  <2>4. ASSUME NEW x \in DOMAIN m.items,
               handleSet(m.to, x, m.items[x], net \ {m})
        PROVE  SafeKey(k)'
    <3>1. x \in Keys /\ m.items[x] \in Values \ {Absent}
      BY <2>2 DEF Items
    <3>2. \A q \in net \ {m} :
            /\ q.type \in {"set", "replicate", "bulk"}
            /\ q.to \in Servers /\ Items(q.items)
            /\ k \in DOMAIN q.items => q.items[k] = latest[k]
      BY <1>l DEF TypeInv
    <3>3. Grown /\ SentLatest
      BY <1>h, <1>l, <2>2, <2>4, <3>1, <3>2
    <3> QED
      BY <1>g, <2>1, <3>3
  <2> QED
    BY <1>2, <2>3, <2>4 DEF Deliver
<1>3. ASSUME Calm, UNCHANGED cache, net' \subseteq net PROVE SafeKey(k)'
  BY <1>g, <1>l, <1>3 DEF Grown, SentLatest
<1>4. CASE \E m \in net : Lose(m)
  BY <1>3, <1>4 DEF Lose, nodeVars, joinVars, faultVars, Calm
<1>5. CASE \E n \in Servers : handleInternalPeers(n)
  BY <1>3, <1>5 DEF handleInternalPeers, nodeVars, joinVars, Calm
<1>6. CASE RedeployGateway
  BY <1>3, <1>6 DEF RedeployGateway, nodeVars, joinVars, faultVars, Calm
<1>7. CASE UNCHANGED vars
  BY <1>3, <1>7 DEF vars, nodeVars, joinVars, faultVars, Calm
<1> QED
  BY <1>1, <1>2, <1>4, <1>5, <1>6, <1>7

\* The two owners are each other's only other owner.
LEMMA OtherOwner ==
  ASSUME env \in Environments, NEW k \in Keys, NEW n \in Originals(k)
  PROVE  \E o \in Originals(k) :
           o # n /\ \A x \in Originals(k) : x \in {n, o}
  BY Places DEF Originals

(***************************************************************************)
(* A member is rebalanced: the one step that can turn a promise into the   *)
(* other owner's.                                                          *)
(***************************************************************************)
LEMMA SafeThroughRebalance ==
  ASSUME TypeInv, Outages, NamedRings, env.named,
         NEW k \in Keys, SafeKey(k), latest'[k] = latest[k],
         NEW n \in Members, RebalanceForNewNode(n)
  PROVE  SafeKey(k)'
<1>0. /\ Members \subseteq Servers /\ Joiner \in Servers
      /\ Originals(k) \subseteq Members /\ Joiner \notin Members
  BY Places, MembershipAssumption DEF TypeInv, Originals, Servers
<1> DEFINE newRing == AddNode(ring[n], Joiner)
           moved == {x \in Holds(n) : GetNodes(newRing, x)[1] = Joiner}
<1>1. /\ env' = env
      /\ UNCHANGED <<cache, net, status, syncFrom, crashes, missed, refused>>
      /\ transfer[n] = NoTransfer /\ n \notin reported
      /\ transfer' = [transfer EXCEPT ![n] = [x \in moved |-> cache[n][x]]]
      /\ reported' = IF moved = {} THEN reported \cup {n} ELSE reported
      /\ hasty' = (hasty \/ status[n] # "ready")
  BY DEF RebalanceForNewNode, nodeVars, faultVars
<1>2. newRing = Servers
  BY <1>0, MembershipAssumption DEF NamedRings, AddNode, Servers
<1>3. k \in moved <=> cache[n][k] # Absent /\ Moves(k)
  BY <1>2, Places DEF Holds, TypeInv, GetNodes, Moves
<1> HIDE DEF moved, newRing
<1>4. Originals(k)' = Originals(k) /\ Moves(k)' = Moves(k)
  BY <1>1, OwnersStay
<1>5. /\ \A q \in Servers : Has(q, k) => Has(q, k)'
      /\ \A q \in Servers : Kept(q, k) => Kept(q, k)'
      /\ Delivered(k) => Delivered(k)'
  BY <1>0, <1>1, KeptPersists
<1>6. Latest(k)'
  <2>1. \A q \in Members :
          k \in DOMAIN transfer'[q] => transfer'[q][k] = latest[k]
    BY <1>1, <1>3 DEF SafeKey, Latest, TypeInv
  <2> QED
    BY <1>1, <2>1 DEF SafeKey, Latest
<1>7. \A q \in Members \ {n} : Without(q, k)' = Without(q, k)
  BY <1>1 DEF Without, TypeInv
<1>8. latest[k] # Absent
  BY DEF SafeKey, Latest
<1>9. ~Without(n, k)
  BY <1>1 DEF Without
<1>10. ASSUME Moves(k), k \notin refused, NEW x \in Originals(k),
              Without(x, k)'
       PROVE  Promised(x, k)'
  <2>1. CASE Has(n, k) \/ n \notin Originals(k)
    <3>1. n \in Originals(k) => ~Without(n, k)'
      <4>1. ASSUME Has(n, k) PROVE k \in moved
        BY <1>3, <1>8, <1>10, <4>1 DEF Has
      <4>2. ASSUME k \in moved PROVE ~Without(n, k)'
        BY <1>1, <4>2 DEF Without, TypeInv
      <4> QED
        BY <2>1, <4>1, <4>2
    <3>2. x # n /\ Without(x, k)
      BY <1>0, <1>7, <1>10, <3>1
    <3>3. Promised(x, k)
      BY <1>10, <3>2 DEF SafeKey
    <3>4. CASE Delivered(k)
      BY <1>5, <3>4 DEF Promised
    <3>5. CASE ~Delivered(k)
      <4>1. PICK o \in Originals(k) \ {x} :
              Has(o, k) /\ ~Without(o, k) /\ hasty /\ crashes > 0
        BY <3>3, <3>5 DEF Promised
      <4>2. Has(o, k)' /\ ~Without(o, k)'
        BY <1>0, <1>5, <1>7, <3>1, <4>1
      <4> QED
        BY <1>1, <1>4, <4>1, <4>2 DEF Promised
    <3> QED
      BY <3>4, <3>5
  <2>2. CASE n \in Originals(k) /\ ~Has(n, k)
    <3>1. PICK o \in Originals(k) \ {n} :
            /\ Has(o, k) /\ status[o] = "ready"
            /\ \/ status[n] \in {"down", "starting", "syncing"}
               \/ hasty /\ crashes > 0
      BY <2>2 DEF SafeKey, Kept
    <3>2. crashes' > 0 /\ hasty'
      BY <1>1, <3>1 DEF Outages
    <3>3. \A y \in Originals(k) : y \in {n, o}
      BY <2>2, <3>1, OtherOwner DEF TypeInv
    <3>4. Without(o, k) => Delivered(k)
      <4> SUFFICES ASSUME Without(o, k) PROVE Delivered(k)
        OBVIOUS
      <4>1. Promised(o, k)
        BY <1>10, <3>1 DEF SafeKey
      <4> QED
        BY <2>2, <3>3, <4>1 DEF Promised
    <3>5. CASE Delivered(k)
      BY <1>5, <3>5 DEF Promised
    <3>6. CASE ~Delivered(k)
      <4>1. ~Without(o, k)' /\ Has(o, k)'
        BY <1>0, <1>5, <1>7, <3>1, <3>4, <3>6
      <4>2. x # o
        BY <1>10, <4>1
      <4> QED
        BY <1>4, <3>1, <3>2, <4>1, <4>2 DEF Promised
    <3> QED
      BY <3>5, <3>6
  <2> QED
    BY <2>1, <2>2
<1> QED
  BY <1>0, <1>1, <1>4, <1>5, <1>6, <1>10 DEF SafeKey

\* A batch arrives, or its request fails.
LEMMA SafeThroughTransfer ==
  ASSUME TypeInv, NEW k \in Keys, SafeKey(k), latest'[k] = latest[k],
         NEW n \in Members,
         BulkTransfer(n) \/ BulkTransferRefused(n) \/ BulkTransferFails(n)
  PROVE  SafeKey(k)'
<1>0. /\ Members \subseteq Servers /\ Joiner \in Servers
      /\ Originals(k) \subseteq Members /\ Joiner \notin Members
  BY Places, MembershipAssumption DEF TypeInv, Originals, Servers
<1>1. /\ env' = env /\ UNCHANGED <<status, syncFrom, crashes, hasty>>
      /\ transfer' = [transfer EXCEPT ![n] = NoTransfer]
      /\ transfer[n] # NoTransfer
      /\ missed' = missed /\ refused \subseteq refused'
  BY DEF BulkTransfer, BulkTransferRefused, BulkTransferFails, nodeVars, faultVars
<1>2. /\ k \in DOMAIN transfer[n] => transfer[n][k] = latest[k]
      /\ Items(transfer[n])
  BY DEF SafeKey, Latest, TypeInv
<1>3. BulkTransfer(n) =>
        /\ \A q \in Members : cache'[q] = cache[q]
        /\ cache'[Joiner][k] = IF k \in DOMAIN transfer[n] THEN latest[k]
                               ELSE cache[Joiner][k]
        /\ reported' = reported \cup {n} /\ net' = net
  BY <1>0, <1>2, StoreType DEF BulkTransfer
<1>4. BulkTransferFails(n) =>
        /\ UNCHANGED <<cache, reported>>
        /\ \A m \in net' : m \in net \/ m.items = transfer[n]
  BY DEF BulkTransferFails, Request
<1>r. BulkTransferRefused(n) =>
        /\ UNCHANGED <<cache, net>>
        /\ reported' = reported \cup {n}
        /\ refused' = refused \cup DOMAIN transfer[n]
  BY DEF BulkTransferRefused
<1>5. \A q \in Servers : cache'[q][k] \in {cache[q][k], latest[k]}
  BY <1>0, <1>3, <1>4, <1>r DEF Servers
<1>6. Originals(k)' = Originals(k) /\ Moves(k)' = Moves(k)
  BY <1>1, OwnersStay
<1>7. /\ \A q \in Servers : Has(q, k) => Has(q, k)'
      /\ \A q \in Servers : Kept(q, k) => Kept(q, k)'
      /\ Delivered(k) => Delivered(k)'
  BY <1>0, <1>1, <1>5, KeptPersists
<1>8. Latest(k)'
  <2>1. \A q \in Members :
          k \in DOMAIN transfer'[q] => transfer'[q][k] = latest[k]
    BY <1>1 DEF SafeKey, Latest, TypeInv, NoTransfer
  <2>2. \A q \in Members : cache'[q][k] \in {Absent, latest[k]}
    BY <1>0, <1>5 DEF SafeKey, Latest
  <2>3. \A m \in net' : k \in DOMAIN m.items => m.items[k] = latest[k]
    BY <1>2, <1>3, <1>4, <1>r DEF SafeKey, Latest
  <2> QED
    BY <2>1, <2>2, <2>3 DEF SafeKey, Latest
<1>9. \A q \in Members \ {n} : Without(q, k)' = Without(q, k)
  BY <1>1, <1>3, <1>4, <1>r DEF Without, TypeInv
<1>10. \/ Delivered(k)'
       \/ k \in refused'
       \/ ~Without(n, k)' \/ Without(n, k)
  <2>1. CASE BulkTransfer(n) /\ k \in DOMAIN transfer[n]
    <3>1. Has(Joiner, k)'
      BY <1>3, <2>1 DEF Has
    <3> QED
      BY <3>1 DEF Delivered, Arrives, Has
  <2>2. CASE BulkTransfer(n) /\ k \notin DOMAIN transfer[n]
    BY <1>1, <2>2 DEF Without
  <2>3. CASE BulkTransferFails(n)
    BY <1>1, <1>4, <2>3 DEF Without, TypeInv
  <2>4. CASE BulkTransferRefused(n) /\ k \in DOMAIN transfer[n]
    BY <1>r, <2>4
  <2>5. CASE BulkTransferRefused(n) /\ k \notin DOMAIN transfer[n]
    BY <1>1, <2>5 DEF Without
  <2> QED
    BY <2>1, <2>2, <2>3, <2>4, <2>5
<1>11. ASSUME Moves(k), k \notin refused', NEW x \in Originals(k),
              Without(x, k)'
       PROVE  Promised(x, k)'
  <2>1. CASE Delivered(k)'
    BY <2>1 DEF Promised
  <2>2. CASE ~Delivered(k)'
    <3>1. Without(x, k)
      BY <1>0, <1>9, <1>10, <1>11, <2>2
    <3>2. Promised(x, k) /\ ~Delivered(k)
      BY <1>1, <1>7, <1>11, <2>2, <3>1 DEF SafeKey
    <3>3. PICK o \in Originals(k) \ {x} :
            Has(o, k) /\ ~Without(o, k) /\ hasty /\ crashes > 0
      BY <3>2 DEF Promised
    <3>4. Has(o, k)' /\ ~Without(o, k)'
      BY <1>0, <1>7, <1>9, <1>10, <1>11, <2>2, <3>3
    <3> QED
      BY <1>1, <1>6, <3>3, <3>4 DEF Promised
  <2> QED
    BY <2>1, <2>2
<1> QED
  BY <1>0, <1>6, <1>7, <1>8, <1>11 DEF SafeKey

\* A node crashes: the other owner has the value and is ready.
LEMMA SafeThroughCrash ==
  ASSUME TypeInv, Outages, Named', NEW k \in Keys, SafeKey(k),
         latest'[k] = latest[k], NEW c \in Servers, Crash(c)
  PROVE  SafeKey(k)'
<1>0. /\ Members \subseteq Servers /\ Joiner \in Servers
      /\ Servers = Members \cup {Joiner}
      /\ Originals(k) \subseteq Members /\ Joiner \notin Members
  BY Places, MembershipAssumption DEF TypeInv, Originals, Servers
<1>1. /\ env' = env /\ UNCHANGED <<net, reported, hasty, missed, refused>>
      /\ crashes' = crashes + 1 /\ crashes \in Nat
      /\ status' = [status EXCEPT ![c] = "down"]
      /\ cache' = [cache EXCEPT ![c] = [x \in Keys |-> Absent]]
      /\ syncFrom' = [syncFrom EXCEPT ![c] = {}]
      /\ \A m \in Members \ {c} : status[m] = "ready"
      /\ c # Joiner => status[Joiner] \in {"ready", "down"}
  BY <1>0 DEF Crash, TypeInv
<1>2. \A q \in Members : transfer'[q] \in {transfer[q], NoTransfer}
  BY DEF Crash, TypeInv
<1>3. ~(hasty /\ crashes > 0)
  BY <1>1 DEF Named
<1>4. Originals(k)' = Originals(k) /\ Moves(k)' = Moves(k)
  BY <1>1, OwnersStay
<1>5. ASSUME NEW q \in Servers, q # c
      PROVE  /\ cache'[q] = cache[q] /\ status'[q] = status[q]
             /\ Has(q, k) = Has(q, k)'
  <2>1. cache'[q] = cache[q] /\ status'[q] = status[q]
    BY <1>1, <1>5 DEF TypeInv
  <2> QED
    BY <2>1 DEF Has
<1>6. status'[c] = "down" /\ cache'[c][k] = Absent
  BY <1>1 DEF TypeInv
<1>7. ASSUME NEW o \in Originals(k), o # c PROVE Has(o, k) /\ Has(o, k)'
  <2>1. status[o] = "ready"
    BY <1>0, <1>1, <1>7
  <2>2. Kept(o, k)
    BY DEF SafeKey
  <2>3. Has(o, k)
    BY <1>3, <2>1, <2>2 DEF Kept
  <2> QED
    BY <1>0, <1>5, <1>7, <2>3
<1>8. ASSUME NEW n \in Originals(k) PROVE Kept(n, k)'
  <2>1. CASE n # c
    BY <1>7, <2>1 DEF Kept
  <2>2. CASE n = c
    <3>1. PICK o \in Originals(k) : o # n
      BY OtherOwner DEF TypeInv
    <3>2. Has(o, k)' /\ status'[o] = "ready"
      BY <1>0, <1>1, <1>5, <1>7, <2>2, <3>1
    <3> QED
      BY <1>4, <1>6, <2>2, <3>1, <3>2 DEF Kept
  <2> QED
    BY <2>1, <2>2
<1>9. Latest(k)'
  <2>1. \A q \in Members : cache'[q][k] \in {Absent, latest[k]}
    BY <1>0, <1>5, <1>6 DEF SafeKey, Latest
  <2>2. \A q \in Members :
          k \in DOMAIN transfer'[q] => transfer'[q][k] = latest[k]
    BY <1>2 DEF SafeKey, Latest, NoTransfer
  <2> QED
    BY <1>1, <2>1, <2>2 DEF SafeKey, Latest
<1>10. ASSUME Moves(k), k \notin refused, NEW x \in Originals(k),
              Without(x, k)'
       PROVE  Promised(x, k)'
  <2>1. Without(x, k)
    BY <1>0, <1>1, <1>2, <1>10 DEF Without
  <2>2. Delivered(k)
    BY <1>3, <1>10, <2>1 DEF SafeKey, Promised
  <2>3. Delivered(k)'
    <3>1. CASE c = Joiner
      BY <1>6, <3>1 DEF Delivered, Arrives
    <3>2. CASE c # Joiner
      BY <1>0, <1>1, <1>5, <2>2, <3>2 DEF Delivered, Arrives
    <3> QED
      BY <3>1, <3>2
  <2> QED
    BY <2>3 DEF Promised
<1> QED
  BY <1>1, <1>4, <1>8, <1>9, <1>10 DEF SafeKey

(***************************************************************************)
(* A node comes back.  What its steps have in common: values stay or       *)
(* become the latest, batches and reports stay, and only its own state     *)
(* changes.                                                                *)
(***************************************************************************)
LEMMA RecoveringSafe ==
  ASSUME TypeInv, NEW k \in Keys, SafeKey(k), latest'[k] = latest[k],
         env' = env, NEW n \in Servers, status[n] # "ready",
         \A q \in Servers : cache'[q][k] \in {cache[q][k], latest[k]},
         \A q \in Servers \ {n} :
           status'[q] = status[q] /\ syncFrom'[q] = syncFrom[q],
         UNCHANGED <<net, transfer, reported, hasty, crashes, refused>>,
         missed \subseteq missed',
         n \in Originals(k) => Kept(n, k)',
         n = Joiner /\ Moves(k) /\ Delivered(k)
           /\ (\E x \in Originals(k) : Without(x, k)) => Delivered(k)'
  PROVE  SafeKey(k)'
<1>0. /\ Members \subseteq Servers /\ Joiner \in Servers
      /\ Originals(k) \subseteq Members /\ Joiner \notin Members
  BY Places, MembershipAssumption DEF TypeInv, Originals, Servers
<1>1. Originals(k)' = Originals(k) /\ Moves(k)' = Moves(k) /\ R(k)' = R(k)
  BY OwnersStay
<1>2. \A q \in Servers : Has(q, k) => Has(q, k)'
  BY DEF Has
<1>3. ASSUME NEW x \in Originals(k) PROVE Kept(x, k)'
  <2>1. CASE x = n
    BY <2>1
  <2>2. CASE x # n /\ Has(x, k)
    BY <1>0, <1>2, <2>2 DEF Kept
  <2>3. CASE x # n /\ ~Has(x, k)
    <3>1. PICK o \in Originals(k) \ {x} :
            /\ Has(o, k) /\ status[o] = "ready"
            /\ \/ status[x] \in {"down", "starting"}
               \/ status[x] = "syncing" /\ o \in syncFrom[x]
               \/ x = R(k) /\ hasty /\ crashes > 0
      BY <2>3 DEF SafeKey, Kept
    <3>2. Has(o, k)' /\ status'[o] = "ready"
      BY <1>0, <1>2, <3>1
    <3> QED
      BY <1>0, <1>1, <2>3, <3>1, <3>2 DEF Kept
  <2> QED
    BY <2>1, <2>2, <2>3
<1>4. Latest(k)'
  BY <1>0 DEF SafeKey, Latest
<1>5. ASSUME Moves(k), Delivered(k), NEW x \in Originals(k), Without(x, k)
      PROVE  Delivered(k)'
  <2>1. CASE n = Joiner
    BY <1>5, <2>1
  <2>2. CASE n # Joiner
    BY <1>0, <1>1, <1>2, <1>5, <2>2 DEF Delivered, Arrives
  <2> QED
    BY <2>1, <2>2
<1>6. \A x \in Members : Without(x, k)' = Without(x, k)
  BY DEF Without
<1>7. ASSUME Moves(k), k \notin refused, NEW x \in Originals(k),
             Without(x, k)'
      PROVE  Promised(x, k)'
  <2>1. Promised(x, k) /\ Without(x, k)
    BY <1>0, <1>6, <1>7 DEF SafeKey
  <2>2. CASE Delivered(k)
    BY <1>5, <1>7, <2>1, <2>2 DEF Promised
  <2>3. CASE ~Delivered(k)
    <3>1. PICK o \in Originals(k) \ {x} :
            Has(o, k) /\ ~Without(o, k) /\ hasty /\ crashes > 0
      BY <2>1, <2>3 DEF Promised
    <3>2. Has(o, k)' /\ ~Without(o, k)'
      BY <1>0, <1>2, <1>6, <3>1
    <3> QED
      BY <1>1, <3>1, <3>2 DEF Promised
  <2> QED
    BY <2>2, <2>3
<1> QED
  BY <1>1, <1>3, <1>4, <1>7 DEF SafeKey

\* A node that does not have the value finds an owner that does.
LEMMA SomebodyHas ==
  ASSUME TypeInv, Outages, NEW k \in Keys, SafeKey(k)
  PROVE  \E o \in Originals(k) : Has(o, k) /\ Up(o)
<1>1. Originals(k) \subseteq Servers /\ P(k) \in Originals(k)
  BY Places DEF TypeInv, Originals, Servers
<1>2. \E o \in Originals(k) : Has(o, k)
  BY <1>1 DEF SafeKey, Kept
<1> QED
  BY <1>1, <1>2 DEF Has, Up, Outages, SafeKey, Latest

LEMMA SafeThroughRecovery ==
  ASSUME TypeInv, Outages, Migration, NamedRings, env.named,
         NEW k \in Keys, SafeKey(k), Pulled(k)', latest'[k] = latest[k],
         NEW n \in Servers, Recover(n)
  PROVE  SafeKey(k)'
<1>0. /\ Members \subseteq Servers /\ Joiner \in Servers
      /\ Servers = Members \cup {Joiner}
      /\ Originals(k) \subseteq Members /\ Joiner \notin Members
  BY Places, MembershipAssumption DEF TypeInv, Originals, Servers
<1>l. latest[k] # Absent /\ \A q \in Members : cache[q][k] \in {Absent, latest[k]}
  BY DEF SafeKey, Latest
<1>k. n \in Originals(k) => Kept(n, k)
  BY DEF SafeKey
<1>1. CASE Start(n)
  <2>1. /\ env' = env
        /\ UNCHANGED <<cache, syncFrom, net, transfer, reported, hasty, crashes,
                       missed, refused>>
        /\ status[n] = "down" /\ status' = [status EXCEPT ![n] = "starting"]
    BY <1>1 DEF Start, joinVars, faultVars
  <2>2. /\ status'[n] = "starting"
        /\ \A q \in Servers \ {n} : status'[q] = status[q]
    BY <2>1 DEF TypeInv
  <2>3. \A q \in Servers : Has(q, k)' = Has(q, k)
    BY <2>1 DEF Has
  <2>4. Originals(k)' = Originals(k)
    BY <2>1, OwnersStay
  <2>5. ASSUME n \in Originals(k) PROVE Kept(n, k)'
    <3>1. ~Has(n, k)
      BY <1>l, <2>1 DEF Has, Outages
    <3>2. PICK o \in Originals(k) \ {n} : Has(o, k) /\ status[o] = "ready"
      BY <1>k, <2>5, <3>1 DEF Kept
    <3> QED
      BY <1>0, <2>2, <2>3, <2>4, <3>2 DEF Kept
  <2>6. n = Joiner /\ Delivered(k) => Delivered(k)'
    BY <2>1, <2>2 DEF Delivered, Arrives
  <2> QED
    BY <2>1, <2>2, <2>5, <2>6, RecoveringSafe
<1>2. CASE CheckAllPeers(n)
  <2>1. /\ env' = env
        /\ UNCHANGED <<cache, net, transfer, reported, hasty, crashes, missed,
                       refused>>
        /\ status[n] = "starting" /\ status' = [status EXCEPT ![n] = "syncing"]
        /\ syncFrom' = [syncFrom EXCEPT ![n] = Reached]
    BY <1>2 DEF CheckAllPeers, joinVars, faultVars
  <2>2. /\ status'[n] = "syncing" /\ syncFrom'[n] = Reached
        /\ \A q \in Servers \ {n} :
             status'[q] = status[q] /\ syncFrom'[q] = syncFrom[q]
    BY <2>1 DEF TypeInv
  <2>3. \A q \in Servers : Has(q, k)' = Has(q, k)
    BY <2>1 DEF Has
  <2>4. Originals(k)' = Originals(k)
    BY <2>1, OwnersStay
  <2>5. ASSUME n \in Originals(k) PROVE Kept(n, k)'
    <3>1. CASE Has(n, k)
      BY <2>3, <3>1 DEF Kept
    <3>2. CASE ~Has(n, k)
      <4>1. PICK o \in Originals(k) \ {n} : Has(o, k) /\ status[o] = "ready"
        BY <1>k, <2>5, <3>2 DEF Kept
      <4>2. o \in Reached
        BY <1>0, <4>1 DEF Reached, Peers, Up
      <4> QED
        BY <1>0, <2>2, <2>3, <2>4, <4>1, <4>2 DEF Kept
    <3> QED
      BY <3>1, <3>2
  <2>6. ASSUME n = Joiner, Delivered(k) PROVE Delivered(k)'
    <3>1. PICK o \in Originals(k) : Has(o, k) /\ Up(o)
      BY SomebodyHas
    <3>2. o \in Reached
      BY <1>0, <3>1 DEF Reached, Peers
    <3> QED
      BY <1>0, <2>1, <2>2, <2>3, <2>4, <2>6, <3>1, <3>2 DEF Delivered, Arrives
  <2> QED
    BY <2>1, <2>2, <2>5, <2>6, RecoveringSafe
<1>3. ASSUME NEW p \in Members, SyncFromPeer(n, p) PROVE SafeKey(k)'
  <2> DEFINE f == [x \in Offered(n, p) |-> cache[p][x]]
  <2>1. /\ env' = env
        /\ UNCHANGED <<status, net, transfer, reported, hasty, crashes, missed,
                       refused>>
        /\ p \in syncFrom[n] /\ syncFrom' = [syncFrom EXCEPT ![n] = @ \ {p}]
        /\ store(n, f)
    BY <1>3 DEF SyncFromPeer, joinVars, faultVars
  <2>2. status[n] = "syncing"
    BY <2>1 DEF Outages
  <2>3. Items(f)
    BY <1>0 DEF Items, Offered, Holds, TypeInv
  <2>4. /\ k \in DOMAIN f <=> cache[p][k] # Absent /\ Adopts(n, k)
        /\ k \in DOMAIN f => f[k] = cache[p][k]
    BY DEF Offered, Holds
  <2> HIDE DEF f
  <2>5. /\ \A q \in Servers \ {n} : cache'[q] = cache[q]
        /\ cache'[n][k] = IF k \in DOMAIN f THEN f[k] ELSE cache[n][k]
    BY <2>1, <2>3, StoreType
  <2>6. \A q \in Servers : cache'[q][k] \in {cache[q][k], latest[k]}
    BY <1>l, <2>4, <2>5
  <2>7. Has(p, k) /\ Adopts(n, k) => Has(n, k)'
    BY <1>l, <2>4, <2>5 DEF Has
  <2>8. \A q \in Servers : Has(q, k) => Has(q, k)'
    BY <2>6 DEF Has
  <2>9. /\ syncFrom'[n] = syncFrom[n] \ {p}
        /\ \A q \in Servers \ {n} : syncFrom'[q] = syncFrom[q]
    BY <2>1 DEF TypeInv
  <2>10. Originals(k)' = Originals(k) /\ R(k)' = R(k)
    BY <2>1, OwnersStay
  <2>11. ASSUME n \in Originals(k) PROVE Kept(n, k)'
    <3>1. CASE Has(n, k)'
      BY <3>1 DEF Kept
    <3>2. CASE ~Has(n, k)'
      <4>1. ~Has(n, k)
        BY <2>8, <3>2
      <4>2. PICK o \in Originals(k) \ {n} :
              /\ Has(o, k) /\ status[o] = "ready"
              /\ o \in syncFrom[n] \/ (n = R(k) /\ hasty /\ crashes > 0)
        BY <1>k, <2>2, <2>11, <4>1 DEF Kept
      <4>3. CASE o # p \/ (n = R(k) /\ hasty /\ crashes > 0)
        BY <1>0, <2>1, <2>2, <2>8, <2>9, <2>10, <4>2, <4>3 DEF Kept
      <4>4. CASE o = p
        <5>1. ~Adopts(n, k)
          BY <2>7, <3>2, <4>2, <4>4
        <5>2. ring[n] # Members
          BY <2>11, <5>1, Places DEF Adopts, Originals, TypeInv
        <5>3. ring[n] = Servers /\ hasty
          BY <1>0, <2>2, <2>11, <5>2 DEF NamedRings
        <5>4. n # P(k)
          BY <5>1, <5>3, Places DEF Adopts, TypeInv
        <5>5. n = R(k) /\ crashes > 0
          BY <1>0, <2>2, <2>11, <5>4 DEF Originals, Outages
        <5> QED
          BY <4>3, <5>3, <5>5
      <4> QED
        BY <4>3, <4>4
    <3> QED
      BY <3>1, <3>2
  <2>a. ASSUME n = Joiner, Moves(k), Arrives(k) PROVE Arrives(k)'
    <3>1. Adopts(Joiner, k)
      BY <2>a, Places DEF Adopts, NamedRings, TypeInv
    <3>2. CASE Has(Joiner, k)
      BY <2>8, <2>a, <3>2 DEF Arrives
    <3>3. CASE ~Has(Joiner, k)
      <4>1. PICK o \in Originals(k) \cap syncFrom[Joiner] : Has(o, k)
        BY <2>2, <2>a, <3>3 DEF Arrives
      <4>2. CASE o = p
        BY <2>7, <2>a, <3>1, <4>1, <4>2 DEF Arrives
      <4>3. CASE o # p
        BY <1>0, <2>1, <2>2, <2>8, <2>9, <2>10, <2>a, <4>1, <4>3 DEF Arrives
      <4> QED
        BY <4>2, <4>3
    <3> QED
      BY <3>2, <3>3
  <2>12. ASSUME n = Joiner, Moves(k), Delivered(k) PROVE Delivered(k)'
    BY <1>0, <2>1, <2>6, <2>12, <2>a DEF Delivered
  <2> QED
    BY <2>1, <2>2, <2>6, <2>9, <2>11, <2>12, RecoveringSafe
<1>4. CASE SyncDone(n)
  <2>1. /\ env' = env
        /\ UNCHANGED <<cache, syncFrom, net, transfer, reported, hasty, crashes,
                       missed, refused>>
        /\ status[n] = "syncing" /\ syncFrom[n] = {}
        /\ status' = [status EXCEPT ![n] = "ready"]
    BY <1>4 DEF SyncDone, joinVars, faultVars
  <2>2. /\ status'[n] = "ready"
        /\ \A q \in Servers \ {n} : status'[q] = status[q]
    BY <2>1 DEF TypeInv
  <2>3. \A q \in Servers : Has(q, k)' = Has(q, k)
    BY <2>1 DEF Has
  <2>4. Originals(k)' = Originals(k) /\ R(k)' = R(k)
    BY <2>1, OwnersStay
  <2>5. ASSUME n \in Originals(k) PROVE Kept(n, k)'
    <3>1. CASE Has(n, k)
      BY <2>3, <3>1 DEF Kept
    <3>2. CASE ~Has(n, k)
      <4>1. PICK o \in Originals(k) \ {n} :
              /\ Has(o, k) /\ status[o] = "ready"
              /\ n = R(k) /\ hasty /\ crashes > 0
        BY <1>k, <2>1, <2>5, <3>2 DEF Kept
      <4> QED
        BY <1>0, <2>1, <2>2, <2>3, <2>4, <4>1 DEF Kept
    <3> QED
      BY <3>1, <3>2
  <2>6. n = Joiner /\ Delivered(k) => Delivered(k)'
    BY <1>0, <2>1, <2>3 DEF Delivered, Arrives
  <2> QED
    BY <2>1, <2>2, <2>5, <2>6, RecoveringSafe
\* A key the node did not miss was not offered, or it declined it anyway.
<1>5. ASSUME NEW peers, SyncFails(n, peers), peers \subseteq syncFrom[n]
      PROVE  SafeKey(k)'
  <2> DEFINE lost == UNION {Offered(n, p) : p \in peers}
  <2>1. /\ env' = env
        /\ UNCHANGED <<cache, status, net, transfer, reported, hasty, crashes,
                       refused>>
        /\ missed \subseteq missed'
        /\ n \in Members \/ begun => {n} \X lost \subseteq missed'
        /\ syncFrom' = [syncFrom EXCEPT ![n] = @ \ peers]
        /\ lost # {}
    BY <1>5 DEF SyncFails, joinVars
  <2>2. status[n] = "syncing"
    <3>1. syncFrom[n] # {}
      BY <1>5, <2>1
    <3> QED
      BY <3>1 DEF Outages
  <2>3. /\ syncFrom'[n] = syncFrom[n] \ peers
        /\ \A q \in Servers \ {n} : syncFrom'[q] = syncFrom[q]
    BY <2>1 DEF TypeInv
  <2>4. ASSUME NEW p \in peers, Has(p, k), Adopts(n, k) PROVE k \in lost
    BY <1>l, <2>4 DEF Offered, Holds, Has
  <2> HIDE DEF lost
  <2>5. \A q \in Servers : Has(q, k)' = Has(q, k)
    BY <2>1 DEF Has
  <2>6. Originals(k)' = Originals(k) /\ R(k)' = R(k)
    BY <2>1, OwnersStay
  <2>7. ASSUME n \in Originals(k) PROVE Kept(n, k)'
    <3>1. CASE Has(n, k)
      BY <2>5, <3>1 DEF Kept
    <3>2. CASE ~Has(n, k)
      <4>1. PICK o \in Originals(k) \ {n} :
              /\ Has(o, k) /\ status[o] = "ready"
              /\ o \in syncFrom[n] \/ (n = R(k) /\ hasty /\ crashes > 0)
        BY <1>k, <2>2, <2>7, <3>2 DEF Kept
      <4>2. CASE o \notin peers \/ (n = R(k) /\ hasty /\ crashes > 0)
        BY <1>0, <2>1, <2>2, <2>3, <2>5, <2>6, <4>1, <4>2 DEF Kept
      <4>3. CASE o \in peers
        <5>0. k \notin lost
          BY <1>0, <2>1, <2>7 DEF Pulled
        <5>1. ~Adopts(n, k)
          BY <2>4, <4>1, <4>3, <5>0
        <5>2. ring[n] # Members
          BY <2>7, <5>1, Places DEF Adopts, Originals, TypeInv
        <5>3. ring[n] = Servers /\ hasty
          BY <1>0, <2>2, <2>7, <5>2 DEF NamedRings
        <5>4. n # P(k)
          BY <5>1, <5>3, Places DEF Adopts, TypeInv
        <5>5. n = R(k) /\ crashes > 0
          BY <1>0, <2>2, <2>7, <5>4 DEF Originals, Outages
        <5> QED
          BY <4>2, <5>3, <5>5
      <4> QED
        BY <4>2, <4>3
    <3> QED
      BY <3>1, <3>2
  <2>8. ASSUME n = Joiner, Moves(k), Delivered(k),
               NEW x \in Originals(k), Without(x, k)
        PROVE  Delivered(k)'
    <3>1. begun
      BY <1>0, <2>8 DEF Migration, Without
    <3>2. Adopts(Joiner, k)
      BY <2>8, Places DEF Adopts, NamedRings, TypeInv
    <3>3. ASSUME <<Joiner, k>> \notin missed' PROVE Arrives(k)'
      <4>1. k \notin lost /\ Arrives(k)
        BY <2>1, <2>8, <3>1, <3>3 DEF Delivered
      <4>2. CASE Has(Joiner, k)
        BY <1>0, <2>5, <4>2 DEF Arrives
      <4>3. CASE ~Has(Joiner, k)
        <5>1. PICK o \in Originals(k) \cap syncFrom[Joiner] : Has(o, k)
          BY <2>2, <2>8, <4>1, <4>3 DEF Arrives
        <5>2. o \notin peers
          BY <2>4, <2>8, <3>2, <4>1, <5>1
        <5> QED
          BY <1>0, <2>1, <2>2, <2>3, <2>5, <2>6, <2>8, <5>1, <5>2 DEF Arrives
      <4> QED
        BY <4>2, <4>3
    <3> QED
      BY <2>1, <2>8, <3>3 DEF Delivered
  <2> QED
    BY <2>1, <2>2, <2>3, <2>7, <2>8, RecoveringSafe
<1> QED
  BY <1>1, <1>2, <1>3, <1>4, <1>5 DEF Recover

\* Faults only accumulate, and a key is safe, or settled before the join.
LEMMA SafeSteps ==
  ASSUME TypeInv, [Next]_vars
  PROVE  /\ Named' => Named
         /\ Bare' => Bare
         /\ missed \subseteq missed'
         /\ \A k \in safe' :
              /\ k \in safe \/ (k \in Settled /\ ~begun)
              /\ k \in Keys /\ latest'[k] = latest[k]
              /\ ~handleAPISet(k)
<1>0. env' = env
  BY EnvStays
<1>1. crashes \in Nat /\ crashes' \in {crashes, crashes + 1} /\ (hasty => hasty')
  <2>1. CASE UNCHANGED vars
    BY <2>1 DEF vars, faultVars, joinVars, TypeInv
  <2>2. CASE Next
    BY <2>2 DEF Next, Recover, handleAPISet, Deliver, Lose, RebalanceForNewNode,
                BulkTransfer, BulkTransferFails, Crash, Start, CheckAllPeers,
                SyncFromPeer, SyncDone, handleInternalPeers, RedeployGateway,
                BulkTransferRefused, SyncFails,
                faultVars, joinVars, TypeInv
  <2> QED
    BY <2>1, <2>2
<1>2. (Named' => Named) /\ (Bare' => Bare)
  BY <1>0, <1>1 DEF Named, Bare
<1>3. \/ UNCHANGED <<safe, latest>>
      \/ UNCHANGED latest /\ safe' = IF begun THEN safe ELSE safe \cup Settled
      \/ \E x \in Keys : /\ safe' = safe \ {x}
                         /\ latest' = [latest EXCEPT ![x] = writes + 1]
  <2>1. CASE UNCHANGED vars
    BY <2>1 DEF vars, clientVars
  <2>2. CASE \E x \in Keys : handleAPISet(x)
    BY <2>2 DEF handleAPISet
  <2>3. CASE Next /\ ~\E x \in Keys : handleAPISet(x)
    BY <2>3 DEF Next, Recover, Deliver, Lose, RebalanceForNewNode,
                BulkTransfer, BulkTransferFails, Crash, Start, CheckAllPeers,
                SyncFromPeer, SyncDone, handleInternalPeers, RedeployGateway,
                BulkTransferRefused, SyncFails,
                clientVars
  <2> QED
    BY <2>1, <2>2, <2>3
<1>4. safe \subseteq Keys /\ Settled \subseteq Keys /\ latest \in [Keys -> Values]
  BY DEF TypeInv, Settled
<1>5. ASSUME NEW k \in safe'
      PROVE  /\ k \in safe \/ (k \in Settled /\ ~begun)
             /\ k \in Keys /\ latest'[k] = latest[k]
             /\ ~handleAPISet(k)
  <2>1. ~handleAPISet(k)
    BY <1>5 DEF handleAPISet
  <2> QED
    BY <1>3, <1>4, <1>5, <2>1
<1>6. missed \subseteq missed'
  <2>1. CASE UNCHANGED vars
    BY <2>1 DEF vars, faultVars
  <2>2. CASE Next
    BY <2>2 DEF Next, Recover, handleAPISet, Deliver, Lose, RebalanceForNewNode,
                BulkTransfer, BulkTransferFails, Crash, Start, CheckAllPeers,
                SyncFromPeer, SyncDone, handleInternalPeers, RedeployGateway,
                BulkTransferRefused, SyncFails, faultVars
  <2> QED
    BY <2>1, <2>2
<1> QED
  BY <1>2, <1>5, <1>6

LEMMA NextNamedKeys ==
  TypeInv /\ Outages /\ Migration /\ NamedRings /\ NamedKeys /\ [Next]_vars
    => NamedKeys'
<1> SUFFICES ASSUME TypeInv, Outages, Migration, NamedRings, NamedKeys,
                    [Next]_vars, Named', NEW k \in safe', Pulled(k)'
             PROVE  SafeKey(k)'
  BY DEF NamedKeys
<1>1. /\ k \in safe \/ (k \in Settled /\ ~begun)
      /\ k \in Keys /\ latest'[k] = latest[k] /\ Named
      /\ ~handleAPISet(k) /\ Pulled(k)
  BY SafeSteps DEF Pulled
<1>2. env.named
  BY <1>1 DEF Named
<1>3. SafeKey(k)
  BY <1>1, <1>2, SettledIsSafe DEF NamedKeys
<1>4. CASE \/ \E x \in Keys \ {k} : handleAPISet(x)
           \/ \E m \in net : Deliver(m) \/ Lose(m)
           \/ \E n \in Servers : handleInternalPeers(n)
           \/ RedeployGateway
           \/ UNCHANGED vars
  BY <1>1, <1>3, <1>4, SafeThroughRequests
<1>5. CASE \E n \in Members : RebalanceForNewNode(n)
  BY <1>1, <1>2, <1>3, <1>5, SafeThroughRebalance
<1>6. CASE \E n \in Members : \/ BulkTransfer(n) \/ BulkTransferFails(n)
                              \/ BulkTransferRefused(n)
  BY <1>1, <1>3, <1>6, SafeThroughTransfer
<1>7. CASE \E n \in Servers : Crash(n)
  BY <1>1, <1>3, <1>7, SafeThroughCrash
<1>8. CASE \E n \in Servers : Recover(n)
  BY <1>1, <1>2, <1>3, <1>8, SafeThroughRecovery
<1> QED
  BY <1>1, <1>4, <1>5, <1>6, <1>7, <1>8 DEF Next

-----------------------------------------------------------------------------
(* Safe keys, with bare addresses. *)

\* A key that is written once has one value.
LEMMA OneValue ==
  ASSUME TypeInv, env.writes <= 1
  PROVE  Values \ {Absent} \subseteq {1}
<1>1. env.writes \in Nat /\ env.writes <= 1
  BY MembershipAssumption DEF TypeInv, Environment
<1> QED
  BY <1>1 DEF Values, Absent

LEMMA NextBareKeys ==
  TypeInv /\ Outages /\ Migration /\ BareKeys /\ [Next]_vars => BareKeys'
<1> SUFFICES ASSUME TypeInv, Outages, Migration, BareKeys, [Next]_vars, Bare',
                    NEW k \in safe'
             PROVE  /\ latest'[k] # Absent
                    /\ \A n \in Originals(k)' : Has(n, k)'
  BY DEF BareKeys
<1>1. /\ k \in safe \/ (k \in Settled /\ ~begun)
      /\ k \in Keys /\ latest'[k] = latest[k] /\ Bare
      /\ ~handleAPISet(k)
  BY SafeSteps
<1>0. /\ Members \subseteq Servers /\ Joiner \in Servers
      /\ Originals(k) \subseteq Members /\ Joiner \notin Members
  BY <1>1, Places, MembershipAssumption DEF TypeInv, Originals, Servers
<1>2. latest[k] # Absent /\ \A n \in Originals(k) : Has(n, k)
  <2>1. CASE k \in safe
    BY <1>1, <2>1 DEF BareKeys
  <2>2. CASE k \in Settled /\ ~begun
    <3>1. Owners(k) = Originals(k)
      BY <1>1, <2>2, GatewayOwners, MembershipAssumption
         DEF TypeInv, Owners, Originals, Migration
    <3> QED
      BY <2>2, <3>1 DEF Settled, Has
  <2> QED
    BY <1>1, <2>1, <2>2
<1>3. Originals(k)' = Originals(k)
  BY EnvStays, OwnersStay
<1>4. Values \ {Absent} \subseteq {1} /\ latest[k] = 1
  BY <1>1, <1>2, OneValue DEF TypeInv, Bare
<1>5. crashes = 0 /\ crashes' = 0 /\ \A n \in Members : syncFrom[n] = {}
  <2>1. crashes = 0 /\ crashes' = 0
    BY <1>1 DEF Bare
  <2> QED
    BY <1>0, <2>1 DEF Outages
\* Nothing a step stores at a member is another value.
<1>6. ASSUME NEW n \in Members PROVE cache'[n][k] \in {cache[n][k], 1}
  <2>s. ASSUME NEW q \in Servers, NEW f, Items(f), store(q, f)
        PROVE  cache'[n][k] \in {cache[n][k], 1}
    <3>1. n # q => cache'[n] = cache[n]
      BY <1>0, <2>s, StoreType
    <3>2. cache'[q][k] = IF k \in DOMAIN f THEN f[k] ELSE cache[q][k]
      BY <1>1, <2>s, StoreType
    <3>3. k \in DOMAIN f => f[k] = 1
      BY <1>4, <2>s DEF Items
    <3> QED
      BY <3>1, <3>2, <3>3
  <2>h. ASSUME NEW q \in Servers, NEW x \in Keys, NEW w \in Values \ {Absent},
               cache' = [cache EXCEPT ![q][x] = w]
        PROVE  cache'[n][k] \in {cache[n][k], 1}
    <3>1. w = 1
      BY <1>4
    <3> QED
      BY <1>0, <1>1, <2>h, <3>1 DEF TypeInv
  <2>1. CASE UNCHANGED cache
    BY <2>1
  <2>2. ASSUME NEW x \in Keys, handleAPISet(x)
        PROVE  cache'[n][k] \in {cache[n][k], 1}
    <3>1. writes + 1 \in Values \ {Absent}
      BY <2>2, MembershipAssumption
         DEF handleAPISet, TypeInv, Environment, Values, Absent
    <3>2. PrimaryOf(x) \in Servers /\ ReplicaOf(x) \in Servers
      BY <1>0, GatewayOwners, Places DEF TypeInv
    <3>3. \E q \in Servers : cache' = [cache EXCEPT ![q][x] = writes + 1]
      BY <2>2, <3>2 DEF handleAPISet, handleSet
    <3> QED
      BY <2>h, <3>1, <3>3
  <2>3. ASSUME NEW m \in net, Deliver(m)
        PROVE  cache'[n][k] \in {cache[n][k], 1}
    <3>1. m.to \in Servers /\ Items(m.items)
      BY DEF TypeInv
    <3>2. \/ store(m.to, m.items)
          \/ \E x \in DOMAIN m.items :
               cache' = [cache EXCEPT ![m.to][x] = m.items[x]]
      BY <2>3 DEF Deliver, handleSet
    <3>3. \A x \in DOMAIN m.items :
            x \in Keys /\ m.items[x] \in Values \ {Absent}
      BY <3>1 DEF Items
    <3> QED
      BY <2>s, <2>h, <3>1, <3>2, <3>3
  <2>4. ASSUME NEW q \in Members, BulkTransfer(q)
        PROVE  cache'[n][k] \in {cache[n][k], 1}
    BY <1>0, <2>s, <2>4 DEF BulkTransfer, TypeInv
  <2>5. ASSUME NEW q \in Servers, NEW p \in Members, SyncFromPeer(q, p)
        PROVE  cache'[n][k] \in {cache[n][k], 1}
    <3> DEFINE f == [x \in Offered(q, p) |-> cache[p][x]]
    <3>1. Items(f) /\ store(q, f)
      BY <1>0, <2>5 DEF Items, Offered, Holds, TypeInv, SyncFromPeer
    <3> QED
      BY <2>s, <3>1
  <2>6. ~\E q \in Servers : Crash(q)
    BY <1>5 DEF Crash
  <2>7. CASE \/ \E m \in net : Lose(m)
             \/ \E q \in Members : \/ RebalanceForNewNode(q)
                                   \/ BulkTransferFails(q)
                                   \/ BulkTransferRefused(q)
             \/ \E q \in Servers : \/ Start(q) \/ CheckAllPeers(q) \/ SyncDone(q)
                                   \/ handleInternalPeers(q)
                                   \/ \E peers : SyncFails(q, peers)
             \/ RedeployGateway
             \/ UNCHANGED vars
    BY <2>1, <2>7 DEF Lose, RebalanceForNewNode, BulkTransferFails, Start,
                      CheckAllPeers, SyncDone, handleInternalPeers,
                      BulkTransferRefused, SyncFails, RedeployGateway, vars
  <2> QED
    BY <2>2, <2>3, <2>4, <2>5, <2>6, <2>7 DEF Next, Recover
<1> QED
  BY <1>0, <1>1, <1>2, <1>3, <1>4, <1>6 DEF Has

-----------------------------------------------------------------------------
(* The theorems. *)

LEMMA InitJoin == Init => JoinInv
<1> SUFFICES ASSUME Init PROVE JoinInv
  OBVIOUS
<1>0. Joiner \in Servers /\ Joiner \notin Members /\ Members \subseteq Servers
  BY MembershipAssumption DEF Servers
<1>1. TypeInv /\ FaultTypes
  BY InitType DEF Init, FaultTypes
<1>2. Outages
  BY <1>0 DEF Init, Outages
<1>3. Migration
  BY <1>0 DEF Init, Migration
<1>4. NamedRings
  BY <1>0, NamedNewRing DEF Init, NamedRings
<1>5. NamedKeys /\ BareKeys
  BY DEF Init, NamedKeys, BareKeys
<1> QED
  BY <1>1, <1>2, <1>3, <1>4, <1>5 DEF JoinInv

LEMMA JoinHolds == Spec => []JoinInv
<1>1. JoinInv /\ [Next]_vars => JoinInv'
  BY NextType, NextFaultTypes, NextOutages, NextMigration, NextNamedRings,
     NextNamedKeys, NextBareKeys DEF JoinInv
<1> QED
  BY <1>1, InitJoin, PTL DEF Spec

\* After the switch all nodes are ready and all have reported, so that nobody
\* is on the way to a value; every promise is kept, except for failed pulls.
LEMMA AfterSwitch ==
  ASSUME JoinInv, Named, Joiner \in gateway, NEW k \in safe, Pulled(k)
  PROVE  /\ Has(P(k), k)
         /\ Moves(k) /\ k \notin refused =>
              /\ cache[Joiner][k] \in {Absent, latest[k]}
              /\ <<Joiner, k>> \notin missed => Has(Joiner, k)
<1>0. /\ TypeInv /\ Migration /\ k \in Keys /\ SafeKey(k)
      /\ Members \subseteq Servers /\ Joiner \in Servers
  BY DEF JoinInv, TypeInv, NamedKeys, Servers
<1>1. /\ P(k) \in Members /\ R(k) \in Members /\ P(k) # R(k)
      /\ Originals(k) = {P(k), R(k)}
  BY <1>0, Places DEF TypeInv, Originals
<1>2. reported = Members /\ \A n \in Servers : status[n] = "ready"
  BY <1>0 DEF Migration
<1>3. Has(P(k), k)
  BY <1>0, <1>1, <1>2 DEF SafeKey, Kept
<1>4. \A n \in Originals(k) : Without(n, k)
  BY <1>1, <1>2 DEF Without
<1>5. ASSUME Moves(k), k \notin refused
      PROVE  /\ cache[Joiner][k] \in {Absent, latest[k]}
             /\ <<Joiner, k>> \notin missed => Has(Joiner, k)
  <2>1. Promised(P(k), k)
    BY <1>0, <1>1, <1>4, <1>5 DEF SafeKey
  <2> QED
    BY <1>0, <1>2, <1>4, <2>1 DEF Promised, Delivered, Arrives
<1> QED
  BY <1>3, <1>5

(***************************************************************************)
(* Rings hold names, caches hold writes, and every request that the nodes, *)
(* the gateway and the rebalancing send has a receiver and known keys.     *)
(***************************************************************************)
THEOREM MembershipTypeCorrect == Spec => []TypeOK
<1>1. JoinInv => TypeOK
  <2> SUFFICES ASSUME JoinInv PROVE TypeOK
    OBVIOUS
  <2>0. TypeInv /\ FaultTypes
    BY DEF JoinInv
  <2>1. Values \subseteq Writes \cup {Absent}
    BY <2>0, MembershipAssumption
       DEF TypeInv, Environment, Values, Writes, Absent
  <2>2. cache \in [Servers -> [Keys -> Writes \cup {Absent}]]
    BY <2>0, <2>1 DEF TypeInv
  <2> QED
    BY <2>0, <2>2 DEF TypeInv, FaultTypes, TypeOK, Items, Servers
<1> QED
  BY <1>1, JoinHolds, PTL

(***************************************************************************)
(* Clients see nothing of a join (RouteGet during RebalanceForNewNode):    *)
(* for any number of members, keys, writes of other keys, failed pulls of  *)
(* other keys or of the new node, and repeated, failed or late batches,    *)
(* and for any number of crashes as long as no member is rebalanced before *)
(* it is ready.                                                            *)
(***************************************************************************)
THEOREM JoinsAreInvisible == Spec => []JoinIsInvisible
<1>1. JoinInv => JoinIsInvisible
  <2> SUFFICES ASSUME JoinInv, NEW k \in safe,
                      \/ /\ Named /\ Pulled(k)
                         /\ k \notin refused \/ env.writes <= 1
                      \/ Bare
               PROVE  Read(k) = latest[k]
    BY DEF JoinIsInvisible
  <2>0. /\ TypeInv /\ Outages /\ Migration /\ k \in Keys
        /\ Members \subseteq Servers /\ Joiner \in Servers
        /\ Joiner \notin Members
    BY MembershipAssumption DEF JoinInv, TypeInv, Servers
  <2>1. /\ P(k) \in Members /\ R(k) \in Members /\ P(k) # R(k)
        /\ Originals(k) = {P(k), R(k)}
    BY <2>0, Places DEF TypeInv, Originals
  <2>d. \A n \in Servers : ~Up(n) => cache[n][k] = Absent
    BY <2>0 DEF Outages, Up
  <2>r. Read(k) = IF cache[PrimaryOf(k)][k] # Absent THEN cache[PrimaryOf(k)][k]
                  ELSE cache[ReplicaOf(k)][k]
    <3>1. PrimaryOf(k) \in Servers /\ ReplicaOf(k) \in Servers
      BY <2>0, <2>1, GatewayOwners DEF TypeInv
    <3> QED
      BY <2>d, <3>1 DEF Read
  <2>2. CASE Named /\ Pulled(k) /\ (k \notin refused \/ env.writes <= 1)
    <3>1. SafeKey(k)
      BY <2>2 DEF JoinInv, NamedKeys
    <3>2. /\ latest[k] # Absent
          /\ \A n \in Members : cache[n][k] \in {Absent, latest[k]}
      BY <3>1 DEF SafeKey, Latest
    <3>3. Has(P(k), k) \/ Has(R(k), k)
      BY <2>1, <3>1 DEF SafeKey, Kept
    <3>4. CASE Joiner \notin gateway
      BY <2>0, <2>1, <2>r, <3>2, <3>3, <3>4, GatewayOwners DEF TypeInv, Has
    <3>5. CASE Joiner \in gateway
      <4>1. Has(P(k), k)
        BY <2>2, <3>5, AfterSwitch
      <4>2. ASSUME Moves(k) PROVE cache[Joiner][k] \in {Absent, latest[k]}
        <5>1. CASE k \notin refused
          BY <2>2, <3>5, <4>2, <5>1, AfterSwitch
        <5>2. CASE env.writes <= 1
          <6>1. Values \ {Absent} \subseteq {1} /\ latest[k] \in Values
            BY <2>0, <5>2, OneValue DEF TypeInv
          <6>2. cache[Joiner][k] \in Values
            BY <2>0 DEF TypeInv
          <6> QED
            BY <3>2, <6>1, <6>2
        <5> QED
          BY <2>2, <5>1, <5>2
      <4> QED
        BY <2>0, <2>r, <3>2, <3>5, <4>1, <4>2, GatewayOwners DEF TypeInv, Has
    <3> QED
      BY <3>4, <3>5
  <2>3. CASE Bare
    <3>1. latest[k] # Absent /\ Has(P(k), k) /\ Has(R(k), k)
      BY <2>1, <2>3 DEF JoinInv, BareKeys
    <3>2. \A n \in Servers : cache[n][k] \in {Absent, latest[k]}
      <4>1. Values \ {Absent} \subseteq {1} /\ latest[k] \in Values
        BY <2>0, <2>3, OneValue DEF TypeInv, Bare
      <4>2. cache \in [Servers -> [Keys -> Values]]
        BY <2>0 DEF TypeInv
      <4> QED
        BY <2>0, <3>1, <4>1, <4>2
    <3> QED
      BY <2>0, <2>1, <2>r, <3>1, <3>2, GatewayOwners DEF TypeInv, Has
  <2> QED
    BY <2>2, <2>3
<1> QED
  BY <1>1, JoinHolds, PTL

(***************************************************************************)
(* When the gateway is switched, a key whose primary is now the new node   *)
(* is there and on its former primary, which is now its replica            *)
(* (RebalanceForNewNode, IngestBulkKeys, SyncFromPeer), if the pulls that  *)
(* were to bring it succeeded and no batch with it was refused.            *)
(***************************************************************************)
THEOREM MovedKeysAreRedundant == Spec => []MovedKeysHaveTwoCopies
<1>1. JoinInv => MovedKeysHaveTwoCopies
  <2> SUFFICES ASSUME JoinInv, Named, Joiner \in gateway, NEW k \in safe,
                      k \notin refused, PrimaryOf(k) = Joiner,
                      Pulled(k), <<Joiner, k>> \notin missed
               PROVE  \A n \in Owners(k) : cache[n][k] = latest[k]
    BY DEF MovedKeysHaveTwoCopies
  <2>0. TypeInv /\ k \in Keys /\ Joiner \notin Members
    BY MembershipAssumption DEF JoinInv, TypeInv
  <2>1. P(k) \in Members
    BY <2>0, Places DEF TypeInv
  <2>2. Moves(k) /\ ReplicaOf(k) = P(k)
    BY <2>0, <2>1, GatewayOwners DEF TypeInv
  <2>3. Has(P(k), k) /\ Has(Joiner, k)
    BY <2>2, AfterSwitch
  <2> QED
    BY <2>2, <2>3 DEF Owners, Has
<1> QED
  BY <1>1, JoinHolds, PTL

(***************************************************************************)
(* With peers configured by id, a member whose start-up ended has what it  *)
(* owns (SyncFromPeer on the ring of server.New): for any number of        *)
(* crashes, one at a time, before and during a migration, and any keys     *)
(* whose pull did not fail.                                                *)
(***************************************************************************)
THEOREM RejoinsRestore == Spec => []NamedRejoinRestores
<1>1. JoinInv => NamedRejoinRestores
  <2> SUFFICES ASSUME JoinInv, env.named, Joiner \notin gateway, ~hasty,
                      \A n \in Members : status[n] = "ready",
                      NEW k \in safe, Pulled(k)
               PROVE  \A n \in Owners(k) : Has(n, k)
    BY DEF NamedRejoinRestores, RejoinRestores, Has
  <2>1. SafeKey(k) /\ k \in Keys /\ TypeInv
    BY DEF JoinInv, NamedKeys, Named, TypeInv
  <2>2. Owners(k) = Originals(k) /\ Originals(k) \subseteq Members
    BY <2>1, GatewayOwners, Places DEF TypeInv, Owners, Originals
  <2> QED
    BY <2>1, <2>2 DEF SafeKey, Kept
<1> QED
  BY <1>1, JoinHolds, PTL

=============================================================================
