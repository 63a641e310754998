------------------------------ MODULE HashRing ------------------------------
(***************************************************************************)
(* The consistent hash ring of backend/internal/hashing/ring.go, and the   *)
(* ways a node's server and the gateway fill it: named peers ("id=addr"),  *)
(* placeholders for peers known by address only, and the discovery that    *)
(* replaces a placeholder by the id the peer reports.                      *)
(*                                                                         *)
(* The ring is one struct under one mutex, so it is one variable.  What    *)
(* SHA-256 makes of a name is left open: hashFunc is any table of the set  *)
(* HashFuncs, and a lookup is made for every hash a key can have.          *)
(***************************************************************************)
EXTENDS Sorting, SequencesExt

CONSTANTS
  Nodes,      \* ids that nodes report
  Addrs,      \* network addresses; a placeholder's id is its address
  VNodes,     \* virtual nodes per physical node
  MaxHash,    \* hashes are 0 .. MaxHash
  HashFuncs,  \* tables from <<id, virtual node>> to hashes
  MaxRing,    \* bound: nodes are removed from rings of this length at most,
              \* since colliding hashes let a ring grow forever
  NoNode,     \* the empty id, which a Go map yields for a missing token
  NoAddr      \* the empty address

Ids    == Nodes \cup Addrs
Hashes == 0 .. MaxHash
Tokens == Ids \X (0 .. VNodes - 1)

ASSUME RingAssumption ==
  /\ Nodes \cap Addrs = {}
  /\ VNodes \in Nat \ {0}
  /\ MaxHash \in Nat /\ MaxRing \in Nat
  /\ HashFuncs \subseteq [Tokens -> Hashes]
  /\ NoNode \notin Ids /\ NoAddr \notin Addrs

VARIABLES
  hashRing,   \* the struct HashRing: nodes, addresses, ring, vnodeToNode
  hashFunc    \* its hash function, restricted to the names of virtual nodes

vars == <<hashRing, hashFunc>>

New ==
  [nodes         |-> {},
   nodeAddresses |-> [n \in {} |-> NoAddr],
   ring          |-> <<>>,
   vnodeToNode   |-> [t \in {} |-> NoNode]]

Init ==
  /\ hashRing = New
  /\ hashFunc \in HashFuncs

-----------------------------------------------------------------------------
(* Operations on the struct. *)

\* Reading a Go map: a missing key yields the zero value.
Lookup(f, x, zero) == IF x \in DOMAIN f THEN f[x] ELSE zero

\* Writing a Go map: keys, new or not, get one value.
Put(f, keys, value) ==
  [x \in DOMAIN f \cup keys |-> IF x \in keys THEN value ELSE f[x]]

VNodeHashes(n) == [i \in 1 .. VNodes |-> hashFunc[<<n, i - 1>>]]

\* Variant of internalRemoveNode: only the node's id is deleted.
forgetNode(h, n) == [h EXCEPT !.nodes = @ \ {n}]

(***************************************************************************)
(* The loop over the ring drops a token that maps to the node and deletes  *)
(* the map entry at once: if the hash occurs again, that second occurrence *)
(* no longer maps to the node and is kept.                                 *)
(***************************************************************************)
internalRemoveNode(h, n) ==
  LET owns(i) == Lookup(h.vnodeToNode, h.ring[i], NoNode) = n
      drops(i) == owns(i) /\ \A j \in 1 .. i - 1 : h.ring[j] # h.ring[i]
      kept == {i \in 1 .. Len(h.ring) : ~drops(i)}
      gone == {h.ring[i] : i \in {j \in 1 .. Len(h.ring) : owns(j)}}
  IN  IF n \notin h.nodes THEN h
      ELSE [nodes         |-> h.nodes \ {n},
            nodeAddresses |-> Restrict(h.nodeAddresses,
                                       DOMAIN h.nodeAddresses \ {n}),
            ring          |-> AtPositions(h.ring, kept),
            vnodeToNode   |-> Restrict(h.vnodeToNode,
                                       DOMAIN h.vnodeToNode \ gone)]

\* Variant of insertTokens: the trailing sort is missing.
insertTokensUnsorted(h, n, addr) ==
  LET hashes == VNodeHashes(n)
  IN  [nodes         |-> h.nodes \cup {n},
       nodeAddresses |-> Put(h.nodeAddresses, {n}, addr),
       ring          |-> h.ring \o hashes,
       vnodeToNode   |-> Put(h.vnodeToNode, ToSet(hashes), n)]

\* Variant of insertTokens: a hash that is already on the ring is skipped.
insertFreeTokens(h, n, addr) ==
  LET hashes == SelectSeq(VNodeHashes(n),
                          LAMBDA t : t \notin DOMAIN h.vnodeToNode)
  IN  [nodes         |-> h.nodes \cup {n},
       nodeAddresses |-> Put(h.nodeAddresses, {n}, addr),
       ring          |-> Sort(h.ring \o hashes),
       vnodeToNode   |-> Put(h.vnodeToNode, ToSet(hashes), n)]

\* The part of AddNode for a node that is not on the ring yet.  Of two virtual
\* nodes with one hash the later takes the map entry over, and the ring has
\* the hash twice.
insertTokens(h, n, addr) ==
  LET hashes == VNodeHashes(n)
  IN  [nodes         |-> h.nodes \cup {n},
       nodeAddresses |-> Put(h.nodeAddresses, {n}, addr),
       ring          |-> Sort(h.ring \o hashes),
       vnodeToNode   |-> Put(h.vnodeToNode, ToSet(hashes), n)]

\* Variant of addNode: a known node returns before the placeholder check.
addNodeKnownFirst(h, n, addr) ==
  LET cleared == IF n # addr THEN internalRemoveNode(h, addr) ELSE h
  IN  IF n \in h.nodes
      THEN [h EXCEPT !.nodeAddresses[n] = addr]
      ELSE insertTokens(cleared, n, addr)

\* AddNode: first the placeholder goes, then a known node changes its address
\* and a new one gets its tokens.
addNode(h, n, addr) ==
  LET cleared == IF n # addr THEN internalRemoveNode(h, addr) ELSE h
  IN  IF n \in cleared.nodes
      THEN [cleared EXCEPT !.nodeAddresses[n] = addr]
      ELSE insertTokens(cleared, n, addr)

-----------------------------------------------------------------------------
(* Lookups. *)

Target(h, n) == [id |-> n, addr |-> Lookup(h.nodeAddresses, n, NoAddr)]

\* Variant of searchIndex: the search looks for a hash above the key's.
searchIndexStrict(h, keyHash) ==
  LET atOrAfter == {i \in 1 .. Len(h.ring) : h.ring[i] > keyHash}
  IN  IF atOrAfter = {} THEN 1 ELSE Min(atOrAfter)

\* sort.Search for the first hash at or after the key's, wrapping to the first.
searchIndex(h, keyHash) ==
  LET atOrAfter == {i \in 1 .. Len(h.ring) : h.ring[i] >= keyHash}
  IN  IF atOrAfter = {} THEN 1 ELSE Min(atOrAfter)

\* The node of the index-th position of the ring.
NodeAt(h, i) == Lookup(h.vnodeToNode, h.ring[i], NoNode)

GetPrimaryNode(h, keyHash) == Target(h, NodeAt(h, searchIndex(h, keyHash)))

\* One round along the ring from the key, keeping a node where it first occurs.
GetNodes(h, keyHash, count) ==
  LET size   == Len(h.ring)
      idx    == searchIndex(h, keyHash)
      walk   == [i \in 1 .. size |-> NodeAt(h, ((idx - 1 + i - 1) % size) + 1)]
      firsts == {i \in 1 .. size : \A j \in 1 .. i - 1 : walk[j] # walk[i]}
      unique == AtPositions(walk, firsts)
  IN  [i \in 1 .. Min({count, Len(unique)}) |-> Target(h, unique[i])]

-----------------------------------------------------------------------------
(* Who calls the ring. *)

\* The node itself, a peer given as "id=addr", found by a refresh of
\* /internal/peers, or added by /internal/rebalance.  A node may have moved,
\* and an address may be that of another node by now.
AddNamed(n, addr) ==
  /\ hashRing' = addNode(hashRing, n, addr)
  /\ UNCHANGED hashFunc

\* A peer given as a bare address enters the ring under that address, also
\* when a member has it already: the peers come in the order of a Go map.
AddPlaceholder(addr) ==
  /\ hashRing' = addNode(hashRing, addr, addr)
  /\ UNCHANGED hashFunc

RemoveNode(n) ==
  /\ n \in hashRing.nodes
  /\ Len(hashRing.ring) <= MaxRing
  /\ hashRing' = internalRemoveNode(hashRing, n)
  /\ UNCHANGED hashFunc

Next ==
  \/ \E n \in Nodes, a \in Addrs : AddNamed(n, a)
  \/ \E a \in Addrs : AddPlaceholder(a)
  \/ \E n \in Ids : RemoveNode(n)

Spec == Init /\ [][Next]_vars

-----------------------------------------------------------------------------
(* Properties. *)

\* The struct is well formed: four views of one set of members.
TypeOK ==
  /\ hashRing.nodes \subseteq Ids
  /\ hashRing.nodeAddresses \in [hashRing.nodes -> Addrs]
  /\ hashRing.ring \in Seq(Hashes)
  /\ IsFiniteSet(DOMAIN hashRing.vnodeToNode)
  /\ \A t \in DOMAIN hashRing.vnodeToNode :
       t \in Hashes /\ hashRing.vnodeToNode[t] \in Ids
  /\ hashFunc \in HashFuncs

(***************************************************************************)
(* The reference: the clockwise distance from a key to a hash and to the   *)
(* nearest token of a node, and what it is to list the members in the      *)
(* order of that distance.  It is made from the set of members alone.      *)
(***************************************************************************)
Gap(keyHash, t) == (t + MaxHash + 1 - keyHash) % (MaxHash + 1)

Distance(keyHash, n) ==
  Min({Gap(keyHash, hashFunc[<<n, i>>]) : i \in 0 .. VNodes - 1})

Nearer(keyHash, m, n) == Distance(keyHash, m) < Distance(keyHash, n)

ListsClockwise(owners, members, keyHash) ==
  /\ ToSet(owners) = members
  /\ \A i, j \in DOMAIN owners : i < j => Nearer(keyHash, owners[i], owners[j])

OwnersOf(h, keyHash) ==
  LET all == GetNodes(h, keyHash, Len(h.ring))
  IN  [i \in 1 .. Len(all) |-> all[i].id]

\* The pairs of nodes of which the first comes earlier in a list.
Ahead(owners) ==
  LET earlier == {x \in (DOMAIN owners) \X (DOMAIN owners) : x[1] < x[2]}
  IN  {<<owners[x[1]], owners[x[2]]>> : x \in earlier}

\* A hash that one virtual node has, and tables in which all hashes are such.
Unshared(t) == \A u, v \in Tokens : hashFunc[u] = t /\ hashFunc[v] = t => u = v
CollisionFree == \A v \in Tokens : Unshared(hashFunc[v])

(***************************************************************************)
(* Every lookup agrees with the reference, after any history of additions, *)
(* replacements and removals: the gateway and the nodes, which fill their  *)
(* rings in different orders, route a key to the same primary and replica  *)
(* as soon as their members agree.  Virtual nodes are taken to have        *)
(* different hashes.                                                       *)
(***************************************************************************)
LookupDependsOnMembersOnly ==
  CollisionFree /\ hashRing.nodes # {} =>
    \A k \in Hashes :
      LET owners == OwnersOf(hashRing, k)
      IN  /\ ListsClockwise(owners, hashRing.nodes, k)
          /\ GetPrimaryNode(hashRing, k).id = owners[1]

(***************************************************************************)
(* The README's minimal remapping, for whole preference lists: a change of *)
(* members never reorders the nodes that stay.  So a key moves only to a   *)
(* node that was added or from one that was removed, and the replica of a  *)
(* removed primary becomes the primary.                                    *)
(***************************************************************************)
SurvivorsKeepTheirOrder ==
  [][CollisionFree =>
       LET stay  == hashRing.nodes \cap hashRing'.nodes
           pairs == stay \X stay
       IN  \A k \in Hashes :
             Ahead(OwnersOf(hashRing, k)) \cap pairs
               = Ahead(OwnersOf(hashRing', k)) \cap pairs]_vars

(***************************************************************************)
(* When two virtual nodes do have the same 32-bit hash, removing one of    *)
(* their nodes leaves a token on the ring that belongs to nobody, and      *)
(* lookups that end there return an empty id.  The damage stays there:     *)
(* every key whose search ends at a token of one virtual node has its      *)
(* right primary, whatever was added, replaced and removed before.         *)
(***************************************************************************)
CollisionIsContained ==
  hashRing.nodes # {} =>
    \A k \in Hashes :
      LET primary == GetPrimaryNode(hashRing, k).id
      IN  Unshared(hashRing.ring[searchIndex(hashRing, k)]) =>
            /\ primary \in hashRing.nodes
            /\ \A n \in hashRing.nodes \ {primary} : Nearer(k, primary, n)

(***************************************************************************)
(* A node that takes an address never stays beside the placeholder for it, *)
(* be it new, discovered or moved there: members come to share an address, *)
(* and a key's primary and replica may be one process, only when a bare    *)
(* address enters that a member has, or when two ids are given for one.    *)
(***************************************************************************)
SameAddress(h, m, n) ==
  /\ {m, n} \subseteq h.nodes
  /\ h.nodeAddresses[m] = h.nodeAddresses[n]

PlaceholderGivesWay ==
  [][\A a \in Addrs : \A m \in Ids \ {a} :
       SameAddress(hashRing', a, m) /\ ~SameAddress(hashRing, a, m)
         => a \notin hashRing.nodes /\ m \in hashRing.nodes]_vars

=============================================================================
