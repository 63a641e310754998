--------------------------- MODULE HashRingProofs ---------------------------
(***************************************************************************)
(* HashRing for any ids, addresses, numbers of virtual nodes and tables of *)
(* hashes.  With or without collisions: the four fields of the struct stay *)
(* consistent, a node never takes an address beside its placeholder, and a *)
(* search that ends at an unshared hash returns the right primary.         *)
(* Without collisions: every lookup lists the members by their distance    *)
(* from the key, so it depends on the members alone and a change never     *)
(* reorders those that stay.                                               *)
(***************************************************************************)
EXTENDS HashRing, SortingProofs, WellFoundedInduction

Fields == {"nodes", "nodeAddresses", "ring", "vnodeToNode"}

\* What the struct says about members: each has one address, which is a
\* placeholder's id.
Members(h) ==
  /\ DOMAIN h = Fields
  /\ h.nodes \subseteq Ids
  /\ h.nodeAddresses \in [h.nodes -> Addrs]
  /\ \A a \in h.nodes \cap Addrs : h.nodeAddresses[a] = a

-----------------------------------------------------------------------------
\* Removing a node takes it and its address away and leaves the others.
LEMMA Removed ==
  ASSUME NEW h, Members(h), NEW n
  PROVE  LET r == internalRemoveNode(h, n)
         IN  /\ Members(r)
             /\ r.nodes = h.nodes \ {n}
             /\ \A m \in r.nodes : r.nodeAddresses[m] = h.nodeAddresses[m]
<1> DEFINE r == internalRemoveNode(h, n)
<1>1. CASE n \notin h.nodes
  <2>1. r = h
    BY <1>1 DEF internalRemoveNode
  <2> QED
    BY <1>1, <2>1
<1>2. CASE n \in h.nodes
  <2>1. \E ring, vnodeToNode :
          r = [nodes         |-> h.nodes \ {n},
               nodeAddresses |-> Restrict(h.nodeAddresses,
                                          DOMAIN h.nodeAddresses \ {n}),
               ring          |-> ring,
               vnodeToNode   |-> vnodeToNode]
    BY <1>2 DEF internalRemoveNode
  <2> HIDE DEF r
  <2>2. /\ DOMAIN r = Fields /\ r.nodes = h.nodes \ {n}
        /\ r.nodeAddresses = Restrict(h.nodeAddresses,
                                      DOMAIN h.nodeAddresses \ {n})
    BY <2>1 DEF Fields
  <2>3. /\ r.nodeAddresses \in [h.nodes \ {n} -> Addrs]
        /\ \A m \in h.nodes \ {n} : r.nodeAddresses[m] = h.nodeAddresses[m]
    BY <2>2 DEF Restrict, Members
  <2>4. Members(r)
    BY <2>2, <2>3 DEF Members
  <2> QED
    BY <2>2, <2>3, <2>4 DEF r
<1> QED
  BY <1>1, <1>2

\* Adding a node gives it the address, whether it was there or not, takes the
\* placeholder for that address away and leaves the others.
LEMMA Added ==
  ASSUME NEW h, Members(h), NEW addr \in Addrs,
         NEW n \in Nodes \cup {addr}
  PROVE  LET r == addNode(h, n, addr)
         IN  /\ Members(r)
             /\ r.nodes = (h.nodes \ {addr}) \cup {n}
             /\ r.nodeAddresses[n] = addr
             /\ \A m \in r.nodes \ {n} : r.nodeAddresses[m] = h.nodeAddresses[m]
<1> DEFINE r == addNode(h, n, addr)
           c == IF n # addr THEN internalRemoveNode(h, addr) ELSE h
<1>0. n \in Ids /\ (n \in Addrs => n = addr)
  BY RingAssumption DEF Ids
<1>1. /\ Members(c) /\ c.nodes = IF n # addr THEN h.nodes \ {addr} ELSE h.nodes
      /\ \A m \in c.nodes : c.nodeAddresses[m] = h.nodeAddresses[m]
  <2>1. CASE n # addr
    BY <2>1, Removed
  <2>2. CASE n = addr
    BY <2>2
  <2> QED
    BY <2>1, <2>2
<1>2. r = IF n \in c.nodes THEN [c EXCEPT !.nodeAddresses[n] = addr]
          ELSE insertTokens(c, n, addr)
  BY DEF addNode
<1> HIDE DEF c, r
<1>3. /\ DOMAIN r = Fields
      /\ r.nodes = c.nodes \cup {n}
      /\ r.nodeAddresses \in [c.nodes \cup {n} -> Addrs]
      /\ r.nodeAddresses[n] = addr
      /\ \A m \in c.nodes \ {n} : r.nodeAddresses[m] = c.nodeAddresses[m]
  <2>1. CASE n \in c.nodes
    <3>1. /\ DOMAIN r = Fields /\ r.nodes = c.nodes
          /\ r.nodeAddresses = [c.nodeAddresses EXCEPT ![n] = addr]
      BY <1>1, <1>2, <2>1 DEF Members, Fields
    <3> QED
      BY <1>1, <2>1, <3>1 DEF Members
  <2>2. CASE n \notin c.nodes
    <3>1. \E ring, vnodeToNode :
            r = [nodes         |-> c.nodes \cup {n},
                 nodeAddresses |-> Put(c.nodeAddresses, {n}, addr),
                 ring          |-> ring,
                 vnodeToNode   |-> vnodeToNode]
      BY <1>2, <2>2 DEF insertTokens
    <3>2. /\ DOMAIN r = Fields /\ r.nodes = c.nodes \cup {n}
          /\ r.nodeAddresses = Put(c.nodeAddresses, {n}, addr)
      BY <3>1 DEF Fields
    <3>3. /\ r.nodeAddresses = [x \in c.nodes \cup {n} |->
                                 IF x \in {n} THEN addr ELSE c.nodeAddresses[x]]
          /\ c.nodeAddresses \in [c.nodes -> Addrs]
      BY <1>1, <3>2 DEF Put, Members
    <3> QED
      BY <3>2, <3>3
  <2> QED
    BY <2>1, <2>2
<1>4. Members(r)
  BY <1>0, <1>1, <1>3 DEF Members
<1>5. r.nodes = (h.nodes \ {addr}) \cup {n}
  BY <1>1, <1>3
<1>6. \A m \in r.nodes \ {n} : r.nodeAddresses[m] = h.nodeAddresses[m]
  BY <1>1, <1>3
<1> QED
  BY <1>3, <1>4, <1>5, <1>6 DEF r

LEMMA MembersStep ==
  ASSUME Members(hashRing), [Next]_vars
  PROVE  Members(hashRing')
<1>1. ASSUME NEW n \in Nodes, NEW a \in Addrs, AddNamed(n, a)
      PROVE  Members(hashRing')
  <2>1. Members(addNode(hashRing, n, a))
    BY Added
  <2> QED
    BY <1>1, <2>1 DEF AddNamed
<1>2. ASSUME NEW a \in Addrs, AddPlaceholder(a)
      PROVE  Members(hashRing')
  <2>1. Members(addNode(hashRing, a, a))
    BY Added
  <2> QED
    BY <1>2, <2>1 DEF AddPlaceholder
<1>3. ASSUME NEW n \in Ids, RemoveNode(n)
      PROVE  Members(hashRing')
  <2>1. Members(internalRemoveNode(hashRing, n))
    BY Removed
  <2> QED
    BY <1>3, <2>1 DEF RemoveNode
<1>4. CASE UNCHANGED vars
  BY <1>4 DEF vars
<1> QED
  BY <1>1, <1>2, <1>3, <1>4 DEF Next

\* Adding a node under its id makes it share the address with no placeholder,
\* and changes nothing between the others.
LEMMA NoNewSharing ==
  ASSUME NEW h, Members(h), NEW n \in Nodes, NEW addr \in Addrs,
         NEW a \in Addrs, NEW m \in Ids \ {a},
         SameAddress(addNode(h, n, addr), a, m)
  PROVE  SameAddress(h, a, m)
<1> DEFINE r == addNode(h, n, addr)
<1>1. /\ Members(r) /\ r.nodes = (h.nodes \ {addr}) \cup {n}
      /\ r.nodeAddresses[n] = addr
      /\ \A x \in r.nodes \ {n} : r.nodeAddresses[x] = h.nodeAddresses[x]
  BY Added
<1>2. SameAddress(r, a, m)
  OBVIOUS
<1> HIDE DEF r
<1>3. {a, m} \subseteq r.nodes /\ r.nodeAddresses[a] = r.nodeAddresses[m]
  BY <1>2 DEF SameAddress
<1>4. n # a /\ addr \notin r.nodes
  BY <1>1, RingAssumption
<1>5. r.nodeAddresses[a] = a /\ a # addr
  BY <1>1, <1>3, <1>4 DEF Members
<1>6. m # n
  BY <1>1, <1>3, <1>5
<1> QED
  BY <1>1, <1>3, <1>4, <1>6 DEF SameAddress

(***************************************************************************)
(* A node that takes an address never stays beside the placeholder for it  *)
(* (AddNode, ring.go:81), for any ids, addresses, hashes and histories:    *)
(* only a bare address that a member has already, and a second id for an   *)
(* address, make two members share it.                                     *)
(***************************************************************************)
THEOREM PlaceholdersGiveWay == Spec => PlaceholderGivesWay
<1> DEFINE Fine == \A a \in Addrs : \A m \in Ids \ {a} :
                     SameAddress(hashRing', a, m) /\ ~SameAddress(hashRing, a, m)
                       => a \notin hashRing.nodes /\ m \in hashRing.nodes
<1>1. Init => Members(hashRing)
  BY DEF Init, New, Members, Fields
<1>2. Members(hashRing) /\ [Next]_vars => Members(hashRing)'
  BY MembersStep
<1>3. Members(hashRing) /\ [Next]_vars => [Fine]_vars
  <2> SUFFICES ASSUME Members(hashRing), [Next]_vars,
                      NEW a \in Addrs, NEW m \in Ids \ {a},
                      SameAddress(hashRing', a, m), ~SameAddress(hashRing, a, m)
               PROVE  a \notin hashRing.nodes /\ m \in hashRing.nodes
    OBVIOUS
  <2>1. ASSUME NEW n \in Nodes, NEW b \in Addrs, AddNamed(n, b)
        PROVE  FALSE
    BY <2>1, NoNewSharing DEF AddNamed
  <2>2. ASSUME NEW b \in Addrs, AddPlaceholder(b)
        PROVE  a \notin hashRing.nodes /\ m \in hashRing.nodes
    <3> DEFINE r == addNode(hashRing, b, b)
    <3>1. /\ r.nodes = (hashRing.nodes \ {b}) \cup {b}
          /\ r.nodeAddresses[b] = b /\ Members(r)
          /\ \A x \in r.nodes \ {b} :
               r.nodeAddresses[x] = hashRing.nodeAddresses[x]
      BY Added
    <3>2. hashRing' = r
      BY <2>2 DEF AddPlaceholder
    <3> HIDE DEF r
    <3>3. {a, m} \subseteq r.nodes /\ r.nodeAddresses[a] = r.nodeAddresses[m]
      BY <3>2 DEF SameAddress
    <3>4. r.nodeAddresses[a] = a
      BY <3>1, <3>3 DEF Members
    <3>5. m # b
      BY <3>1, <3>3, <3>4
    <3>6. m \in hashRing.nodes /\ hashRing.nodeAddresses[m] = a
      BY <3>1, <3>3, <3>4, <3>5
    <3>7. ASSUME a \in hashRing.nodes PROVE FALSE
      BY <3>6, <3>7 DEF SameAddress, Members
    <3> QED
      BY <3>6, <3>7
  <2>3. ASSUME NEW n \in Ids, RemoveNode(n)
        PROVE  FALSE
    <3> DEFINE r == internalRemoveNode(hashRing, n)
    <3>1. /\ r.nodes = hashRing.nodes \ {n}
          /\ \A x \in r.nodes : r.nodeAddresses[x] = hashRing.nodeAddresses[x]
      BY Removed
    <3>2. hashRing' = r
      BY <2>3 DEF RemoveNode
    <3> HIDE DEF r
    <3> QED
      BY <3>1, <3>2 DEF SameAddress
  <2>4. CASE UNCHANGED vars
    BY <2>4 DEF vars
  <2> QED
    BY <2>1, <2>2, <2>3, <2>4 DEF Next
<1> QED
  BY <1>1, <1>2, <1>3, PTL DEF Spec, PlaceholderGivesWay

-----------------------------------------------------------------------------
(* The ring and the map of its tokens. *)

Positions(h) == 1 .. Len(h.ring)

SortedRing(h) ==
  /\ h.ring \in Seq(Hashes)
  /\ \A i, j \in Positions(h) : i <= j => h.ring[i] <= h.ring[j]

\* A hash that the map has is on the ring, and is one of the member's it is
\* mapped to.
MapsToMembers(h) ==
  \A t \in DOMAIN h.vnodeToNode :
    /\ \E i \in Positions(h) : h.ring[i] = t
    /\ h.vnodeToNode[t] \in h.nodes
    /\ \E i \in 0 .. VNodes - 1 : hashFunc[<<h.vnodeToNode[t], i>>] = t

(***************************************************************************)
(* Every virtual node of a member has a position of its own.  With that, a *)
(* removal that drops one of several equal hashes leaves one for each      *)
(* virtual node that stays.                                                *)
(***************************************************************************)
MemberTokens(h) == h.nodes \X (0 .. VNodes - 1)

Places(h, pos) ==
  /\ \A v \in MemberTokens(h) : h.ring[pos[v]] = hashFunc[v]
  /\ \A u, v \in MemberTokens(h) : pos[u] = pos[v] => u = v

AllPlaced(h) == \E pos \in [MemberTokens(h) -> Positions(h)] : Places(h, pos)

\* A hash that is not shared is on the ring once, and the map has it.
SingledOut(h) ==
  \A i \in Positions(h) :
    Unshared(h.ring[i]) =>
      /\ h.ring[i] \in DOMAIN h.vnodeToNode
      /\ \A j \in Positions(h) : h.ring[j] = h.ring[i] => j = i

RingOK(h) ==
  /\ SortedRing(h)
  /\ MapsToMembers(h)
  /\ AllPlaced(h)
  /\ SingledOut(h)

\* The positions that internalRemoveNode drops.
Drops(h, n, i) ==
  /\ h.ring[i] \in DOMAIN h.vnodeToNode /\ h.vnodeToNode[h.ring[i]] = n
  /\ \A j \in 1 .. i - 1 : h.ring[j] # h.ring[i]

\* What removing a member does to ring and map.
LEMMA RemovedTokens ==
  ASSUME NEW h, Members(h), SortedRing(h), MapsToMembers(h), NEW n \in h.nodes
  PROVE  LET r == internalRemoveNode(h, n)
         IN  /\ Len(r.ring) \in Nat
             /\ \E at \in [Positions(r) -> Positions(h)] :
                  /\ r.ring = [q \in Positions(r) |-> h.ring[at[q]]]
                  /\ \A p, q \in Positions(r) : p < q => at[p] < at[q]
                  /\ \A q \in Positions(r) : ~Drops(h, n, at[q])
                  /\ \A i \in Positions(h) :
                       ~Drops(h, n, i) => \E q \in Positions(r) : at[q] = i
             /\ DOMAIN r.vnodeToNode
                  = {t \in DOMAIN h.vnodeToNode : h.vnodeToNode[t] # n}
             /\ \A t \in DOMAIN r.vnodeToNode :
                  r.vnodeToNode[t] = h.vnodeToNode[t]
<1> DEFINE r == internalRemoveNode(h, n)
           owns(i) == Lookup(h.vnodeToNode, h.ring[i], NoNode) = n
           drops(i) == owns(i) /\ \A j \in 1 .. i - 1 : h.ring[j] # h.ring[i]
           kept == {i \in 1 .. Len(h.ring) : ~drops(i)}
           gone == {h.ring[i] : i \in {j \in 1 .. Len(h.ring) : owns(j)}}
           N == 1 .. Cardinality(kept)
<1>1. r = [nodes         |-> h.nodes \ {n},
           nodeAddresses |-> Restrict(h.nodeAddresses,
                                      DOMAIN h.nodeAddresses \ {n}),
           ring          |-> AtPositions(h.ring, kept),
           vnodeToNode   |-> Restrict(h.vnodeToNode,
                                      DOMAIN h.vnodeToNode \ gone)]
  BY DEF internalRemoveNode
<1>2. /\ r.ring = AtPositions(h.ring, kept)
      /\ r.vnodeToNode = Restrict(h.vnodeToNode, DOMAIN h.vnodeToNode \ gone)
  BY <1>1
<1>3. n # NoNode
  BY RingAssumption DEF Members
<1>4. \A i \in Positions(h) :
        /\ owns(i) <=> h.ring[i] \in DOMAIN h.vnodeToNode
                         /\ h.vnodeToNode[h.ring[i]] = n
        /\ drops(i) <=> Drops(h, n, i)
  BY <1>3 DEF Lookup, Drops
<1>5. \A i \in Positions(h) : i \in kept <=> ~Drops(h, n, i)
  BY <1>4 DEF Positions
<1>6. \A t : t \in gone <=> \E i \in Positions(h) :
                              h.ring[i] = t /\ h.ring[i] \in DOMAIN h.vnodeToNode
                                /\ h.vnodeToNode[h.ring[i]] = n
  BY <1>4 DEF Positions
<1>7. kept \in SUBSET Positions(h) /\ Len(h.ring) \in Nat
  BY DEF SortedRing, Positions
<1> HIDE DEF r, kept, gone, owns, drops
<1>8. DOMAIN r.vnodeToNode = {t \in DOMAIN h.vnodeToNode : h.vnodeToNode[t] # n}
      /\ \A t \in DOMAIN r.vnodeToNode : r.vnodeToNode[t] = h.vnodeToNode[t]
  BY <1>2, <1>6 DEF Restrict, MapsToMembers
<1>9. Cardinality(kept) \in Nat /\ \E at : Selects(at, h.ring, kept, r.ring)
  BY <1>2, <1>7, AtPositionsKeeps DEF Positions
<1>a. PICK at : Selects(at, h.ring, kept, r.ring)
  BY <1>9
<1>10. /\ at \in [N -> kept] /\ r.ring = [q \in N |-> h.ring[at[q]]]
       /\ \A i \in kept : \E q \in N : at[q] = i
       /\ \A p, q \in N : p < q => at[p] < at[q]
  BY <1>a DEF Selects
<1>11. Len(r.ring) = Cardinality(kept) /\ Positions(r) = N
  <2>1. Cardinality(kept) \in Nat
    BY <1>9
  <2>2. Len(r.ring) = Cardinality(kept)
    BY <1>10, <2>1
  <2> QED
    BY <2>2 DEF Positions
<1>12. at \in [Positions(r) -> Positions(h)]
  BY <1>7, <1>10, <1>11
<1>13. \A q \in Positions(r) : ~Drops(h, n, at[q])
  BY <1>5, <1>7, <1>10, <1>11
<1>14. \A i \in Positions(h) : ~Drops(h, n, i) => \E q \in Positions(r) : at[q] = i
  BY <1>5, <1>10, <1>11
<1>15. /\ r.ring = [q \in Positions(r) |-> h.ring[at[q]]]
       /\ \A p, q \in Positions(r) : p < q => at[p] < at[q]
  BY <1>10, <1>11
<1>16. Len(r.ring) \in Nat
  BY <1>9, <1>11
<1> HIDE DEF N
<1> QED
  BY <1>8, <1>12, <1>13, <1>14, <1>15, <1>16 DEF r

\* Of equal hashes at most one is dropped.
LEMMA DropsOnce ==
  ASSUME NEW h, SortedRing(h), NEW n, NEW i \in Positions(h),
         NEW j \in Positions(h), Drops(h, n, i), Drops(h, n, j),
         h.ring[i] = h.ring[j]
  PROVE  i = j
BY DEF Drops, Positions, SortedRing

LEMMA RemovedRing ==
  ASSUME NEW h, Members(h), RingOK(h), NEW n \in h.nodes
  PROVE  RingOK(internalRemoveNode(h, n))
<1> DEFINE r == internalRemoveNode(h, n)
           len == Len(r.ring)
           R == Positions(r)
           H == Positions(h)
<1>1. /\ len \in Nat
      /\ \E at \in [R -> H] :
           /\ r.ring = [q \in R |-> h.ring[at[q]]]
           /\ \A p, q \in R : p < q => at[p] < at[q]
           /\ \A q \in R : ~Drops(h, n, at[q])
           /\ \A i \in H : ~Drops(h, n, i) => \E q \in R : at[q] = i
      /\ DOMAIN r.vnodeToNode
           = {t \in DOMAIN h.vnodeToNode : h.vnodeToNode[t] # n}
      /\ \A t \in DOMAIN r.vnodeToNode : r.vnodeToNode[t] = h.vnodeToNode[t]
  BY RemovedTokens DEF RingOK
<1>2. r.nodes = h.nodes \ {n}
  BY Removed
<1> HIDE DEF r
<1>3. PICK at \in [R -> H] :
        /\ r.ring = [q \in R |-> h.ring[at[q]]]
        /\ \A p, q \in R : p < q => at[p] < at[q]
        /\ \A q \in R : ~Drops(h, n, at[q])
        /\ \A i \in H : ~Drops(h, n, i) => \E q \in R : at[q] = i
  BY <1>1
<1>4. /\ len \in Nat /\ R = 1 .. len /\ H \subseteq Int /\ R \subseteq Int
      /\ \A i \in H : h.ring[i] \in Hashes
      /\ \A i, j \in H : i <= j => h.ring[i] <= h.ring[j]
  BY <1>1 DEF Positions, RingOK, SortedRing
<1>5. \A q \in R : at[q] \in H /\ r.ring[q] = h.ring[at[q]]
  BY <1>3
<1>6. \A p, q \in R : at[p] = at[q] => p = q
  <2> SUFFICES ASSUME NEW p \in R, NEW q \in R, at[p] = at[q], p # q
               PROVE  FALSE
    OBVIOUS
  <2>1. at[p] \in Int /\ at[q] \in Int /\ p \in Int /\ q \in Int
    BY <1>4, <1>5
  <2>2. p < q \/ q < p
    BY <2>1
  <2> QED
    BY <1>3, <2>1, <2>2
<1>7. SortedRing(r)
  <2>1. r.ring \in Seq(Hashes)
    <3>1. \A q \in R : h.ring[at[q]] \in Hashes
      BY <1>4, <1>5
    <3>2. r.ring = [q \in 1 .. len |-> h.ring[at[q]]]
      BY <1>3, <1>4
    <3> HIDE DEF len, R, H
    <3> QED
      BY <1>4, <3>1, <3>2
  <2>2. ASSUME NEW p \in R, NEW q \in R, p <= q PROVE r.ring[p] <= r.ring[q]
    <3>1. p \in Int /\ q \in Int /\ at[p] \in Int /\ at[q] \in Int
      BY <1>4, <1>5
    <3>2. at[p] <= at[q]
      BY <1>3, <2>2, <3>1
    <3> QED
      BY <1>4, <1>5, <3>2
  <2> QED
    BY <2>1, <2>2 DEF SortedRing
<1>8. MapsToMembers(r)
  <2> SUFFICES ASSUME NEW t \in DOMAIN r.vnodeToNode
               PROVE  /\ \E q \in R : r.ring[q] = t
                      /\ r.vnodeToNode[t] \in r.nodes
                      /\ \E i \in 0 .. VNodes - 1 :
                           hashFunc[<<r.vnodeToNode[t], i>>] = t
    BY DEF MapsToMembers
  <2>1. /\ t \in DOMAIN h.vnodeToNode /\ h.vnodeToNode[t] # n
        /\ r.vnodeToNode[t] = h.vnodeToNode[t]
    BY <1>1
  <2>2. /\ \E i \in H : h.ring[i] = t
        /\ h.vnodeToNode[t] \in h.nodes
        /\ \E i \in 0 .. VNodes - 1 : hashFunc[<<h.vnodeToNode[t], i>>] = t
    BY <2>1 DEF RingOK, MapsToMembers
  <2>3. PICK i \in H : h.ring[i] = t
    BY <2>2
  <2>4. ~Drops(h, n, i)
    BY <2>1, <2>3 DEF Drops
  <2>5. \E q \in R : r.ring[q] = t
    BY <1>3, <1>5, <2>3, <2>4
  <2> QED
    BY <1>2, <2>1, <2>2, <2>5
<1>9. AllPlaced(r)
  <2>1. PICK pos \in [MemberTokens(h) -> H] : Places(h, pos)
    BY DEF RingOK, AllPlaced
  <2>2. /\ \A v \in MemberTokens(h) : pos[v] \in H /\ h.ring[pos[v]] = hashFunc[v]
        /\ \A u, v \in MemberTokens(h) : pos[u] = pos[v] => u = v
    BY <2>1 DEF Places
  <2>3. /\ MemberTokens(r) \subseteq MemberTokens(h)
        /\ \A v \in MemberTokens(r) : v[1] # n
        /\ \A i \in 0 .. VNodes - 1 : <<n, i>> \in MemberTokens(h)
    BY <1>2 DEF MemberTokens
  \* A virtual node whose position is dropped gets the one of a virtual node
  \* of the removed node that has the same hash.
  <2>4. ASSUME NEW v \in MemberTokens(r), Drops(h, n, pos[v])
        PROVE  \E i \in 0 .. VNodes - 1 :
                 hashFunc[<<n, i>>] = hashFunc[v] /\ ~Drops(h, n, pos[<<n, i>>])
    <3>1. v \in MemberTokens(h) /\ h.ring[pos[v]] = hashFunc[v] /\ pos[v] \in H
      BY <2>2, <2>3
    <3>2. hashFunc[v] \in DOMAIN h.vnodeToNode /\ h.vnodeToNode[hashFunc[v]] = n
      BY <2>4, <3>1 DEF Drops
    <3>3. PICK i \in 0 .. VNodes - 1 : hashFunc[<<n, i>>] = hashFunc[v]
      BY <3>2 DEF RingOK, MapsToMembers
    <3>4. /\ <<n, i>> \in MemberTokens(h) /\ <<n, i>> # v
          /\ pos[<<n, i>>] \in H /\ h.ring[pos[<<n, i>>]] = hashFunc[v]
      BY <2>2, <2>3, <3>3
    <3>5. pos[<<n, i>>] # pos[v]
      BY <2>2, <3>1, <3>4
    <3>6. ~Drops(h, n, pos[<<n, i>>])
      BY <2>4, <3>1, <3>4, <3>5, DropsOnce DEF RingOK
    <3> QED
      BY <3>3, <3>6
  <2> DEFINE twin(v) == CHOOSE i \in 0 .. VNodes - 1 :
                          hashFunc[<<n, i>>] = hashFunc[v]
                            /\ ~Drops(h, n, pos[<<n, i>>])
             from(v) == IF Drops(h, n, pos[v]) THEN <<n, twin(v)>> ELSE v
             new(v) == CHOOSE q \in R : at[q] = pos[from(v)]
             place == [v \in MemberTokens(r) |-> new(v)]
  <2>5. \A v \in MemberTokens(r) :
          /\ from(v) \in MemberTokens(h) /\ hashFunc[from(v)] = hashFunc[v]
          /\ ~Drops(h, n, pos[from(v)])
    <3> SUFFICES ASSUME NEW v \in MemberTokens(r)
                 PROVE  /\ from(v) \in MemberTokens(h)
                        /\ hashFunc[from(v)] = hashFunc[v]
                        /\ ~Drops(h, n, pos[from(v)])
      OBVIOUS
    <3>1. CASE Drops(h, n, pos[v])
      <4>1. /\ twin(v) \in 0 .. VNodes - 1 /\ hashFunc[<<n, twin(v)>>] = hashFunc[v]
            /\ ~Drops(h, n, pos[<<n, twin(v)>>])
        BY <2>4, <3>1
      <4> QED
        BY <2>3, <3>1, <4>1
    <3>2. CASE ~Drops(h, n, pos[v])
      BY <2>3, <3>2
    <3> QED
      BY <3>1, <3>2
  <2>6. \A u, v \in MemberTokens(r) : from(u) = from(v) => u = v
    <3> SUFFICES ASSUME NEW u \in MemberTokens(r), NEW v \in MemberTokens(r),
                        from(u) = from(v)
                 PROVE  u = v
      OBVIOUS
    <3>1. hashFunc[u] = hashFunc[v]
      BY <2>5
    <3>2. CASE Drops(h, n, pos[u]) /\ Drops(h, n, pos[v])
      <4>1. /\ u \in MemberTokens(h) /\ v \in MemberTokens(h)
            /\ pos[u] \in H /\ pos[v] \in H /\ h.ring[pos[u]] = h.ring[pos[v]]
        BY <2>2, <2>3, <3>1
      <4>2. pos[u] = pos[v]
        BY <3>2, <4>1, DropsOnce DEF RingOK
      <4> QED
        BY <2>2, <4>1, <4>2
    <3>3. CASE Drops(h, n, pos[u]) /\ ~Drops(h, n, pos[v])
      BY <2>3, <3>3
    <3>4. CASE ~Drops(h, n, pos[u]) /\ Drops(h, n, pos[v])
      BY <2>3, <3>4
    <3>5. CASE ~Drops(h, n, pos[u]) /\ ~Drops(h, n, pos[v])
      BY <3>5
    <3> QED
      BY <3>2, <3>3, <3>4, <3>5
  <2> HIDE DEF from
  <2>7. \A v \in MemberTokens(r) : new(v) \in R /\ at[new(v)] = pos[from(v)]
    <3>1. \A v \in MemberTokens(r) : \E q \in R : at[q] = pos[from(v)]
      BY <1>3, <2>2, <2>5
    <3> QED
      BY <3>1
  <2> HIDE DEF new
  <2>8. place \in [MemberTokens(r) -> R]
        /\ \A v \in MemberTokens(r) : place[v] = new(v)
    BY <2>7
  <2>9. \A v \in MemberTokens(r) : r.ring[place[v]] = hashFunc[v]
    BY <1>5, <2>2, <2>5, <2>7, <2>8
  <2>10. \A u, v \in MemberTokens(r) : place[u] = place[v] => u = v
    BY <2>2, <2>5, <2>6, <2>7, <2>8
  <2> HIDE DEF place
  <2> QED
    BY <2>8, <2>9, <2>10 DEF AllPlaced, Places
<1>10. SingledOut(r)
  <2> SUFFICES ASSUME NEW q \in R, Unshared(r.ring[q])
               PROVE  /\ r.ring[q] \in DOMAIN r.vnodeToNode
                      /\ \A p \in R : r.ring[p] = r.ring[q] => p = q
    BY DEF SingledOut
  <2>1. /\ at[q] \in H /\ Unshared(h.ring[at[q]]) /\ r.ring[q] = h.ring[at[q]]
        /\ ~Drops(h, n, at[q])
    BY <1>3, <1>5
  <2>2. /\ h.ring[at[q]] \in DOMAIN h.vnodeToNode
        /\ \A j \in H : h.ring[j] = h.ring[at[q]] => j = at[q]
    BY <2>1 DEF RingOK, SingledOut
  <2>3. \A p \in R : r.ring[p] = r.ring[q] => p = q
    BY <1>5, <1>6, <2>1, <2>2
  <2>4. \A j \in 1 .. at[q] - 1 : h.ring[j] # h.ring[at[q]]
    <3>1. at[q] \in 1 .. Len(h.ring) /\ Len(h.ring) \in Nat
      BY <2>1 DEF Positions, RingOK, SortedRing
    <3>2. \A j \in 1 .. at[q] - 1 : j \in H /\ j # at[q]
      BY <3>1 DEF Positions
    <3> QED
      BY <2>2, <3>2
  <2>5. h.vnodeToNode[h.ring[at[q]]] # n
    BY <2>1, <2>2, <2>4 DEF Drops
  <2> QED
    BY <1>1, <2>1, <2>2, <2>3, <2>5
<1> QED
  BY <1>7, <1>8, <1>9, <1>10 DEF RingOK, r

HashTable == hashFunc \in [Tokens -> Hashes]

\* What inserting a node does to ring and map: each position of the new ring
\* comes from one of the old ring or from a virtual node of the new one.
LEMMA InsertedTokens ==
  ASSUME NEW h, SortedRing(h), HashTable, NEW n \in Ids, NEW addr
  PROVE  LET r == insertTokens(h, n, addr)
             len == Len(h.ring)
             own == 0 .. VNodes - 1
         IN  /\ SortedRing(r)
             /\ \E src \in [Positions(r) -> 1 .. len + VNodes] :
                  /\ \A q \in Positions(r) :
                       r.ring[q] = IF src[q] <= len THEN h.ring[src[q]]
                                   ELSE hashFunc[<<n, src[q] - len - 1>>]
                  /\ \A p, q \in Positions(r) : src[p] = src[q] => p = q
                  /\ \A i \in 1 .. len + VNodes : \E q \in Positions(r) : src[q] = i
             /\ r.nodes = h.nodes \cup {n}
             /\ DOMAIN r.vnodeToNode
                  = DOMAIN h.vnodeToNode \cup {hashFunc[<<n, i>>] : i \in own}
             /\ \A t \in DOMAIN r.vnodeToNode :
                  r.vnodeToNode[t] = IF \E i \in own : hashFunc[<<n, i>>] = t
                                     THEN n ELSE h.vnodeToNode[t]
<1> DEFINE r == insertTokens(h, n, addr)
           len == Len(h.ring)
           own == 0 .. VNodes - 1
           hashes == VNodeHashes(n)
           C == h.ring \o hashes
           S == Sort(C)
<1>0. /\ VNodes \in Nat \ {0} /\ len \in Nat /\ MaxHash \in Nat
      /\ Hashes \subseteq Int /\ h.ring \in Seq(Hashes)
  BY RingAssumption DEF SortedRing, Hashes
<1>1. \A i \in own : hashFunc[<<n, i>>] \in Hashes
  BY DEF HashTable, Tokens
<1>2. /\ hashes \in Seq(Hashes) /\ Len(hashes) = VNodes
      /\ \A i \in 1 .. VNodes : hashes[i] = hashFunc[<<n, i - 1>>]
  <2>1. \A i \in 1 .. VNodes : hashFunc[<<n, i - 1>>] \in Hashes
    BY <1>0, <1>1
  <2> QED
    BY <1>0, <2>1 DEF VNodeHashes
<1>3. /\ r.nodes = h.nodes \cup {n} /\ r.ring = S
      /\ r.vnodeToNode = Put(h.vnodeToNode, ToSet(hashes), n)
  BY DEF insertTokens
<1>4. ToSet(hashes) = {hashFunc[<<n, i>>] : i \in own}
  <2>1. DOMAIN hashes = 1 .. VNodes
    BY <1>0, <1>2
  <2>2. \A i \in 1 .. VNodes : i - 1 \in own
    BY <1>0
  <2>3. \A i \in own : i + 1 \in 1 .. VNodes /\ (i + 1) - 1 = i
    BY <1>0
  <2>4. \A i \in own : hashes[i + 1] = hashFunc[<<n, i>>]
    BY <1>2, <2>3
  <2> HIDE DEF hashes, own
  <2>5. ToSet(hashes) \subseteq {hashFunc[<<n, i>>] : i \in own}
    BY <1>2, <2>1, <2>2 DEF ToSet
  <2>6. {hashFunc[<<n, i>>] : i \in own} \subseteq ToSet(hashes)
    BY <2>1, <2>3, <2>4 DEF ToSet
  <2> QED
    BY <2>5, <2>6
<1> HIDE DEF hashes, r
<1>5. /\ C \in Seq(Hashes) /\ Len(C) = len + VNodes
      /\ \A i \in 1 .. len + VNodes :
           C[i] = IF i <= len THEN h.ring[i] ELSE hashes[i - len]
  BY <1>0, <1>2
<1>6. \A i \in 1 .. len + VNodes :
        C[i] = IF i <= len THEN h.ring[i] ELSE hashFunc[<<n, i - len - 1>>]
  <2> SUFFICES ASSUME NEW i \in 1 .. len + VNodes
               PROVE  C[i] = IF i <= len THEN h.ring[i]
                             ELSE hashFunc[<<n, i - len - 1>>]
    OBVIOUS
  <2>1. CASE i <= len
    BY <1>5, <2>1
  <2>2. CASE ~(i <= len)
    <3>1. i - len \in 1 .. VNodes
      BY <1>0, <2>2
    <3>2. C[i] = hashes[i - len]
      BY <1>5, <2>2
    <3> QED
      BY <1>2, <2>2, <3>1, <3>2
  <2> QED
    BY <2>1, <2>2
<1> HIDE DEF C
<1>7. C \in Seq(Int) /\ \A i \in 1 .. Len(C) : C[i] \in Hashes
  <2>1. /\ C = [i \in 1 .. Len(C) |-> C[i]] /\ Len(C) \in Nat
        /\ \A i \in 1 .. Len(C) : C[i] \in Hashes
    BY <1>5
  <2>2. \A i \in 1 .. Len(C) : C[i] \in Int
    BY <1>0, <2>1
  <2> QED
    BY <2>1, <2>2
<1>8. /\ S \in Seq(Int) /\ Len(S) = Len(C)
      /\ \A i, j \in 1 .. Len(C) : i <= j => S[i] <= S[j]
      /\ \E p : Permutes(p, C, S)
  BY <1>7, SortSorts
<1> HIDE DEF S, len
<1>9. PICK src : Permutes(src, C, S)
  BY <1>8
<1>10. /\ src \in [1 .. len + VNodes -> 1 .. len + VNodes]
       /\ \A q \in 1 .. len + VNodes : S[q] = C[src[q]]
       /\ \A p, q \in 1 .. len + VNodes : src[p] = src[q] => p = q
       /\ \A i \in 1 .. len + VNodes : \E q \in 1 .. len + VNodes : src[q] = i
  BY <1>5, <1>9 DEF Permutes
<1>11. Positions(r) = 1 .. len + VNodes
  BY <1>3, <1>5, <1>8 DEF Positions
<1>12. SortedRing(r)
  <2>1. ASSUME NEW q \in 1 .. Len(S) PROVE S[q] \in Hashes
    <3>1. q \in 1 .. len + VNodes
      BY <1>5, <1>8
    <3>2. src[q] \in 1 .. len + VNodes /\ S[q] = C[src[q]]
      BY <1>10, <3>1
    <3>3. src[q] \in 1 .. Len(C)
      BY <1>5, <3>2
    <3> QED
      BY <1>7, <3>2, <3>3
  <2>2. S = [q \in 1 .. Len(S) |-> S[q]] /\ Len(S) \in Nat
    BY <1>8
  <2>3. S \in Seq(Hashes)
    BY <2>1, <2>2
  <2> QED
    BY <1>3, <1>5, <1>8, <1>11, <2>3 DEF SortedRing
<1>13. \A q \in Positions(r) :
         r.ring[q] = IF src[q] <= len THEN h.ring[src[q]]
                     ELSE hashFunc[<<n, src[q] - len - 1>>]
  BY <1>3, <1>6, <1>10, <1>11
<1>14. /\ DOMAIN r.vnodeToNode
            = DOMAIN h.vnodeToNode \cup {hashFunc[<<n, i>>] : i \in own}
       /\ \A t \in DOMAIN r.vnodeToNode :
            r.vnodeToNode[t] = IF \E i \in own : hashFunc[<<n, i>>] = t
                               THEN n ELSE h.vnodeToNode[t]
  BY <1>3, <1>4 DEF Put
<1>15. src \in [Positions(r) -> 1 .. len + VNodes]
  BY <1>10, <1>11
<1>16. /\ \A p, q \in Positions(r) : src[p] = src[q] => p = q
       /\ \A i \in 1 .. len + VNodes : \E q \in Positions(r) : src[q] = i
  BY <1>10, <1>11
<1>17. r.nodes = h.nodes \cup {n}
  BY <1>3
<1> HIDE DEF own
<1> QED
  BY <1>12, <1>13, <1>14, <1>15, <1>16, <1>17 DEF r, len, own

LEMMA InsertedRing ==
  ASSUME NEW h, Members(h), RingOK(h), HashTable, NEW n \in Ids \ h.nodes,
         NEW addr
  PROVE  RingOK(insertTokens(h, n, addr))
<1> DEFINE r == insertTokens(h, n, addr)
           len == Len(h.ring)
           own == 0 .. VNodes - 1
           R == Positions(r)
           C == 1 .. len + VNodes
<1>0. /\ VNodes \in Nat \ {0} /\ len \in Nat /\ Positions(h) = 1 .. len
  BY RingAssumption DEF RingOK, SortedRing, Positions
<1>1. /\ SortedRing(r)
      /\ \E src \in [R -> C] :
           /\ \A q \in R :
                r.ring[q] = IF src[q] <= len THEN h.ring[src[q]]
                            ELSE hashFunc[<<n, src[q] - len - 1>>]
           /\ \A p, q \in R : src[p] = src[q] => p = q
           /\ \A i \in C : \E q \in R : src[q] = i
      /\ r.nodes = h.nodes \cup {n}
      /\ DOMAIN r.vnodeToNode
           = DOMAIN h.vnodeToNode \cup {hashFunc[<<n, i>>] : i \in own}
      /\ \A t \in DOMAIN r.vnodeToNode :
           r.vnodeToNode[t] = IF \E i \in own : hashFunc[<<n, i>>] = t
                              THEN n ELSE h.vnodeToNode[t]
  BY InsertedTokens DEF RingOK
<1> HIDE DEF r
<1>2. PICK src \in [R -> C] :
        /\ \A q \in R :
             r.ring[q] = IF src[q] <= len THEN h.ring[src[q]]
                         ELSE hashFunc[<<n, src[q] - len - 1>>]
        /\ \A p, q \in R : src[p] = src[q] => p = q
        /\ \A i \in C : \E q \in R : src[q] = i
  BY <1>1
<1> HIDE DEF len
<1>m. \A t : t \in DOMAIN r.vnodeToNode
              <=> t \in DOMAIN h.vnodeToNode \/ \E i \in own : hashFunc[<<n, i>>] = t
  BY <1>1
\* Positions of the old ring, and those of the new node's virtual nodes.
<1>3. ASSUME NEW i \in Positions(h)
      PROVE  \E q \in R : src[q] = i /\ r.ring[q] = h.ring[i]
  <2>1. i \in C /\ i <= len
    BY <1>0
  <2>2. PICK q \in R : src[q] = i
    BY <1>2, <2>1
  <2> QED
    BY <1>2, <2>1, <2>2
<1>4. \A i \in own : \E q \in R : src[q] = len + 1 + i
                                    /\ r.ring[q] = hashFunc[<<n, i>>]
  <2> SUFFICES ASSUME NEW i \in own
               PROVE  \E q \in R : src[q] = len + 1 + i
                                     /\ r.ring[q] = hashFunc[<<n, i>>]
    OBVIOUS
  <2>1. /\ len + 1 + i \in C /\ ~(len + 1 + i <= len)
        /\ (len + 1 + i) - len - 1 = i
    BY <1>0
  <2>2. PICK q \in R : src[q] = len + 1 + i
    BY <1>2, <2>1
  <2>3. r.ring[q] = hashFunc[<<n, i>>]
    BY <1>2, <2>1, <2>2
  <2> QED
    BY <2>2, <2>3
<1>5. \A q \in R : \/ src[q] \in Positions(h) /\ r.ring[q] = h.ring[src[q]]
                   \/ \E i \in own : src[q] = len + 1 + i
                                       /\ r.ring[q] = hashFunc[<<n, i>>]
  <2> SUFFICES ASSUME NEW q \in R
               PROVE  \/ src[q] \in Positions(h) /\ r.ring[q] = h.ring[src[q]]
                      \/ \E i \in own : src[q] = len + 1 + i
                                          /\ r.ring[q] = hashFunc[<<n, i>>]
    OBVIOUS
  <2>1. src[q] \in C
    BY <1>2
  <2>2. CASE src[q] <= len
    BY <1>0, <1>2, <2>1, <2>2
  <2>3. CASE ~(src[q] <= len)
    <3>1. src[q] - len - 1 \in own /\ src[q] = len + 1 + (src[q] - len - 1)
      BY <1>0, <2>1, <2>3
    <3>2. r.ring[q] = hashFunc[<<n, src[q] - len - 1>>]
      BY <1>2, <2>3
    <3> QED
      BY <3>1, <3>2
  <2> QED
    BY <2>2, <2>3
<1>6. MapsToMembers(r)
  <2> SUFFICES ASSUME NEW t \in DOMAIN r.vnodeToNode
               PROVE  /\ \E q \in R : r.ring[q] = t
                      /\ r.vnodeToNode[t] \in r.nodes
                      /\ \E i \in own : hashFunc[<<r.vnodeToNode[t], i>>] = t
    BY DEF MapsToMembers
  <2>1. CASE \E i \in own : hashFunc[<<n, i>>] = t
    <3>1. r.vnodeToNode[t] = n
      BY <1>1, <2>1
    <3>2. \E q \in R : r.ring[q] = t
      BY <1>4, <2>1
    <3> QED
      BY <1>1, <2>1, <3>1, <3>2
  <2>2. CASE ~\E i \in own : hashFunc[<<n, i>>] = t
    <3>1. t \in DOMAIN h.vnodeToNode /\ r.vnodeToNode[t] = h.vnodeToNode[t]
      BY <1>1, <1>m, <2>2
    <3>2. /\ \E i \in Positions(h) : h.ring[i] = t
          /\ h.vnodeToNode[t] \in h.nodes
          /\ \E i \in own : hashFunc[<<h.vnodeToNode[t], i>>] = t
      BY <3>1 DEF RingOK, MapsToMembers
    <3>3. \E q \in R : r.ring[q] = t
      BY <1>3, <3>2
    <3> QED
      BY <1>1, <3>1, <3>2, <3>3
  <2> QED
    BY <2>1, <2>2
<1>7. AllPlaced(r)
  <2>1. PICK pos \in [MemberTokens(h) -> Positions(h)] : Places(h, pos)
    BY DEF RingOK, AllPlaced
  <2>2. /\ \A v \in MemberTokens(h) :
             pos[v] \in Positions(h) /\ h.ring[pos[v]] = hashFunc[v]
        /\ \A u, v \in MemberTokens(h) : pos[u] = pos[v] => u = v
    BY <2>1 DEF Places
  <2>3. \A v \in MemberTokens(r) :
          \/ v \in MemberTokens(h)
          \/ v[2] \in own /\ v = <<n, v[2]>>
    BY <1>1 DEF MemberTokens
  <2>4. \A v \in MemberTokens(h) : v[1] # n
    BY DEF MemberTokens
  <2> DEFINE at(v) == IF v[1] = n THEN len + 1 + v[2] ELSE pos[v]
             new(v) == CHOOSE q \in R : src[q] = at(v) /\ r.ring[q] = hashFunc[v]
             place == [v \in MemberTokens(r) |-> new(v)]
  <2>5. \A v \in MemberTokens(r) :
          \E q \in R : src[q] = at(v) /\ r.ring[q] = hashFunc[v]
    <3> SUFFICES ASSUME NEW v \in MemberTokens(r)
                 PROVE  \E q \in R : src[q] = at(v) /\ r.ring[q] = hashFunc[v]
      OBVIOUS
    <3>1. CASE v \in MemberTokens(h)
      BY <1>3, <2>2, <2>4, <3>1
    <3>2. CASE v[2] \in own /\ v = <<n, v[2]>>
      <4>1. v[1] = n
        BY <3>2
      <4> QED
        BY <1>4, <3>2, <4>1
    <3> QED
      BY <2>3, <3>1, <3>2
  <2>6. \A u, v \in MemberTokens(r) : at(u) = at(v) => u = v
    <3> SUFFICES ASSUME NEW u \in MemberTokens(r), NEW v \in MemberTokens(r),
                        at(u) = at(v)
                 PROVE  u = v
      OBVIOUS
    <3>1. \A w \in MemberTokens(h) : at(w) = pos[w] /\ pos[w] \in 1 .. len
      BY <1>0, <2>2, <2>4
    <3>2. ASSUME NEW w, w[2] \in own, w = <<n, w[2]>>
          PROVE  w[2] \in Int /\ at(w) = len + 1 + w[2] /\ at(w) \notin 1 .. len
      <4>1. w[1] = n
        BY <3>2
      <4>2. w[2] \in 0 .. VNodes - 1 /\ at(w) = len + 1 + w[2]
        BY <3>2, <4>1
      <4> QED
        BY <1>0, <4>2
    <3>3. CASE u \in MemberTokens(h) /\ v \in MemberTokens(h)
      BY <2>2, <3>1, <3>3
    <3>4. CASE u \in MemberTokens(h) /\ v[2] \in own /\ v = <<n, v[2]>>
      BY <3>1, <3>2, <3>4
    <3>5. CASE v \in MemberTokens(h) /\ u[2] \in own /\ u = <<n, u[2]>>
      BY <3>1, <3>2, <3>5
    <3>6. CASE /\ u[2] \in own /\ u = <<n, u[2]>>
               /\ v[2] \in own /\ v = <<n, v[2]>>
      <4>1. /\ u[2] \in Int /\ v[2] \in Int
            /\ at(u) = len + 1 + u[2] /\ at(v) = len + 1 + v[2]
        BY <3>2, <3>6
      <4>2. len + 1 + u[2] = len + 1 + v[2]
        BY <4>1
      <4> HIDE DEF at
      <4>3. u[2] = v[2]
        BY <1>0, <4>1, <4>2
      <4> QED
        BY <3>6, <4>3
    <3> QED
      BY <2>3, <3>3, <3>4, <3>5, <3>6
  <2> HIDE DEF at
  <2>7. \A v \in MemberTokens(r) :
          new(v) \in R /\ src[new(v)] = at(v) /\ r.ring[new(v)] = hashFunc[v]
    BY <2>5
  <2> HIDE DEF new
  <2>8. /\ place \in [MemberTokens(r) -> R]
        /\ \A v \in MemberTokens(r) : r.ring[place[v]] = hashFunc[v]
    BY <2>7
  <2>9. \A u, v \in MemberTokens(r) : place[u] = place[v] => u = v
    BY <2>6, <2>7
  <2> HIDE DEF place
  <2> QED
    BY <2>8, <2>9 DEF AllPlaced, Places
<1>8. SingledOut(r)
  <2> SUFFICES ASSUME NEW q \in R, Unshared(r.ring[q])
               PROVE  /\ r.ring[q] \in DOMAIN r.vnodeToNode
                      /\ \A p \in R : r.ring[p] = r.ring[q] => p = q
    BY DEF SingledOut
  <2> DEFINE t == r.ring[q]
  <2>0. \A u, v \in Tokens : hashFunc[u] = t /\ hashFunc[v] = t => u = v
    BY DEF Unshared
  <2>a. \A i \in own : <<n, i>> \in Tokens
    BY DEF Tokens
  \* A hash that is not shared and that the new node has was not on the ring.
  <2>1. ASSUME NEW i \in Positions(h), NEW j \in own,
               h.ring[i] = t, hashFunc[<<n, j>>] = t
        PROVE  FALSE
    <3>1. h.ring[i] \in DOMAIN h.vnodeToNode
      BY <2>1 DEF RingOK, SingledOut
    <3>2. /\ h.vnodeToNode[t] \in h.nodes
          /\ \E m \in own : hashFunc[<<h.vnodeToNode[t], m>>] = t
      BY <2>1, <3>1 DEF RingOK, MapsToMembers
    <3>3. PICK m \in own : hashFunc[<<h.vnodeToNode[t], m>>] = t
      BY <3>2
    <3>4. <<h.vnodeToNode[t], m>> \in Tokens
      BY <3>2 DEF Tokens, Members
    <3>5. <<h.vnodeToNode[t], m>> = <<n, j>>
      BY <2>0, <2>1, <2>a, <3>3, <3>4
    <3> QED
      BY <3>2, <3>5
  <2>2. CASE src[q] \in Positions(h) /\ t = h.ring[src[q]]
    <3>1. /\ t \in DOMAIN h.vnodeToNode
          /\ \A j \in Positions(h) : h.ring[j] = t => j = src[q]
      BY <2>2 DEF RingOK, SingledOut
    <3>2. ASSUME NEW p \in R, r.ring[p] = t PROVE p = q
      <4>1. ~\E i \in own : src[p] = len + 1 + i /\ r.ring[p] = hashFunc[<<n, i>>]
        BY <2>1, <2>2, <3>2
      <4>2. src[p] \in Positions(h) /\ t = h.ring[src[p]]
        BY <1>5, <3>2, <4>1
      <4> QED
        BY <1>2, <3>1, <4>2
    <3> QED
      BY <1>1, <3>1, <3>2
  <2>3. ASSUME NEW i \in own, src[q] = len + 1 + i, t = hashFunc[<<n, i>>]
        PROVE  /\ t \in DOMAIN r.vnodeToNode
               /\ \A p \in R : r.ring[p] = t => p = q
    <3>1. t \in DOMAIN r.vnodeToNode
      BY <1>m, <2>3
    <3>2. ASSUME NEW p \in R, r.ring[p] = t PROVE p = q
      <4>1. ~(src[p] \in Positions(h) /\ r.ring[p] = h.ring[src[p]])
        BY <2>1, <2>3, <3>2
      <4>2. PICK j \in own : src[p] = len + 1 + j /\ r.ring[p] = hashFunc[<<n, j>>]
        BY <1>5, <4>1
      <4>3. <<n, i>> = <<n, j>>
        BY <2>0, <2>3, <2>a, <3>2, <4>2
      <4>4. src[p] = src[q]
        BY <2>3, <4>2, <4>3
      <4> QED
        BY <1>2, <4>4
    <3> QED
      BY <3>1, <3>2
  <2> QED
    BY <1>5, <2>2, <2>3
<1> QED
  BY <1>1, <1>6, <1>7, <1>8 DEF RingOK, r

LEMMA AddedRing ==
  ASSUME NEW h, Members(h), RingOK(h), HashTable, NEW addr \in Addrs,
         NEW n \in Nodes \cup {addr}
  PROVE  RingOK(addNode(h, n, addr))
<1> DEFINE c == IF n # addr THEN internalRemoveNode(h, addr) ELSE h
<1>1. Members(c) /\ n \in Ids
  BY Removed, RingAssumption DEF Ids
<1>2. RingOK(c)
  <2>1. CASE n # addr /\ addr \in h.nodes
    BY <2>1, RemovedRing
  <2>2. CASE ~(n # addr /\ addr \in h.nodes)
    <3>1. c = h
      BY <2>2 DEF internalRemoveNode
    <3> QED
      BY <3>1
  <2> QED
    BY <2>1, <2>2
<1>3. addNode(h, n, addr) = IF n \in c.nodes
                            THEN [c EXCEPT !.nodeAddresses[n] = addr]
                            ELSE insertTokens(c, n, addr)
  BY DEF addNode
<1> HIDE DEF c
<1>4. CASE n \in c.nodes
  <2> DEFINE r == addNode(h, n, addr)
  <2>1. r.nodes = c.nodes /\ r.ring = c.ring /\ r.vnodeToNode = c.vnodeToNode
    BY <1>1, <1>3, <1>4 DEF Members, Fields
  <2> HIDE DEF r
  <2>2. Positions(r) = Positions(c) /\ MemberTokens(r) = MemberTokens(c)
    BY <2>1 DEF Positions, MemberTokens
  <2>a. SortedRing(r)
    BY <1>2, <2>1, <2>2 DEF RingOK, SortedRing
  <2>b. MapsToMembers(r)
    BY <1>2, <2>1, <2>2 DEF RingOK, MapsToMembers
  <2>3. SingledOut(r)
    BY <1>2, <2>1, <2>2 DEF RingOK, SingledOut
  <2>4. \A pos : Places(r, pos) <=> Places(c, pos)
    BY <2>1, <2>2 DEF Places
  <2>5. AllPlaced(r)
    BY <1>2, <2>2, <2>4 DEF RingOK, AllPlaced
  <2> QED
    BY <2>3, <2>5, <2>a, <2>b DEF RingOK, r
<1>5. CASE n \notin c.nodes
  BY <1>1, <1>2, <1>3, <1>5, InsertedRing
<1> QED
  BY <1>4, <1>5

-----------------------------------------------------------------------------
(* The ring along behaviours. *)

RingInv ==
  /\ hashFunc \in HashFuncs
  /\ Members(hashRing)
  /\ RingOK(hashRing)

LEMMA TableOfInv == RingInv => HashTable
BY RingAssumption DEF RingInv, HashTable

\* The next ring is as it should be for the table of hashes, which stays.
LEMMA RingStep ==
  ASSUME RingInv, [Next]_vars
  PROVE  UNCHANGED hashFunc /\ Members(hashRing') /\ RingOK(hashRing')
<1>0. Members(hashRing) /\ RingOK(hashRing) /\ HashTable
  BY TableOfInv DEF RingInv
<1>1. Members(hashRing')
  BY MembersStep DEF RingInv
<1>2. ASSUME NEW n \in Nodes, NEW a \in Addrs, AddNamed(n, a)
      PROVE  UNCHANGED hashFunc /\ RingOK(hashRing')
  <2>1. UNCHANGED hashFunc /\ hashRing' = addNode(hashRing, n, a)
    BY <1>2 DEF AddNamed
  <2>2. RingOK(addNode(hashRing, n, a))
    BY <1>0, AddedRing
  <2> QED
    BY <2>1, <2>2
<1>3. ASSUME NEW a \in Addrs, AddPlaceholder(a)
      PROVE  UNCHANGED hashFunc /\ RingOK(hashRing')
  <2>1. UNCHANGED hashFunc /\ hashRing' = addNode(hashRing, a, a)
    BY <1>3 DEF AddPlaceholder
  <2>2. RingOK(addNode(hashRing, a, a))
    BY <1>0, AddedRing
  <2> QED
    BY <2>1, <2>2
<1>4. ASSUME NEW n \in Ids, RemoveNode(n)
      PROVE  UNCHANGED hashFunc /\ RingOK(hashRing')
  <2>1. /\ UNCHANGED hashFunc /\ hashRing' = internalRemoveNode(hashRing, n)
        /\ n \in hashRing.nodes
    BY <1>4 DEF RemoveNode
  <2>2. RingOK(internalRemoveNode(hashRing, n))
    BY <1>0, <2>1, RemovedRing
  <2> QED
    BY <2>1, <2>2
<1>5. CASE UNCHANGED vars
  BY <1>0, <1>5 DEF vars
<1> QED
  BY <1>1, <1>2, <1>3, <1>4, <1>5 DEF Next

LEMMA RingStays ==
  ASSUME NEW h, RingOK(h), hashRing' = h, UNCHANGED hashFunc
  PROVE  RingOK(hashRing)'
<1>1. \A t : Unshared(t)' <=> Unshared(t)
  BY DEF Unshared
<1>2. SortedRing(hashRing)'
  BY DEF RingOK, SortedRing
<1>3. MapsToMembers(hashRing)'
  BY DEF RingOK, MapsToMembers
<1>4. AllPlaced(hashRing)'
  BY DEF RingOK, AllPlaced, Places
<1>5. SingledOut(hashRing)'
  BY <1>1 DEF RingOK, SingledOut
<1> QED
  BY <1>2, <1>3, <1>4, <1>5 DEF RingOK

LEMMA RingInit == Init => RingInv
<1> SUFFICES ASSUME Init PROVE RingInv
  OBVIOUS
<1>1. /\ hashRing.nodes = {} /\ hashRing.ring = <<>>
      /\ DOMAIN hashRing.vnodeToNode = {} /\ hashFunc \in HashFuncs
  BY DEF Init, New
<1>2. Members(hashRing)
  BY DEF Init, New, Members, Fields
<1>3. Positions(hashRing) = {} /\ MemberTokens(hashRing) = {}
  BY <1>1 DEF Positions, MemberTokens
<1>4. SortedRing(hashRing)
  BY <1>1, <1>3 DEF SortedRing
<1>5. MapsToMembers(hashRing) /\ SingledOut(hashRing)
  BY <1>1, <1>3 DEF MapsToMembers, SingledOut
<1>6. AllPlaced(hashRing)
  <2> DEFINE pos == [v \in {} |-> 0]
  <2>1. pos \in [MemberTokens(hashRing) -> Positions(hashRing)]
    BY <1>3
  <2>2. Places(hashRing, pos)
    BY <1>3 DEF Places
  <2> QED
    BY <2>1, <2>2 DEF AllPlaced
<1> QED
  BY <1>1, <1>2, <1>4, <1>5, <1>6 DEF RingInv, RingOK

LEMMA RingHolds == Spec => []RingInv
<1>1. RingInv /\ [Next]_vars => RingInv'
  <2> SUFFICES ASSUME RingInv, [Next]_vars PROVE RingInv'
    OBVIOUS
  <2>1. UNCHANGED hashFunc /\ RingOK(hashRing')
    BY RingStep
  <2>2. RingOK(hashRing)'
    BY <2>1, RingStays
  <2>3. Members(hashRing)'
    BY MembersStep DEF RingInv
  <2> QED
    BY <2>1, <2>2, <2>3 DEF RingInv
<1> QED
  BY <1>1, RingInit, PTL DEF Spec

(***************************************************************************)
(* The four fields of the struct stay well formed, for any ids, addresses  *)
(* and hashes: addresses are kept for the members and no one else, and the *)
(* map of virtual nodes is finite and maps hashes to ids.                  *)
(***************************************************************************)
THEOREM RingTypeCorrect == Spec => []TypeOK
<1>1. RingInv => TypeOK
  <2> SUFFICES ASSUME RingInv PROVE TypeOK
    OBVIOUS
  <2>1. Members(hashRing) /\ RingOK(hashRing)
    BY DEF RingInv
  <2>2. \A i \in Positions(hashRing) : hashRing.ring[i] \in Hashes
    BY <2>1 DEF RingOK, SortedRing, Positions
  <2>3. \A t \in DOMAIN hashRing.vnodeToNode :
          t \in Hashes /\ hashRing.vnodeToNode[t] \in Ids
    BY <2>1, <2>2 DEF RingOK, MapsToMembers, Members
  <2>4. IsFiniteSet(DOMAIN hashRing.vnodeToNode)
    <3>1. DOMAIN hashRing.vnodeToNode \subseteq Hashes
      BY <2>3
    <3>2. IsFiniteSet(0 .. MaxHash)
      BY RingAssumption, FS_Interval
    <3> QED
      BY <3>1, <3>2, FS_Subset DEF Hashes
  <2> QED
    BY <2>1, <2>3, <2>4 DEF TypeOK, RingInv, Members, RingOK, SortedRing
<1> QED
  BY <1>1, RingHolds, PTL

-----------------------------------------------------------------------------
(* Lookups. *)

LEMMA MinIs ==
  ASSUME NEW S \in SUBSET Nat, S # {}
  PROVE  Min(S) \in S /\ \A x \in S : Min(S) <= x
<1> DEFINE L == OpToRel(<, Nat)
<1>1. IsWellFoundedOn(L, Nat)
  BY NatLessThanWellFounded
<1>2. PICK t \in S : \A u \in S : ~(<<u, t>> \in L)
  <2> HIDE DEF L
  <2> QED
    BY <1>1, WFMin
<1>3. \A u \in S : ~(u < t)
  BY <1>2 DEF OpToRel
<1>4. \A u \in S : t <= u
  BY <1>3
<1> QED
  BY <1>4 DEF Min

LEMMA GapIs ==
  ASSUME NEW k \in Hashes, NEW t \in Hashes
  PROVE  /\ Gap(k, t) \in Nat
         /\ Gap(k, t) = IF t >= k THEN t - k ELSE t - k + MaxHash + 1
<1> DEFINE m == MaxHash + 1
           x == t + MaxHash + 1 - k
<1>0. /\ MaxHash \in Nat /\ m \in Nat \ {0} /\ k \in Int /\ t \in Int
      /\ 0 <= k /\ k < m /\ 0 <= t /\ t < m
  BY RingAssumption DEF Hashes
<1>1. Gap(k, t) = x % m
  BY DEF Gap
<1>2. ASSUME NEW y \in Nat, NEW d \in Nat \ {0}, y < d PROVE y % d = y
  BY <1>2
<1>3. ASSUME NEW y \in Nat, NEW d \in Nat \ {0}, y < d PROVE (y + d) % d = y
  BY <1>3
<1>4. CASE t >= k
  <2>1. x = (t - k) + m /\ t - k \in Nat /\ t - k < m
    BY <1>0, <1>4
  <2> HIDE DEF x, m
  <2> QED
    BY <1>0, <1>1, <1>3, <1>4, <2>1
<1>5. CASE ~(t >= k)
  <2>1. x \in Nat /\ x < m /\ x = t - k + MaxHash + 1
    BY <1>0, <1>5
  <2> HIDE DEF x, m
  <2> QED
    BY <1>0, <1>1, <1>2, <1>5, <2>1
<1> QED
  BY <1>4, <1>5

\* No two hashes are equally far from a key.
LEMMA GapInjective ==
  ASSUME NEW k \in Hashes, NEW t \in Hashes, NEW u \in Hashes,
         Gap(k, t) = Gap(k, u)
  PROVE  t = u
<1>1. MaxHash \in Nat /\ k \in 0 .. MaxHash /\ t \in 0 .. MaxHash /\ u \in 0 .. MaxHash
  BY RingAssumption DEF Hashes
<1>2. /\ Gap(k, t) = IF t >= k THEN t - k ELSE t - k + MaxHash + 1
      /\ Gap(k, u) = IF u >= k THEN u - k ELSE u - k + MaxHash + 1
  BY GapIs
<1>3. (IF t >= k THEN t - k ELSE t - k + MaxHash + 1)
        = (IF u >= k THEN u - k ELSE u - k + MaxHash + 1)
  BY <1>2
<1> QED
  BY <1>1, <1>3

\* A node's distance is that of its nearest virtual node.
LEMMA DistanceIs ==
  ASSUME HashTable, NEW n \in Ids, NEW k \in Hashes
  PROVE  LET own == 0 .. VNodes - 1
         IN  /\ Distance(k, n) \in Nat
             /\ \E i \in own : Distance(k, n) = Gap(k, hashFunc[<<n, i>>])
             /\ \A i \in own : Distance(k, n) <= Gap(k, hashFunc[<<n, i>>])
<1> DEFINE own == 0 .. VNodes - 1
           S == {Gap(k, hashFunc[<<n, i>>]) : i \in own}
<1>1. \A i \in own : hashFunc[<<n, i>>] \in Hashes
  BY DEF HashTable, Tokens
<1>2. S \in SUBSET Nat
  BY <1>1, GapIs
<1>3. S # {}
  <2>1. 0 \in own
    BY RingAssumption
  <2> QED
    BY <2>1
<1>4. Min(S) \in S /\ \A x \in S : Min(S) <= x
  <2> HIDE DEF S
  <2> QED
    BY <1>2, <1>3, MinIs
<1>5. Distance(k, n) = Min(S)
  BY DEF Distance
<1>6. \E i \in own : Distance(k, n) = Gap(k, hashFunc[<<n, i>>])
  BY <1>4, <1>5
<1>7. \A i \in own : Distance(k, n) <= Gap(k, hashFunc[<<n, i>>])
  BY <1>4, <1>5
<1>8. Distance(k, n) \in Nat
  BY <1>2, <1>4, <1>5
<1> QED
  BY <1>6, <1>7, <1>8

\* The ring of a cluster with members is not empty.
LEMMA RingNotEmpty ==
  ASSUME NEW h, RingOK(h), h.nodes # {}
  PROVE  Len(h.ring) \in Nat \ {0}
<1>1. PICK n \in h.nodes : TRUE
  OBVIOUS
<1>2. <<n, 0>> \in MemberTokens(h)
  BY RingAssumption DEF MemberTokens
<1>3. PICK pos \in [MemberTokens(h) -> Positions(h)] : TRUE
  BY DEF RingOK, AllPlaced
<1>4. pos[<<n, 0>>] \in 1 .. Len(h.ring) /\ Len(h.ring) \in Nat
  BY <1>2, <1>3 DEF Positions, RingOK, SortedRing
<1> QED
  BY <1>4

\* Where the search ends: at the first hash at or after the key's, or at the
\* first of all if there is none.
LEMMA SearchIs ==
  ASSUME NEW h, SortedRing(h), Len(h.ring) # 0, NEW k \in Hashes
  PROVE  LET s == searchIndex(h, k)
         IN  /\ s \in Positions(h)
             /\ \/ /\ \A i \in Positions(h) : i >= s => h.ring[i] >= k
                   /\ \A i \in Positions(h) : i < s => h.ring[i] < k
                \/ s = 1 /\ \A i \in Positions(h) : h.ring[i] < k
<1> DEFINE s == searchIndex(h, k)
           A == {i \in 1 .. Len(h.ring) : h.ring[i] >= k}
<1>0. /\ Len(h.ring) \in Nat \ {0} /\ k \in Int
      /\ \A i \in Positions(h) : h.ring[i] \in Int
  BY RingAssumption DEF SortedRing, Hashes, Positions
<1>1. s = IF A = {} THEN 1 ELSE Min(A)
  BY DEF searchIndex
<1>2. CASE A = {}
  <2>1. \A i \in Positions(h) : ~(h.ring[i] >= k)
    BY <1>2 DEF Positions
  <2>2. \A i \in Positions(h) : h.ring[i] < k
    BY <1>0, <2>1
  <2>3. s = 1 /\ 1 \in Positions(h)
    BY <1>0, <1>1, <1>2 DEF Positions
  <2> QED
    BY <2>2, <2>3
<1>3. CASE A # {}
  <2>1. A \in SUBSET Nat
    BY <1>0
  <2>2. Min(A) \in A /\ \A x \in A : Min(A) <= x
    <3> HIDE DEF A
    <3> QED
      BY <1>3, <2>1, MinIs
  <2>3. /\ s \in Positions(h) /\ h.ring[s] >= k
        /\ \A i \in Positions(h) : h.ring[i] >= k => s <= i
    BY <1>1, <1>3, <2>2 DEF Positions
  <2> HIDE DEF s, A
  <2>4. s \in Int /\ h.ring[s] \in Int
    BY <1>0, <2>3 DEF Positions
  <2>5. ASSUME NEW i \in Positions(h), i >= s PROVE h.ring[i] >= k
    <3>1. h.ring[s] <= h.ring[i] /\ h.ring[i] \in Int
      BY <1>0, <2>3, <2>4, <2>5 DEF SortedRing, Positions
    <3> QED
      BY <1>0, <2>3, <2>4, <3>1
  <2>6. ASSUME NEW i \in Positions(h), i < s PROVE h.ring[i] < k
    <3>1. i \in Int /\ h.ring[i] \in Int
      BY <1>0 DEF Positions
    <3>2. ~(h.ring[i] >= k)
      BY <2>3, <2>4, <2>6, <3>1
    <3> QED
      BY <1>0, <3>1, <3>2
  <2> QED
    BY <2>3, <2>5, <2>6 DEF s
<1> QED
  BY <1>2, <1>3

\* The i-th position of the round from a key, as GetNodes walks it.
Round(h, k, i) == ((searchIndex(h, k) - 1 + i - 1) % Len(h.ring)) + 1

\* The round starts where the search ends, visits every position, and goes
\* away from the key.
LEMMA RoundIs ==
  ASSUME NEW h, SortedRing(h), Len(h.ring) # 0, NEW k \in Hashes
  PROVE  /\ Round(h, k, 1) = searchIndex(h, k)
         /\ \A i \in Positions(h) : Round(h, k, i) \in Positions(h)
         /\ \A q \in Positions(h) : \E i \in Positions(h) : Round(h, k, i) = q
         /\ \A i, j \in Positions(h) : i <= j =>
              Gap(k, h.ring[Round(h, k, i)]) <= Gap(k, h.ring[Round(h, k, j)])
<1> DEFINE s == searchIndex(h, k)
           len == Len(h.ring)
           P == Positions(h)
           w(i) == Round(h, k, i)
<1>0. /\ len \in Nat \ {0} /\ P = 1 .. len /\ MaxHash \in Nat
      /\ k \in Int /\ 0 <= k /\ k <= MaxHash
      /\ \A i \in P : h.ring[i] \in Int /\ 0 <= h.ring[i] /\ h.ring[i] <= MaxHash
      /\ \A i, j \in P : i <= j => h.ring[i] <= h.ring[j]
  BY RingAssumption DEF SortedRing, Hashes, Positions
<1>1. /\ s \in P
      /\ \/ /\ \A i \in P : i >= s => h.ring[i] >= k
            /\ \A i \in P : i < s => h.ring[i] < k
         \/ s = 1 /\ \A i \in P : h.ring[i] < k
  BY SearchIs
<1>2. \A i \in P : w(i) = ((s - 1 + i - 1) % len) + 1
  BY DEF Round
<1>a. 1 \in P /\ w(1) = ((s - 1 + 1 - 1) % len) + 1
  BY <1>0 DEF Round
<1> HIDE DEF s, len, P, w
<1>3. ASSUME NEW y \in Nat, NEW d \in Nat \ {0}, y < d PROVE y % d = y
  BY <1>3
<1>4. ASSUME NEW y \in Nat, NEW d \in Nat \ {0}, y < d PROVE (y + d) % d = y
  BY <1>4
<1>5. s \in Int /\ 1 <= s /\ s <= len
  BY <1>0, <1>1
<1>6. \A i \in P : i \in Int /\ 1 <= i /\ i <= len
  BY <1>0
<1>7. ASSUME NEW i \in P, s + i - 1 <= len PROVE w(i) = s + i - 1
  <2>1. s - 1 + i - 1 \in Nat /\ s - 1 + i - 1 < len
    BY <1>0, <1>5, <1>6, <1>7
  <2>2. (s - 1 + i - 1) % len = s - 1 + i - 1
    BY <1>0, <1>3, <2>1
  <2> QED
    BY <1>2, <1>5, <1>6, <2>2
<1>8. ASSUME NEW i \in P, s + i - 1 > len PROVE w(i) = s + i - 1 - len
  <2> DEFINE y == s + i - 2 - len
  <2>1. y \in Nat /\ y < len /\ s - 1 + i - 1 = y + len
    BY <1>0, <1>5, <1>6, <1>8
  <2>2. (y + len) % len = y
    BY <1>0, <1>4, <2>1
  <2>3. w(i) = y + 1
    BY <1>2, <2>1, <2>2
  <2> QED
    BY <1>0, <1>5, <1>6, <2>3
<1>9. w(1) = s
  BY <1>0, <1>5, <1>7, <1>a
<1>10. \A i \in P : w(i) \in P
  BY <1>0, <1>5, <1>6, <1>7, <1>8
<1>11. ASSUME NEW q \in P PROVE \E i \in P : w(i) = q
  <2>0. q \in Int /\ 1 <= q /\ q <= len
    BY <1>6
  <2>1. CASE q >= s
    <3>1. q - s + 1 \in P /\ s + (q - s + 1) - 1 = q
      BY <1>0, <1>5, <2>0, <2>1
    <3>2. w(q - s + 1) = q
      BY <1>7, <2>0, <3>1
    <3> QED
      BY <3>1, <3>2
  <2>2. CASE q < s
    <3>1. /\ q - s + 1 + len \in P
          /\ s + (q - s + 1 + len) - 1 = q + len /\ q + len > len
          /\ (q + len) - len = q
      BY <1>0, <1>5, <2>0, <2>2
    <3> DEFINE i == q - s + 1 + len
    <3>2. i \in P /\ s + i - 1 = q + len
      BY <3>1
    <3> HIDE DEF i
    <3>3. w(i) = s + i - 1 - len
      BY <1>8, <3>1, <3>2
    <3>a. i \in Int
      BY <1>6, <3>2
    <3>4. w(i) = q
      BY <1>0, <1>5, <2>0, <3>2, <3>3, <3>a
    <3> QED
      BY <3>2, <3>4
  <2> QED
    BY <1>5, <2>0, <2>1, <2>2
<1>12. \A i \in P : Gap(k, h.ring[i]) = IF h.ring[i] >= k THEN h.ring[i] - k
                                       ELSE h.ring[i] - k + MaxHash + 1
  <2>1. \A i \in P : h.ring[i] \in Hashes
    BY <1>0 DEF Hashes
  <2> QED
    BY <2>1, GapIs
<1>13. ASSUME NEW i \in P, NEW j \in P, i <= j
       PROVE  Gap(k, h.ring[w(i)]) <= Gap(k, h.ring[w(j)])
  <2> DEFINE a == h.ring[w(i)]
             b == h.ring[w(j)]
  <2>1. /\ w(i) \in P /\ w(j) \in P /\ a \in Int /\ b \in Int
        /\ 0 <= a /\ a <= MaxHash /\ 0 <= b /\ b <= MaxHash
    BY <1>0, <1>10
  <2>2. /\ Gap(k, a) = IF a >= k THEN a - k ELSE a - k + MaxHash + 1
        /\ Gap(k, b) = IF b >= k THEN b - k ELSE b - k + MaxHash + 1
    BY <1>12, <2>1
  <2>3. /\ i \in Int /\ 1 <= i /\ i <= len /\ j \in Int /\ 1 <= j /\ j <= len
        /\ w(i) \in Int /\ w(j) \in Int
    BY <1>6, <2>1
  <2>4. ASSUME s + j - 1 <= len PROVE a <= b /\ (a >= k <=> b >= k)
    <3>1. w(i) = s + i - 1 /\ w(j) = s + j - 1
      BY <1>0, <1>5, <1>7, <1>13, <2>3, <2>4
    <3>2. w(i) <= w(j) /\ s <= w(i) /\ s <= w(j)
      BY <1>5, <1>13, <2>3, <3>1
    <3>3. a <= b
      BY <1>0, <2>1, <3>2
    <3>4. a >= k <=> b >= k
      BY <1>0, <1>1, <1>5, <2>1, <2>3, <3>2
    <3> QED
      BY <3>3, <3>4
  <2>5. ASSUME s + i - 1 > len PROVE a <= b /\ a < k /\ b < k
    <3>1. s + j - 1 > len
      BY <1>0, <1>5, <1>13, <2>3, <2>5
    <3>2. w(i) = s + i - 1 - len /\ w(j) = s + j - 1 - len
      BY <1>8, <2>5, <3>1
    <3>3. w(i) <= w(j) /\ w(i) < s /\ w(j) < s
      BY <1>0, <1>5, <1>13, <2>3, <3>2
    <3>4. a <= b
      BY <1>0, <2>1, <3>3
    <3>5. a < k /\ b < k
      BY <1>0, <1>1, <1>5, <2>1, <2>3, <3>3
    <3> QED
      BY <3>4, <3>5
  <2>6. ASSUME s + i - 1 <= len, s + j - 1 > len PROVE a >= k /\ b < k
    <3>1. w(i) = s + i - 1 /\ w(j) = s + j - 1 - len
      BY <1>7, <1>8, <2>6
    <3>2. w(j) < s /\ s <= w(i)
      BY <1>0, <1>5, <2>3, <3>1
    <3>3. a >= k /\ b < k
      BY <1>0, <1>1, <1>5, <2>1, <2>3, <3>2
    <3> QED
      BY <3>3
  <2> DEFINE ga == Gap(k, a)
             gb == Gap(k, b)
  <2>7. /\ ga = IF a >= k THEN a - k ELSE a - k + MaxHash + 1
        /\ gb = IF b >= k THEN b - k ELSE b - k + MaxHash + 1
    BY <2>2
  <2>8. k \in Int /\ MaxHash \in Int /\ s \in Int /\ len \in Int
    BY <1>0, <1>5
  <2> HIDE DEF a, b, ga, gb, w
  <2>9. ~(a >= k) <=> a < k
    BY <2>1, <2>8
  <2>10. ~(b >= k) <=> b < k
    BY <2>1, <2>8
  <2>11. \/ s + j - 1 <= len \/ s + i - 1 > len
         \/ s + i - 1 <= len /\ s + j - 1 > len
    BY <2>3, <2>8
  <2>12. (a <= b /\ (a >= k <=> b >= k)) \/ (a >= k /\ b < k)
    BY <2>4, <2>5, <2>6, <2>9, <2>10, <2>11
  <2>13. ga <= gb
    BY <2>1, <2>7, <2>8, <2>12
  <2> QED
    BY <2>13 DEF a, b, ga, gb
<1> QED
  BY <1>9, <1>10, <1>11, <1>13 DEF s, P, w

\* The node at a position whose hash is not shared is the member that has it.
LEMMA NodeAtIs ==
  ASSUME NEW h, Members(h), RingOK(h), HashTable, NEW i \in Positions(h),
         Unshared(h.ring[i])
  PROVE  /\ NodeAt(h, i) \in h.nodes
         /\ \E j \in 0 .. VNodes - 1 : hashFunc[<<NodeAt(h, i), j>>] = h.ring[i]
         /\ \A v \in Tokens : hashFunc[v] = h.ring[i] => v[1] = NodeAt(h, i)
<1>1. h.ring[i] \in DOMAIN h.vnodeToNode
  BY DEF RingOK, SingledOut
<1>2. NodeAt(h, i) = h.vnodeToNode[h.ring[i]]
  BY <1>1 DEF NodeAt, Lookup
<1>3. /\ NodeAt(h, i) \in h.nodes
      /\ \E j \in 0 .. VNodes - 1 : hashFunc[<<NodeAt(h, i), j>>] = h.ring[i]
  BY <1>1, <1>2 DEF RingOK, MapsToMembers
<1>4. PICK j \in 0 .. VNodes - 1 : hashFunc[<<NodeAt(h, i), j>>] = h.ring[i]
  BY <1>3
<1>5. <<NodeAt(h, i), j>> \in Tokens
  BY <1>3 DEF Tokens, Members
<1>6. ASSUME NEW v \in Tokens, hashFunc[v] = h.ring[i] PROVE v[1] = NodeAt(h, i)
  <2>1. v = <<NodeAt(h, i), j>>
    BY <1>4, <1>5, <1>6 DEF Unshared
  <2> QED
    BY <2>1
<1> QED
  BY <1>3, <1>6

\* Every virtual node of a member is met on the round from a key.
LEMMA TokenMet ==
  ASSUME NEW h, RingOK(h), h.nodes # {}, NEW k \in Hashes,
         NEW v \in MemberTokens(h)
  PROVE  \E i \in Positions(h) : h.ring[Round(h, k, i)] = hashFunc[v]
<1>1. Len(h.ring) # 0 /\ SortedRing(h)
  BY RingNotEmpty DEF RingOK
<1>2. PICK q \in Positions(h) : h.ring[q] = hashFunc[v]
  BY DEF RingOK, AllPlaced, Places
<1>3. \E i \in Positions(h) : Round(h, k, i) = q
  BY <1>1, RoundIs
<1> QED
  BY <1>2, <1>3

\* The search that ends at a hash that is not shared ends at the nearest member.
LEMMA PrimaryIs ==
  ASSUME NEW h, Members(h), RingOK(h), HashTable, h.nodes # {},
         NEW k \in Hashes, Unshared(h.ring[searchIndex(h, k)])
  PROVE  LET p == NodeAt(h, searchIndex(h, k))
         IN  p \in h.nodes /\ \A n \in h.nodes \ {p} : Nearer(k, p, n)
<1> DEFINE s == searchIndex(h, k)
           p == NodeAt(h, s)
           own == 0 .. VNodes - 1
<1>0. SortedRing(h) /\ Len(h.ring) \in Nat \ {0} /\ 1 \in Positions(h)
  BY RingNotEmpty DEF RingOK, Positions
<1>1. /\ s \in Positions(h) /\ Round(h, k, 1) = s
      /\ \A i, j \in Positions(h) : i <= j =>
           Gap(k, h.ring[Round(h, k, i)]) <= Gap(k, h.ring[Round(h, k, j)])
  BY <1>0, RoundIs, SearchIs
<1> HIDE DEF s, p
<1>2. /\ p \in h.nodes
      /\ \E j \in own : hashFunc[<<p, j>>] = h.ring[s]
      /\ \A v \in Tokens : hashFunc[v] = h.ring[s] => v[1] = p
  BY <1>1, NodeAtIs DEF s, p
<1>3. ASSUME NEW n \in h.nodes \ {p} PROVE Nearer(k, p, n)
  <2>0. p \in Ids /\ n \in Ids /\ h.ring[s] \in Hashes
    BY <1>0, <1>1, <1>2 DEF Members, SortedRing, Positions
  <2>1. /\ Distance(k, p) \in Nat /\ Distance(k, n) \in Nat
        /\ Distance(k, p) <= Gap(k, h.ring[s])
    BY <1>2, <2>0, DistanceIs
  <2>2. PICK i \in own : Distance(k, n) = Gap(k, hashFunc[<<n, i>>])
    BY <2>0, DistanceIs
  <2>3. /\ <<n, i>> \in MemberTokens(h) /\ <<n, i>> \in Tokens
        /\ hashFunc[<<n, i>>] \in Hashes
    BY <2>0 DEF MemberTokens, Tokens, HashTable
  <2>4. PICK j \in Positions(h) : h.ring[Round(h, k, j)] = hashFunc[<<n, i>>]
    BY <2>3, TokenMet
  <2>5. 1 <= j
    BY DEF Positions
  <2>6. Gap(k, h.ring[s]) <= Gap(k, hashFunc[<<n, i>>])
    BY <1>0, <1>1, <2>4, <2>5
  <2>7. Gap(k, h.ring[s]) # Gap(k, hashFunc[<<n, i>>])
    <3>1. hashFunc[<<n, i>>] # h.ring[s]
      BY <1>2, <2>3
    <3> QED
      BY <2>0, <2>3, <3>1, GapInjective
  <2>8. Gap(k, h.ring[s]) \in Nat
    BY <2>0, GapIs
  <2> QED
    BY <2>1, <2>2, <2>6, <2>7, <2>8 DEF Nearer
<1> QED
  BY <1>2, <1>3 DEF p, s

\* GetNodes, asked for all owners, lists the nodes of the round where they
\* first occur.
Walk(h, k) == [i \in Positions(h) |-> NodeAt(h, Round(h, k, i))]
Firsts(h, k) ==
  {i \in Positions(h) : \A j \in 1 .. i - 1 : Walk(h, k)[j] # Walk(h, k)[i]}

LEMMA OwnersAre ==
  ASSUME NEW h, Len(h.ring) \in Nat \ {0}, NEW k
  PROVE  /\ Cardinality(Firsts(h, k)) \in Nat
         /\ \E at : Selects(at, Walk(h, k), Firsts(h, k), OwnersOf(h, k))
<1> DEFINE size   == Len(h.ring)
           idx    == searchIndex(h, k)
           walk   == [i \in 1 .. size |-> NodeAt(h, ((idx - 1 + i - 1) % size) + 1)]
           firsts == {i \in 1 .. size : \A j \in 1 .. i - 1 : walk[j] # walk[i]}
           unique == AtPositions(walk, firsts)
           c      == Cardinality(firsts)
           m      == Min({size, Len(unique)})
           all    == [i \in 1 .. m |-> Target(h, unique[i])]
<1>1. walk = Walk(h, k)
  BY DEF Walk, Round, Positions
<1>2. firsts = Firsts(h, k)
  BY <1>1 DEF Firsts, Positions
<1>3. GetNodes(h, k, size) = all
  BY DEF GetNodes
<1>4. OwnersOf(h, k) = [i \in 1 .. Len(all) |-> all[i].id]
  BY <1>3 DEF OwnersOf
<1>5. firsts \in SUBSET (1 .. size)
  OBVIOUS
<1> HIDE DEF walk, firsts, size
<1>6. size \in Nat \ {0}
  BY DEF size
<1>7. c \in Nat /\ \E at : Selects(at, walk, firsts, unique)
  BY <1>5, <1>6, AtPositionsKeeps
<1>8. PICK at : Selects(at, walk, firsts, unique)
  BY <1>7
<1>9. unique = [r \in 1 .. c |-> walk[at[r]]]
  BY <1>8 DEF Selects
<1>10. Len(unique) = c
  BY <1>7, <1>9
<1>11. c <= size
  <2>1. IsFiniteSet(1 .. size) /\ Cardinality(1 .. size) = size
    BY <1>6, Interval
  <2>2. Cardinality(firsts) <= Cardinality(1 .. size)
    BY <1>5, <2>1, FS_Subset
  <2> QED
    BY <2>1, <2>2
<1> HIDE DEF unique, c
<1>12. m = c
  <2> DEFINE S == {size, Len(unique)}
  <2>1. S \in SUBSET Nat /\ S # {} /\ c \in S /\ size \in S
    BY <1>6, <1>7, <1>10
  <2>2. \A x \in S : x \in {size, c}
    BY <1>10
  <2> HIDE DEF S
  <2>3. Min(S) \in S /\ \A x \in S : Min(S) <= x
    BY <2>1, MinIs
  <2>4. (Min(S) = size \/ Min(S) = c) /\ Min(S) <= c
    BY <2>1, <2>2, <2>3
  <2> DEFINE least == Min(S)
  <2>5. (least = size \/ least = c) /\ least <= c
    BY <2>4
  <2>6. size \in Int /\ c \in Int /\ c <= size
    BY <1>6, <1>7, <1>11 DEF c
  <2> HIDE DEF least
  <2>7. least = c
    BY <2>5, <2>6
  <2> QED
    BY <2>7 DEF S, least
<1> HIDE DEF m
<1>13. Len(all) = c /\ \A i \in 1 .. c : all[i].id = unique[i]
  BY <1>7, <1>12 DEF Target
<1>14. OwnersOf(h, k) = [i \in 1 .. c |-> unique[i]]
  BY <1>4, <1>13
<1>15. OwnersOf(h, k) = unique
  BY <1>9, <1>14
<1> QED
  BY <1>1, <1>2, <1>7, <1>15 DEF c

\* Without collisions the owners of a key are the members, nearest first.
LEMMA OwnersClockwise ==
  ASSUME NEW h, Members(h), RingOK(h), HashTable, CollisionFree,
         h.nodes # {}, NEW k \in Hashes
  PROVE  /\ ListsClockwise(OwnersOf(h, k), h.nodes, k)
         /\ NodeAt(h, searchIndex(h, k)) = OwnersOf(h, k)[1]
<1> DEFINE P == Positions(h)
           own == 0 .. VNodes - 1
           walk == Walk(h, k)
           F == Firsts(h, k)
           N == 1 .. Cardinality(F)
           owners == OwnersOf(h, k)
           hash(i) == h.ring[Round(h, k, i)]
<1>0. SortedRing(h) /\ Len(h.ring) \in Nat \ {0} /\ P = 1 .. Len(h.ring)
  BY RingNotEmpty DEF RingOK, Positions
<1>1. /\ Round(h, k, 1) = searchIndex(h, k)
      /\ \A i \in P : Round(h, k, i) \in P
      /\ \A i, j \in P : i <= j => Gap(k, hash(i)) <= Gap(k, hash(j))
  BY <1>0, RoundIs
<1>2. \A t : Unshared(t)
  BY DEF CollisionFree, Unshared
<1>3. \A i \in P : /\ walk[i] \in h.nodes
                   /\ \E j \in own : hashFunc[<<walk[i], j>>] = hash(i)
                   /\ \A v \in Tokens : hashFunc[v] = hash(i) => v[1] = walk[i]
  <2>1. \A i \in P : walk[i] = NodeAt(h, Round(h, k, i))
    BY DEF Walk
  <2> QED
    BY <1>1, <1>2, <2>1, NodeAtIs
<1>4. \A i \in P : hash(i) \in Hashes /\ Gap(k, hash(i)) \in Nat
  <2>1. \A q \in P : h.ring[q] \in Hashes
    BY <1>0 DEF SortedRing
  <2>2. \A i \in P : hash(i) \in Hashes
    BY <1>1, <2>1
  <2> HIDE DEF hash
  <2> QED
    BY <2>2, GapIs
<1>5. Cardinality(F) \in Nat /\ \E at : Selects(at, walk, F, owners)
  BY <1>0, OwnersAre
<1>6. PICK at : Selects(at, walk, F, owners)
  BY <1>5
<1>7. F \subseteq P /\ \A i \in F : \A j \in 1 .. i - 1 : walk[j] # walk[i]
  BY DEF Firsts
<1>f. \A i \in P : (\A j \in 1 .. i - 1 : walk[j] # walk[i]) => i \in F
  BY DEF Firsts
<1> HIDE DEF walk, F, owners, P, hash, N
<1>8. /\ at \in [N -> F] /\ owners = [r \in N |-> walk[at[r]]]
      /\ \A i \in F : \E r \in N : at[r] = i
      /\ \A q, r \in N : q < r => at[q] < at[r]
  BY <1>6 DEF Selects, N
<1>9. \A r \in N : at[r] \in F /\ at[r] \in P /\ owners[r] = walk[at[r]]
  BY <1>7, <1>8
<1>10. DOMAIN owners = N /\ N \subseteq Int /\ P \subseteq Int
  BY <1>0, <1>5, <1>8 DEF N
\* Where a node first occurs.
<1>11. ASSUME NEW i \in P PROVE \E r \in N : owners[r] = walk[i]
  <2> DEFINE S == {j \in P : walk[j] = walk[i]}
  <2>1. S \in SUBSET Nat /\ S # {}
    BY <1>0
  <2>2. Min(S) \in S /\ \A x \in S : Min(S) <= x
    <3> HIDE DEF S
    <3> QED
      BY <2>1, MinIs
  <2> DEFINE f == Min(S)
  <2>3. f \in P /\ walk[f] = walk[i] /\ \A x \in P : walk[x] = walk[i] => f <= x
    BY <2>2
  <2> HIDE DEF f
  <2>4. \A j \in 1 .. f - 1 : j \in P /\ ~(f <= j)
    BY <1>0, <2>3
  <2>5. f \in F
    BY <1>f, <2>3, <2>4
  <2> QED
    BY <1>8, <1>9, <2>3, <2>5
<1>12. ToSet(owners) = h.nodes
  <2>1. ToSet(owners) \subseteq h.nodes
    <3> SUFFICES ASSUME NEW x \in ToSet(owners) PROVE x \in h.nodes
      OBVIOUS
    <3>1. PICK r \in N : x = owners[r]
      BY <1>10 DEF ToSet
    <3> QED
      BY <1>3, <1>9, <3>1
  <2>2. ASSUME NEW n \in h.nodes PROVE n \in ToSet(owners)
    <3>1. <<n, 0>> \in MemberTokens(h) /\ <<n, 0>> \in Tokens
      BY RingAssumption DEF MemberTokens, Tokens, Members
    <3>2. PICK i \in P : hash(i) = hashFunc[<<n, 0>>]
      BY <3>1, TokenMet DEF P, hash
    <3>3. walk[i] = n
      BY <1>3, <3>1, <3>2
    <3> QED
      BY <1>10, <1>11, <3>3 DEF ToSet
  <2> QED
    BY <2>1, <2>2
<1>13. ASSUME NEW q \in N, NEW r \in N, q < r
       PROVE  Nearer(k, owners[q], owners[r])
  <2> DEFINE m == owners[q]
             n == owners[r]
  <2>1. /\ at[q] \in P /\ at[r] \in P /\ at[q] < at[r]
        /\ at[q] \in Int /\ at[r] \in Int /\ at[r] \in F
        /\ m = walk[at[q]] /\ n = walk[at[r]]
    BY <1>8, <1>9, <1>10, <1>13
  <2> HIDE DEF m, n
  <2>2. m \in h.nodes /\ n \in h.nodes /\ m \in Ids /\ n \in Ids
    BY <1>3, <2>1 DEF Members
  <2>3. m # n
    <3>1. at[q] \in 1 .. at[r] - 1
      BY <1>0, <2>1
    <3> QED
      BY <1>7, <2>1, <3>1
  <2>4. Distance(k, m) \in Nat /\ Distance(k, m) <= Gap(k, hash(at[q]))
    BY <1>3, <2>1, <2>2, DistanceIs
  <2>5. PICK i \in own : Distance(k, n) = Gap(k, hashFunc[<<n, i>>])
    BY <2>2, DistanceIs
  <2>6. /\ <<n, i>> \in MemberTokens(h) /\ <<n, i>> \in Tokens
        /\ hashFunc[<<n, i>>] \in Hashes
    BY <2>2 DEF MemberTokens, Tokens, HashTable
  <2>7. PICK j \in P : hash(j) = hashFunc[<<n, i>>]
    BY <2>6, TokenMet DEF P, hash
  <2>8. walk[j] = n
    BY <1>3, <2>6, <2>7
  <2>9. at[r] <= j
    <3>1. j \in Int /\ 1 <= j
      BY <1>0
    <3>2. CASE j < at[r]
      <4>1. j \in 1 .. at[r] - 1
        BY <2>1, <3>1, <3>2
      <4> QED
        BY <1>7, <2>1, <2>8, <4>1
    <3> QED
      BY <2>1, <3>1, <3>2
  <2>10. Gap(k, hash(at[q])) <= Gap(k, hash(j))
    <3>1. at[q] <= j
      BY <1>10, <2>1, <2>7, <2>9
    <3> QED
      BY <1>1, <2>1, <3>1
  <2>11. Gap(k, hash(at[q])) # Gap(k, hash(j))
    <3>1. hash(at[q]) # hash(j)
      BY <1>3, <2>1, <2>3, <2>6, <2>7
    <3> QED
      BY <1>4, <2>1, <3>1, GapInjective
  <2>12. /\ Gap(k, hash(at[q])) \in Nat /\ Gap(k, hash(j)) \in Nat
         /\ Distance(k, n) = Gap(k, hash(j))
    BY <1>4, <2>1, <2>5, <2>7
  <2> QED
    BY <2>4, <2>10, <2>11, <2>12 DEF Nearer, m, n
<1>14. NodeAt(h, searchIndex(h, k)) = owners[1]
  <2>1. 1 \in P /\ 1 \in F
    BY <1>0, <1>f
  <2>2. PICK r \in N : at[r] = 1
    BY <1>8, <2>1
  <2>3. r \in Int /\ 1 <= r /\ 1 \in N
    BY <1>5 DEF N
  <2>4. r = 1
    <3>1. CASE 1 < r
      <4>1. at[1] < 1 /\ at[1] \in P
        BY <1>8, <1>9, <2>2, <2>3, <3>1
      <4> QED
        BY <1>0, <4>1
    <3> QED
      BY <2>3, <3>1
  <2>5. owners[1] = walk[1]
    BY <1>9, <2>2, <2>3, <2>4
  <2> QED
    BY <1>1, <2>1, <2>5 DEF walk, Walk, P
<1> QED
  BY <1>10, <1>12, <1>13, <1>14 DEF ListsClockwise, owners

\* In such a list the earlier of two members is the nearer one.
LEMMA AheadIs ==
  ASSUME NEW h, Members(h), RingOK(h), HashTable, CollisionFree,
         NEW k \in Hashes, NEW m \in h.nodes, NEW n \in h.nodes
  PROVE  <<m, n>> \in Ahead(OwnersOf(h, k)) <=> Nearer(k, m, n)
<1> DEFINE owners == OwnersOf(h, k)
<1>0. Len(h.ring) \in Nat \ {0}
  BY RingNotEmpty DEF RingOK
<1>1. PICK at : Selects(at, Walk(h, k), Firsts(h, k), owners)
  BY <1>0, OwnersAre
<1>2. Cardinality(Firsts(h, k)) \in Nat
  BY <1>0, OwnersAre
<1>3. DOMAIN owners \subseteq Int
  BY <1>1, <1>2 DEF Selects
<1>4. ListsClockwise(owners, h.nodes, k)
  BY OwnersClockwise
<1> HIDE DEF owners
<1>5. m \in Ids /\ n \in Ids
  BY DEF Members
<1>6. Distance(k, m) \in Nat /\ Distance(k, n) \in Nat
  BY <1>5, DistanceIs
<1>7. ASSUME <<m, n>> \in Ahead(owners) PROVE Nearer(k, m, n)
  <2>1. PICK i \in DOMAIN owners, j \in DOMAIN owners :
          i < j /\ owners[i] = m /\ owners[j] = n
    BY <1>7 DEF Ahead
  <2> QED
    BY <1>4, <2>1 DEF ListsClockwise
<1>8. ASSUME Nearer(k, m, n) PROVE <<m, n>> \in Ahead(owners)
  <2>1. PICK i \in DOMAIN owners : owners[i] = m
    BY <1>4 DEF ListsClockwise, ToSet
  <2>2. PICK j \in DOMAIN owners : owners[j] = n
    BY <1>4 DEF ListsClockwise, ToSet
  <2>3. i \in Int /\ j \in Int
    BY <1>3
  <2>4. i # j
    BY <1>6, <1>8, <2>1, <2>2 DEF Nearer
  <2>5. ~(j < i)
    <3>1. j < i => Nearer(k, n, m)
      BY <1>4, <2>1, <2>2 DEF ListsClockwise
    <3> QED
      BY <1>6, <1>8, <3>1 DEF Nearer
  <2>6. i < j
    BY <2>3, <2>4, <2>5
  <2> DEFINE earlier == {x \in (DOMAIN owners) \X (DOMAIN owners) : x[1] < x[2]}
  <2>7. <<i, j>> \in earlier
    BY <2>6
  <2>8. <<m, n>> = <<owners[<<i, j>>[1]], owners[<<i, j>>[2]]>>
    BY <2>1, <2>2
  <2>9. \E x \in earlier : <<m, n>> = <<owners[x[1]], owners[x[2]]>>
    BY <2>7, <2>8, Zenon
  <2> QED
    BY <2>9, Zenon DEF Ahead
<1> QED
  BY <1>7, <1>8 DEF owners

-----------------------------------------------------------------------------
(***************************************************************************)
(* GetNodes lists the members by their clockwise distance from the key,    *)
(* and GetPrimaryNode returns the first of them, for every table of hashes *)
(* without a collision: a lookup depends on who is a member, never on the  *)
(* order in which AddNode and RemoveNode were called.                      *)
(***************************************************************************)
THEOREM LookupsAgree == Spec => []LookupDependsOnMembersOnly
<1>1. RingInv => LookupDependsOnMembersOnly
  <2> SUFFICES ASSUME RingInv, CollisionFree, hashRing.nodes # {},
                      NEW k \in Hashes
               PROVE  LET owners == OwnersOf(hashRing, k)
                      IN  /\ ListsClockwise(owners, hashRing.nodes, k)
                          /\ GetPrimaryNode(hashRing, k).id = owners[1]
    BY DEF LookupDependsOnMembersOnly
  <2>1. Members(hashRing) /\ RingOK(hashRing) /\ HashTable
    BY TableOfInv DEF RingInv
  <2>2. GetPrimaryNode(hashRing, k).id
          = NodeAt(hashRing, searchIndex(hashRing, k))
    BY DEF GetPrimaryNode, Target
  <2> QED
    BY <2>1, <2>2, OwnersClockwise
<1> QED
  BY <1>1, RingHolds, PTL

(***************************************************************************)
(* Collisions of virtual nodes, and the tokens that removals leave behind  *)
(* after them, never change the primary of a key whose search ends at a    *)
(* hash that one virtual node has.                                         *)
(***************************************************************************)
THEOREM CollisionsStayContained == Spec => []CollisionIsContained
<1>1. RingInv => CollisionIsContained
  <2> SUFFICES ASSUME RingInv, hashRing.nodes # {}, NEW k \in Hashes,
                      Unshared(hashRing.ring[searchIndex(hashRing, k)])
               PROVE  LET primary == GetPrimaryNode(hashRing, k).id
                      IN  /\ primary \in hashRing.nodes
                          /\ \A n \in hashRing.nodes \ {primary} :
                               Nearer(k, primary, n)
    BY DEF CollisionIsContained
  <2>1. Members(hashRing) /\ RingOK(hashRing) /\ HashTable
    BY TableOfInv DEF RingInv
  <2>2. GetPrimaryNode(hashRing, k).id
          = NodeAt(hashRing, searchIndex(hashRing, k))
    BY DEF GetPrimaryNode, Target
  <2> QED
    BY <2>1, <2>2, PrimaryIs
<1> QED
  BY <1>1, RingHolds, PTL

(***************************************************************************)
(* AddNode, the replacement of a placeholder and RemoveNode never reorder  *)
(* the nodes that stay, in the list of owners of any key: before and after *)
(* the step the order is that of the distances, which depend on the names  *)
(* of the nodes alone.                                                     *)
(***************************************************************************)
THEOREM SurvivorsStayInOrder == Spec => SurvivorsKeepTheirOrder
<1> DEFINE stay  == hashRing.nodes \cap hashRing'.nodes
           pairs == stay \X stay
           Kept  == CollisionFree =>
                      \A k \in Hashes :
                        Ahead(OwnersOf(hashRing, k)) \cap pairs
                          = Ahead(OwnersOf(hashRing', k)) \cap pairs
<1>1. RingInv /\ [Next]_vars => Kept
  <2> SUFFICES ASSUME RingInv, [Next]_vars, CollisionFree, NEW k \in Hashes,
                      NEW x \in pairs
               PROVE  x \in Ahead(OwnersOf(hashRing, k))
                        <=> x \in Ahead(OwnersOf(hashRing', k))
    OBVIOUS
  <2>1. Members(hashRing) /\ RingOK(hashRing) /\ HashTable
    BY TableOfInv DEF RingInv
  <2>2. PICK g : g = hashRing'
    OBVIOUS
  <2>3. Members(g) /\ RingOK(g)
    BY <2>2, RingStep
  <2>4. PICK m \in stay, n \in stay : x = <<m, n>>
    OBVIOUS
  <2>5. m \in hashRing.nodes /\ n \in hashRing.nodes
    OBVIOUS
  <2>6. m \in g.nodes /\ n \in g.nodes
    BY <2>2
  <2>7. <<m, n>> \in Ahead(OwnersOf(hashRing, k)) <=> Nearer(k, m, n)
    BY <2>1, <2>5, AheadIs
  <2>8. <<m, n>> \in Ahead(OwnersOf(g, k)) <=> Nearer(k, m, n)
    BY <2>1, <2>3, <2>6, AheadIs
  <2> QED
    BY <2>2, <2>4, <2>7, <2>8
<1>2. RingInv /\ [Next]_vars => [Kept]_vars
  BY <1>1
<1> QED
  BY <1>2, RingHolds, PTL DEF Spec, SurvivorsKeepTheirOrder

=============================================================================
