----------------------------- MODULE MCHashRing -----------------------------
(***************************************************************************)
(* Instances of HashRing for TLC.  Every node may answer at every address. *)
(* The tables are affine maps modulo a prime, which spread and interleave  *)
(* the virtual nodes of five ids in many ways.                             *)
(***************************************************************************)
EXTENDS HashRing

CONSTANTS n1, n2, n3, a1, a2

IdList == <<n1, n2, n3, a1, a2>>
Position(id) == CHOOSE i \in 1 .. Len(IdList) : IdList[i] = id

Affine(a, b) ==
  [t \in Tokens |->
     (a * (VNodes * (Position(t[1]) - 1) + t[2]) + b) % (MaxHash + 1)]

\* Modulo 11, the ten tokens of five ids get ten hashes.
DistinctHashes == {Affine(a, b) : a \in {1, 3, 5, 7}, b \in {0, 6}}

\* The same tables with pairs of ids that have a hash in common: a node and a
\* placeholder, two nodes, two virtual nodes of one node.
Colliding(f, u, v) == [f EXCEPT ![u] = f[v]]
CollidingHashes ==
  {Colliding(Affine(3, 0), u, v) :
     u \in {<<n1, 0>>}, v \in {<<n2, 1>>, <<a2, 0>>, <<n1, 1>>}}

MCHashFuncs == DistinctHashes \cup CollidingHashes

=============================================================================
