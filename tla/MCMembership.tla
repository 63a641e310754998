---------------------------- MODULE MCMembership ----------------------------
(***************************************************************************)
(* Instances of Membership for TLC: three members and a newcomer, and one  *)
(* key (keys meet only in the batches).  Among the ids, the newcomer comes *)
(* first, second or third in the key's list.  The placeholders are spread  *)
(* over the lists so that rings with bare addresses disagree with the      *)
(* gateway's.                                                              *)
(***************************************************************************)
EXTENDS Membership, Sequences, TLC

CONSTANTS a, b, c, new, atA, atB, atC, atNew, key

MCAddrOf == (a :> atA) @@ (b :> atB) @@ (c :> atC) @@ (new :> atNew)

Deployment(names, named, nwrites, ncrashes, nrefreshes, nfaults) ==
  [order |-> [k \in Keys |->
                [n \in Names |-> CHOOSE i \in DOMAIN names : names[i] = n]],
   named |-> named, writes |-> nwrites, crashes |-> ncrashes,
   refreshes |-> nrefreshes, faults |-> nfaults]

JoinsAsPrimary == <<new, atC, a, atB, b, atA, c, atNew>>
JoinsAsReplica == <<b, new, atA, c, atC, a, atB, atNew>>
JoinsAsThird   == <<atA, atC, b, a, new, atB, c, atNew>>
FarFromNames   == <<atA, atB, new, a, b, c, atC, atNew>>

\* Peers as id=addr: crashes of any node, or an overwrite, with and without
\* pulls that fail and batches that are refused.
ByName == {Deployment(JoinsAsPrimary, TRUE, 1, 2, 0, 0),
           Deployment(JoinsAsReplica, TRUE, 1, 1, 0, 1),
           Deployment(JoinsAsPrimary, TRUE, 1, 1, 0, 1),
           Deployment(JoinsAsPrimary, TRUE, 2, 0, 0, 1)}

\* Bare addresses: the rings disagree, and change as peers are discovered.
ByAddress == {Deployment(names, FALSE, 1, 0, 2, 0) :
                names \in {JoinsAsPrimary, JoinsAsReplica, JoinsAsThird,
                           FarFromNames}}

Both == ByName \cup ByAddress

\* Bare addresses and a crash.
BareOutage == {Deployment(JoinsAsThird, FALSE, 1, 1, 0, 0)}

=============================================================================
