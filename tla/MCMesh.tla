------------------------------- MODULE MCMesh -------------------------------
(***************************************************************************)
(* Instances of Mesh for TLC: three nodes, few client operations, and the  *)
(* environments the properties speak of.                                   *)
(***************************************************************************)
EXTENDS Mesh

\* Operations in sequence, and a replica that crashes.
Sequential ==
  [maxOps |-> 3, kinds |-> {"set", "get", "delete"}, pacing |-> "sequential",
   timeouts |-> FALSE, hotReads |-> FALSE,
   mayCrash |-> {Replica}, maxCrashes |-> 1, oneAtATime |-> TRUE]

\* Concurrent operations and hot reads.
Concurrent ==
  [maxOps |-> 3, kinds |-> {"set", "get"}, pacing |-> "concurrent",
   timeouts |-> FALSE, hotReads |-> TRUE,
   mayCrash |-> {}, maxCrashes |-> 0, oneAtATime |-> TRUE]

\* The same with a replica that crashes, for two operations.
ConcurrentReplica ==
  [Concurrent EXCEPT !.maxOps = 2, !.mayCrash = {Replica}, !.maxCrashes = 1]

\* Concurrent operations, calls that time out and false suspicions.
Unreliable ==
  [maxOps |-> 2, kinds |-> {"set", "get", "delete"}, pacing |-> "concurrent",
   timeouts |-> TRUE, hotReads |-> TRUE,
   mayCrash |-> {}, maxCrashes |-> 0, oneAtATime |-> FALSE]

\* The same with a replica that crashes, for one operation.
UnreliableReplica ==
  [Unreliable EXCEPT !.maxOps = 1, !.mayCrash = {Replica}, !.maxCrashes = 1]

\* Both owners crash, one after the other.
Outages ==
  [maxOps |-> 3, kinds |-> {"set", "get"}, pacing |-> "settled",
   timeouts |-> FALSE, hotReads |-> FALSE,
   mayCrash |-> {Primary, Replica}, maxCrashes |-> 2, oneAtATime |-> TRUE]

\* One client that writes twice, and nothing fails.
TwoWrites ==
  [maxOps |-> 2, kinds |-> {"set"}, pacing |-> "sequential",
   timeouts |-> FALSE, hotReads |-> FALSE,
   mayCrash |-> {}, maxCrashes |-> 0, oneAtATime |-> TRUE]

AllEnvironments ==
  {Sequential, Concurrent, ConcurrentReplica, Unreliable, UnreliableReplica,
   Outages}

OnlyTwoWrites == {TwoWrites}

=============================================================================
