-------------------------- MODULE FailureDetector --------------------------
(***************************************************************************)
(* What the readers of a membership table (failover/router.go, the         *)
(* gateway's handlers) may rely on, without clocks, timeouts, ping cycles  *)
(* and ages: the state of one member changes at a time, by the outcome of  *)
(* one ping or by a command of the user.                                   *)
(*                                                                         *)
(* HealthMonitor implements this specification; Mesh is composed with it.  *)
(***************************************************************************)
CONSTANT Nodes

VARIABLES
  state,    \* what GetNodeState returns for each node
  forced,   \* the user marked the node FAILED and has not revived it
  watched,  \* the nodes that are pinged
  ping      \* the outcomes a ping of each node can have: "hit", "miss"

detectorVars == <<state, forced, watched, ping>>

NodeStates == {"ALIVE", "SUSPECTED", "FAILED"}

Init ==
  /\ state = [n \in Nodes |-> "ALIVE"]
  /\ forced = [n \in Nodes |-> FALSE]
  /\ watched \in SUBSET Nodes
  /\ ping \in [Nodes -> SUBSET {"hit", "miss"}]

\* Silence leads through SUSPECTED to FAILED, never there directly.
Miss(n) ==
  /\ n \in watched /\ "miss" \in ping[n]
  /\ \/ state[n] = "ALIVE" /\ state' = [state EXCEPT ![n] = "SUSPECTED"]
     \/ state[n] = "SUSPECTED" /\ state' = [state EXCEPT ![n] = "FAILED"]
  /\ UNCHANGED <<forced, watched, ping>>

\* A node the user marked FAILED may fall back to SUSPECTED by a miss.
Lapse(n) ==
  /\ n \in watched /\ "miss" \in ping[n]
  /\ forced[n] /\ state[n] = "FAILED"
  /\ state' = [state EXCEPT ![n] = "SUSPECTED"]
  /\ UNCHANGED <<forced, watched, ping>>

\* An answer revives a node, unless the user holds it FAILED.
Hear(n) ==
  /\ n \in watched /\ "hit" \in ping[n]
  /\ state[n] # "ALIVE"
  /\ ~(forced[n] /\ state[n] = "FAILED")
  /\ state' = [state EXCEPT ![n] = "ALIVE"]
  /\ UNCHANGED <<forced, watched, ping>>

\* The user's command takes effect whatever the pings say.
Command(n, s) ==
  /\ state' = [state EXCEPT ![n] = s]
  /\ forced' = [forced EXCEPT ![n] = s = "FAILED" \/ (@ /\ s # "ALIVE")]
  /\ UNCHANGED <<watched, ping>>

\* Nodes are added, and the monitor starts and stops; nobody's state changes.
Watch ==
  /\ watched' \in SUBSET Nodes
  /\ UNCHANGED <<state, forced, ping>>

\* Nodes and the network between come and go.
Surroundings ==
  /\ ping' \in [Nodes -> SUBSET {"hit", "miss"}]
  /\ UNCHANGED <<state, forced, watched>>

Next ==
  \/ \E n \in Nodes : Miss(n) \/ Lapse(n) \/ Hear(n)
  \/ \E n \in Nodes, s \in NodeStates : Command(n, s)
  \/ Watch
  \/ Surroundings

Spec == Init /\ [][Next]_detectorVars

=============================================================================
