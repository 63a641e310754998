------------------------ MODULE HealthMonitorProofs ------------------------
(***************************************************************************)
(* Proofs about the failure detector, for every set of peers and every     *)
(* value of the heartbeat interval and of the timeouts.                    *)
(***************************************************************************)
EXTENDS HealthMonitor, TLAPS

(***************************************************************************)
(* Type correctness.                                                       *)
(***************************************************************************)

\* The bounded increment stays within its bound and grows by at most one.
LEMMA SaturatingBound ==
  ASSUME NEW bound \in Nat, NEW n \in 0 .. bound
  PROVE  /\ Saturating(n, bound) \in 0 .. bound
         /\ n <= Saturating(n, bound)
         /\ Saturating(n, bound) <= n + 1
  BY DEF Saturating

\* The state chosen by a missed ping is a state.
LEMMA StateAfterMissType ==
  ASSUME NEW m \in MemberInfo
  PROVE  StateAfterMiss(m) \in NodeState
  BY DEF StateAfterMiss, MemberInfo, NodeState

\* The three ways a member's record is rewritten keep it a MemberInfo.
LEMMA MemberUpdates ==
  ASSUME NEW m \in MemberInfo, NEW s \in NodeState, NEW b \in BOOLEAN
  PROVE  /\ [m EXCEPT !.elapsed = 0, !.missedPings = 0, !.state = s]
              \in MemberInfo
         /\ [m EXCEPT !.state = s, !.override = b] \in MemberInfo
         /\ [m EXCEPT !.state = s, !.override = b, !.elapsed = 0,
                      !.missedPings = 0] \in MemberInfo
<1>1. 0 \in 0 .. MaxElapsed /\ 0 \in 0 .. MaxMissed
  BY ConstantsAssumption
<1> QED
  BY <1>1, Zenon DEF MemberInfo

\* Members enter the table with a well-formed record.
LEMMA NewMemberType == NewMember \in MemberInfo
  BY ConstantsAssumption DEF NewMember, MemberInfo, NodeState

\* Every variable of the monitor keeps its type.
THEOREM TypeCorrect == Spec => []TypeOK
<1>1. Init => TypeOK
  <2> SUFFICES ASSUME Init
               PROVE  TypeOK
    OBVIOUS
  <2>1. registered \subseteq Members /\ member \in [Members -> MemberInfo]
    BY NewMemberType, ConstantsAssumption DEF Init, NewMonitor, Members
  <2>2. commands \in 0 .. MaxCommands /\ sinceCycle \in Nat /\ sinceTick \in Nat
    BY ConstantsAssumption DEF Init
  <2>3. stopRequested \in BOOLEAN /\ tickReady \in BOOLEAN
    BY DEF Init
  <2> QED
    BY <2>1, <2>2, <2>3 DEF Init, TypeOK
<1>2. TypeOK /\ [Next]_vars => TypeOK'
  <2> SUFFICES ASSUME TypeOK, [Next]_vars
               PROVE  TypeOK'
    OBVIOUS
  <2> USE DEF TypeOK
  <2>1. CASE Start
    BY <2>1 DEF Start, pingAllPeers, memberVars
  <2>2. CASE Heartbeat
    BY <2>2 DEF Heartbeat, pingAllPeers, memberVars
  <2>3. CASE Stop
    BY <2>3 DEF Stop, memberVars, timerVars
  <2>4. CASE LoopExit
    BY <2>4 DEF LoopExit, memberVars, timerVars
  <2>5. ASSUME NEW p \in Peers, PingSucceeds(p)
        PROVE  TypeOK'
    <3> p \in Members
      BY DEF Members
    <3>1. member' \in [Members -> MemberInfo]
      <4> DEFINE state == IF member[p].override /\ member[p].state = "FAILED"
                            THEN member[p].state ELSE "ALIVE"
      <4>1. member[p] \in MemberInfo
        OBVIOUS
      <4>2. state \in NodeState
        BY <4>1 DEF MemberInfo, NodeState
      <4> HIDE DEF state
      <4>3. [member[p] EXCEPT !.elapsed = 0, !.missedPings = 0, !.state = state]
              \in MemberInfo
        BY <4>1, <4>2, MemberUpdates
      <4>4. member' = [member EXCEPT ![p] =
              [member[p] EXCEPT !.elapsed = 0, !.missedPings = 0, !.state = state]]
        BY <2>5 DEF PingSucceeds, recordSuccess, state
      <4> QED
        BY <4>3, <4>4
    <3>2. failCause' \in [Members -> {"none", "user", "detector"}]
      BY <2>5 DEF PingSucceeds, recordSuccess, Members
    <3> QED
      BY <2>5, <3>1, <3>2 DEF PingSucceeds, timerVars
  <2>6. ASSUME NEW p \in Peers, PingFails(p)
        PROVE  TypeOK'
    <3> p \in Members
      BY DEF Members
    <3>1. StateAfterMiss(member[p]) \in NodeState
      BY StateAfterMissType
    <3>2. Saturating(member[p].missedPings, MaxMissed) \in 0 .. MaxMissed
      BY SaturatingBound, ConstantsAssumption DEF MemberInfo
    <3>3. member' \in [Members -> MemberInfo]
      BY <2>6, <3>1, <3>2 DEF PingFails, recordFailure, MemberInfo
    <3>4. failCause' \in [Members -> {"none", "user", "detector"}]
      BY <2>6 DEF PingFails, recordFailure
    <3> QED
      BY <2>6, <3>3, <3>4 DEF PingFails, timerVars
  <2>7. ASSUME NEW p \in Peers, AddNode(p)
        PROVE  TypeOK'
    BY <2>7, NewMemberType DEF AddNode, timerVars, Members
  <2>8. ASSUME NEW p \in Peers, PeerChanges(p)
        PROVE  TypeOK'
    BY <2>8 DEF PeerChanges, memberVars, timerVars
  <2>9. ASSUME NEW n \in Members, NEW s \in NodeState, SetNodeStateManual(n, s)
        PROVE  TypeOK'
    <3>1. member' \in [Members -> MemberInfo]
      <4>1. CASE s = "ALIVE"
        <5>1. member' = [member EXCEPT ![n] =
                           [member[n] EXCEPT !.state = s, !.override = FALSE,
                                             !.elapsed = 0, !.missedPings = 0]]
          BY <2>9, <4>1 DEF SetNodeStateManual
        <5> QED
          BY <5>1, MemberUpdates
      <4>2. CASE s = "FAILED"
        <5>1. member' = [member EXCEPT ![n] =
                           [member[n] EXCEPT !.state = s, !.override = TRUE]]
          BY <2>9, <4>2 DEF SetNodeStateManual
        <5> QED
          BY <5>1, MemberUpdates
      <4>3. CASE s = "SUSPECTED"
        BY <2>9, <4>3 DEF SetNodeStateManual, MemberInfo, NodeState
      <4> QED
        BY <4>1, <4>2, <4>3 DEF NodeState
    <3>2. failCause' \in [Members -> {"none", "user", "detector"}]
      BY <2>9 DEF SetNodeStateManual
    <3>3. commands' \in 0 .. MaxCommands
      BY <2>9, ConstantsAssumption DEF SetNodeStateManual
    <3> QED
      BY <2>9, <3>1, <3>2, <3>3 DEF SetNodeStateManual, timerVars
  <2>10. CASE Tick
    <3>1. \A m \in Members :
            Saturating(member[m].elapsed, MaxElapsed) \in 0 .. MaxElapsed
      BY SaturatingBound, ConstantsAssumption DEF MemberInfo
    <3>2. member' \in [Members -> MemberInfo]
      BY <2>10, <3>1 DEF Tick, MemberInfo
    <3>3. sinceCycle' \in Nat /\ sinceTick' \in Nat
      BY <2>10 DEF Tick
    <3>4. tickReady' \in BOOLEAN
      BY <2>10, Zenon DEF Tick
    <3> QED
      BY <2>10, <3>2, <3>3, <3>4 DEF Tick
  <2>11. CASE UNCHANGED vars
    BY <2>11 DEF vars, memberVars, timerVars
  <2> QED
    BY <2>1, <2>2, <2>3, <2>4, <2>5, <2>6, <2>7, <2>8, <2>9, <2>10, <2>11
    DEF Next, handleAPINodeState
<1> QED
  BY <1>1, <1>2, PTL DEF Spec

-----------------------------------------------------------------------------
(***************************************************************************)
(* Accuracy.  NoFalseFailure is inductive: a member becomes FAILED without *)
(* an override only at an age of FailTimeout, and what makes it younger    *)
(* also takes it out of FAILED.                                            *)
(***************************************************************************)

\* The steps that leave the membership table alone.
TableUnchanged == UNCHANGED <<registered, member, failCause>>

\* The loop's own steps, Stop and the peers' changes do not touch the table.
LEMMA TableSteps ==
  ASSUME \/ Start \/ Heartbeat \/ Stop \/ LoopExit
         \/ (\E p \in Peers : PeerChanges(p))
         \/ UNCHANGED vars
  PROVE  TableUnchanged
  BY DEF Start, Heartbeat, Stop, LoopExit, PeerChanges, vars, memberVars,
         TableUnchanged

\* Only an override, or silence for FailTimeout, makes the gateway skip a node.
THEOREM Accuracy == Spec => []NoFalseFailure
<1>1. Init => NoFalseFailure
  BY ConstantsAssumption DEF Init, NewMonitor, NewMember, NoFalseFailure, Members
<1>2. TypeOK /\ NoFalseFailure /\ [Next]_vars => NoFalseFailure'
  <2> SUFFICES ASSUME TypeOK, NoFalseFailure, [Next]_vars,
                      NEW m \in registered',
                      member'[m].state = "FAILED", ~member'[m].override
               PROVE  member'[m].elapsed >= FailTimeout
    BY DEF NoFalseFailure
  <2>1. CASE TableUnchanged
    BY <2>1 DEF TableUnchanged, NoFalseFailure
  <2>2. ASSUME NEW p \in Peers, PingSucceeds(p)
        PROVE  member'[m].elapsed >= FailTimeout
    <3> p \in Members /\ m \in Members /\ m \in registered
      BY <2>2 DEF PingSucceeds, Members, TypeOK
    <3>1. m # p
      BY <2>2 DEF PingSucceeds, recordSuccess, TypeOK, MemberInfo
    <3> QED
      BY <2>2, <3>1 DEF PingSucceeds, recordSuccess, TypeOK, NoFalseFailure
  <2>3. ASSUME NEW p \in Peers, PingFails(p)
        PROVE  member'[m].elapsed >= FailTimeout
    BY <2>3 DEF PingFails, recordFailure, StateAfterMiss, TypeOK, MemberInfo,
                NoFalseFailure, Members
  <2>4. ASSUME NEW p \in Peers, AddNode(p)
        PROVE  member'[m].elapsed >= FailTimeout
    BY <2>4 DEF AddNode, NewMember, TypeOK, NoFalseFailure, Members
  <2>5. ASSUME NEW n \in Members, NEW s \in NodeState, SetNodeStateManual(n, s)
        PROVE  member'[m].elapsed >= FailTimeout
    BY <2>5 DEF SetNodeStateManual, NodeState, TypeOK, MemberInfo, NoFalseFailure
  <2>6. CASE Tick
    <3> m \in Members /\ m \in registered
      BY <2>6 DEF Tick, TypeOK
    <3>1. member[m].elapsed >= FailTimeout
      BY <2>6 DEF Tick, TypeOK, MemberInfo, NoFalseFailure
    <3>2. member'[m].elapsed = Saturating(member[m].elapsed, MaxElapsed)
      BY <2>6 DEF Tick, TypeOK, MemberInfo
    <3>3. member[m].elapsed \in 0 .. MaxElapsed
      BY DEF TypeOK, MemberInfo
    <3> QED
      BY <3>1, <3>2, <3>3, ConstantsAssumption DEF Saturating
  <2> QED
    BY <2>1, <2>2, <2>3, <2>4, <2>5, <2>6, TableSteps
    DEF Next, handleAPINodeState
<1> QED
  BY <1>1, <1>2, TypeCorrect, PTL DEF Spec

-----------------------------------------------------------------------------
(***************************************************************************)
(* Detection latency.  The clocks bound each other whatever the members    *)
(* are; the ages then follow from the clocks.                              *)
(***************************************************************************)
\* A cycle lasts at most one interval and starts no later than its tick.
LEMMA ClocksInvariant == Spec => []Clocks
<1>1. Init => Clocks
  BY ConstantsAssumption DEF Init, Clocks
<1>2. TypeOK /\ Clocks /\ [Next]_vars => Clocks'
  <2> SUFFICES ASSUME TypeOK, Clocks, [Next]_vars
               PROVE  Clocks'
    OBVIOUS
  <2> USE ConstantsAssumption DEF Clocks, TypeOK
  <2>1. CASE Start
    BY <2>1 DEF Start, pingAllPeers
  <2>2. CASE Heartbeat
    BY <2>2 DEF Heartbeat, pingAllPeers
  <2>3. CASE Stop
    BY <2>3 DEF Stop, timerVars
  <2>4. CASE LoopExit
    BY <2>4 DEF LoopExit, timerVars
  <2>5. ASSUME NEW p \in Peers, PingSucceeds(p) \/ PingFails(p)
        PROVE  Clocks'
    BY <2>5 DEF PingSucceeds, PingFails, timerVars
  <2>6. ASSUME NEW p \in Peers, AddNode(p) \/ PeerChanges(p)
        PROVE  Clocks'
    BY <2>6 DEF AddNode, PeerChanges, timerVars
  <2>7. ASSUME NEW n \in Members, NEW s \in NodeState, SetNodeStateManual(n, s)
        PROVE  Clocks'
    BY <2>7 DEF SetNodeStateManual, timerVars
  <2>8. CASE Tick
    <3>1. CASE loop = "created"
      BY <2>8, <3>1 DEF Tick, CanWait
    <3>2. CASE loop = "running"
      <4>1. sinceCycle < HeartbeatInterval
        BY <2>8, <3>2 DEF Tick, CanWait
      <4>2. CASE sinceTick + 1 = HeartbeatInterval
        <5>1. tickReady' /\ sinceTick' = 0
          BY <2>8, <3>2, <4>2 DEF Tick
        <5> QED
          BY <2>8, <3>2, <4>1, <5>1 DEF Tick
      <4>3. CASE sinceTick + 1 # HeartbeatInterval
        <5>1. sinceTick' = sinceTick + 1
          BY <2>8, <3>2, <4>3 DEF Tick
        <5>2. ~tickReady' => ~tickReady
          BY <2>8, <3>2, <4>3 DEF Tick
        <5>3. /\ loop' = loop /\ pending' = pending
              /\ sinceCycle' = sinceCycle + 1
          BY <2>8, <3>2 DEF Tick
        <5>4. sinceTick' < HeartbeatInterval /\ sinceCycle' <= HeartbeatInterval
          BY <3>2, <4>1, <4>3, <5>1, <5>3
        <5>5. ~tickReady' => sinceCycle' <= sinceTick'
          BY <3>2, <5>1, <5>2, <5>3
        <5> QED
          BY <3>2, <5>3, <5>4, <5>5
      <4> QED
        BY <4>2, <4>3
    <3>3. CASE loop = "exited"
      BY <2>8, <3>3 DEF Tick
    <3> QED
      BY <3>1, <3>2, <3>3
  <2>9. CASE UNCHANGED vars
    BY <2>9 DEF vars, timerVars
  <2> QED
    BY <2>1, <2>2, <2>3, <2>4, <2>5, <2>6, <2>7, <2>8, <2>9
    DEF Next, handleAPINodeState
<1> QED
  BY <1>1, <1>2, TypeCorrect, PTL DEF Spec

\* When Start is not late, the age of a peer shown ALIVE stays within AgeBound.
LEMMA AgesInvariant ==
  ASSUME TimelyStart
  PROVE  Spec => []Ages
<1> USE ConstantsAssumption
<1>1. Init => Ages
  BY DEF Init, NewMonitor, NewMember, Ages, AgeBound, Members
<1>2. TypeOK /\ TypeOK' /\ Clocks /\ Ages /\ [Next]_vars => Ages'
  <2> SUFFICES ASSUME TypeOK, TypeOK', Clocks, Ages, [Next]_vars,
                      loop' # "exited",
                      NEW m \in registered' \ {Self},
                      member'[m].state = "ALIVE"
               PROVE  member'[m].elapsed <= AgeBound(m)'
    BY DEF Ages
  <2> USE DEF TypeOK, MemberInfo
  <2>0. AgeBound(m) \in Nat /\ AgeBound(m)' \in Nat
    <3>1. /\ SuspectTimeout - 1 \in Nat /\ HeartbeatInterval \in Nat
          /\ sinceCycle \in Nat /\ sinceCycle' \in Nat
      OBVIOUS
    <3>2. \A a, b, c \in Nat : a + b + c \in Nat /\ a + c \in Nat
      OBVIOUS
    <3>3. AgeBound(m) \in Nat
      BY <3>1, <3>2 DEF AgeBound
    <3>4. AgeBound(m)' \in Nat
      BY <3>1, <3>2 DEF AgeBound
    <3> QED
      BY <3>3, <3>4
  <2>1. CASE Start
    BY <2>1 DEF Start, pingAllPeers, memberVars, Clocks, Ages, AgeBound,
                TimelyStart
  <2>2. CASE Heartbeat
    BY <2>2 DEF Heartbeat, pingAllPeers, memberVars, Clocks, Ages, AgeBound
  <2>3. CASE Stop
    BY <2>3 DEF Stop, memberVars, timerVars, Ages, AgeBound
  <2>4. CASE LoopExit
    BY <2>4 DEF LoopExit
  <2>5. ASSUME NEW p \in Peers, PingSucceeds(p)
        PROVE  member'[m].elapsed <= AgeBound(m)'
    <3> p \in Members /\ m \in Members /\ loop = "running"
      BY <2>5 DEF PingSucceeds, Members, Clocks
    <3>1. CASE m = p
      <4>1. member'[m].elapsed = 0
        BY <2>5, <3>1 DEF PingSucceeds, recordSuccess
      <4> QED
        BY <4>1, <2>0
    <3>2. CASE m # p
      BY <2>5, <3>2 DEF PingSucceeds, recordSuccess, timerVars, Ages, AgeBound
    <3> QED
      BY <3>1, <3>2
  <2>6. ASSUME NEW p \in Peers, PingFails(p)
        PROVE  member'[m].elapsed <= AgeBound(m)'
    <3> p \in Members /\ m \in Members /\ loop = "running"
      BY <2>6 DEF PingFails, Members, Clocks
    <3>1. CASE m = p
      BY <2>6, <3>1 DEF PingFails, recordFailure, StateAfterMiss, timerVars,
                        AgeBound
    <3>2. CASE m # p
      BY <2>6, <3>2 DEF PingFails, recordFailure, timerVars, Ages, AgeBound
    <3> QED
      BY <3>1, <3>2
  <2>7. ASSUME NEW p \in Peers, AddNode(p)
        PROVE  member'[m].elapsed <= AgeBound(m)'
    <3> p \in Members /\ m \in Members
      BY <2>7 DEF AddNode, Members
    <3>1. CASE m = p
      BY <2>7, <3>1 DEF AddNode, NewMember, timerVars, AgeBound
    <3>2. CASE m # p
      BY <2>7, <3>2 DEF AddNode, timerVars, Ages, AgeBound
    <3> QED
      BY <3>1, <3>2
  <2>8. ASSUME NEW p \in Peers, PeerChanges(p)
        PROVE  member'[m].elapsed <= AgeBound(m)'
    BY <2>8 DEF PeerChanges, memberVars, timerVars, Ages, AgeBound
  <2>9. ASSUME NEW n \in Members, NEW s \in NodeState, SetNodeStateManual(n, s)
        PROVE  member'[m].elapsed <= AgeBound(m)'
    <3>1. CASE m = n
      <4>1. s = "ALIVE" /\ member'[m].elapsed = 0
        BY <2>9, <3>1 DEF SetNodeStateManual, NodeState
      <4> QED
        BY <4>1, <2>0
    <3>2. CASE m # n
      BY <2>9, <3>2 DEF SetNodeStateManual, timerVars, Ages, AgeBound
    <3> QED
      BY <3>1, <3>2
  <2>10. CASE Tick
    <3>1. member'[m].elapsed <= member[m].elapsed + 1
      BY <2>10, SaturatingBound DEF Tick
    <3>2. member[m].elapsed <= AgeBound(m)
      BY <2>10 DEF Tick, Ages
    <3>3. AgeBound(m)' = AgeBound(m) + 1
      <4>1. /\ loop' = loop
            /\ pending' = pending
            /\ sinceCycle' = sinceCycle + 1
        BY <2>10 DEF Tick
      <4> QED
        BY <4>1 DEF AgeBound
    <3>4. member[m].elapsed \in Nat /\ member'[m].elapsed \in Nat
      BY <2>10 DEF Tick
    <3> QED
      BY <3>1, <3>2, <3>3, <3>4, <2>0
  <2>11. CASE UNCHANGED vars
    BY <2>11 DEF vars, memberVars, timerVars, Ages, AgeBound
  <2> QED
    BY <2>1, <2>2, <2>3, <2>4, <2>5, <2>6, <2>7, <2>8, <2>9, <2>10, <2>11
    DEF Next, handleAPINodeState
<1> QED
  BY <1>1, <1>2, TypeCorrect, ClocksInvariant, PTL DEF Spec

\* A peer shown ALIVE was heard from less than SuspectTimeout plus two
\* heartbeat intervals ago, however many slow peers share its cycles.
THEOREM LatencyBound ==
  ASSUME TimelyStart
  PROVE  Spec => []DetectionLatency
<1>1. TypeOK /\ Clocks /\ Ages => DetectionLatency
  BY ConstantsAssumption
  DEF TypeOK, MemberInfo, Clocks, Ages, AgeBound, DetectionLatency
<1> QED
  BY <1>1, TypeCorrect, ClocksInvariant, AgesInvariant, PTL

-----------------------------------------------------------------------------
(***************************************************************************)
(* The anti-flapping rule.  The detector declares a peer FAILED at an age  *)
(* of FailTimeout; by then LatencyBound no longer allows it to be ALIVE.   *)
(***************************************************************************)

\* Only a registered member in state FAILED has a cause of its failure.
CauseIsOfFailure ==
  \A m \in Members :
    failCause[m] # "none" => m \in registered /\ member[m].state = "FAILED"

\* The history of causes agrees with the table throughout.
LEMMA CauseInvariant == Spec => []CauseIsOfFailure
<1>1. Init => CauseIsOfFailure
  BY DEF Init, CauseIsOfFailure
<1>2. TypeOK /\ CauseIsOfFailure /\ [Next]_vars => CauseIsOfFailure'
  <2> SUFFICES ASSUME TypeOK, CauseIsOfFailure, [Next]_vars,
                      NEW m \in Members, failCause'[m] # "none"
               PROVE  m \in registered' /\ member'[m].state = "FAILED"
    BY DEF CauseIsOfFailure
  <2> USE DEF TypeOK, MemberInfo, CauseIsOfFailure
  <2>1. CASE TableUnchanged
    BY <2>1 DEF TableUnchanged
  <2>2. ASSUME NEW p \in Peers, PingSucceeds(p)
        PROVE  m \in registered' /\ member'[m].state = "FAILED"
    BY <2>2 DEF PingSucceeds, recordSuccess, Members
  <2>3. ASSUME NEW p \in Peers, PingFails(p)
        PROVE  m \in registered' /\ member'[m].state = "FAILED"
    BY <2>3 DEF PingFails, recordFailure, Members
  <2>4. ASSUME NEW p \in Peers, AddNode(p)
        PROVE  m \in registered' /\ member'[m].state = "FAILED"
    BY <2>4 DEF AddNode, Members
  <2>5. ASSUME NEW n \in Members, NEW s \in NodeState, SetNodeStateManual(n, s)
        PROVE  m \in registered' /\ member'[m].state = "FAILED"
    BY <2>5 DEF SetNodeStateManual, NodeState
  <2>6. CASE Tick
    BY <2>6 DEF Tick
  <2> QED
    BY <2>1, <2>2, <2>3, <2>4, <2>5, <2>6, TableSteps
    DEF Next, handleAPINodeState
<1> QED
  BY <1>1, <1>2, TypeCorrect, PTL DEF Spec

\* With a timely start and a FailTimeout that leaves room for a cycle, the
\* detector never takes a peer from ALIVE to FAILED in one step.
THEOREM AntiFlapping ==
  ASSUME TimelyStart, RoomToSuspect
  PROVE  Spec => SuspectedBeforeFailed
<1> DEFINE NoLeap == \A m \in Members :
                       member[m].state = "ALIVE" => failCause'[m] # "detector"
<1>1. TypeOK /\ Clocks /\ DetectionLatency /\ CauseIsOfFailure /\ [Next]_vars
        => [NoLeap]_vars
  <2> SUFFICES ASSUME TypeOK, Clocks, DetectionLatency, CauseIsOfFailure, Next,
                      NEW m \in Members,
                      member[m].state = "ALIVE", failCause'[m] = "detector"
               PROVE  FALSE
    OBVIOUS
  <2> USE DEF TypeOK, MemberInfo
  <2>1. failCause[m] = "none"
    BY DEF CauseIsOfFailure
  <2>2. failCause'[m] # failCause[m]
    BY <2>1
  <2>3. PICK p \in Peers : PingFails(p)
    <3>1. ~TableUnchanged
      BY <2>2 DEF TableUnchanged
    <3>2. ASSUME NEW p \in Peers, PingSucceeds(p)
          PROVE  FALSE
      BY <3>2, <2>1 DEF PingSucceeds, recordSuccess, Members
    <3>3. ASSUME NEW p \in Peers, AddNode(p)
          PROVE  FALSE
      BY <3>3, <2>2 DEF AddNode
    <3>4. ASSUME NEW n \in Members, NEW s \in NodeState, SetNodeStateManual(n, s)
          PROVE  FALSE
      BY <3>4, <2>1 DEF SetNodeStateManual
    <3>5. ~Tick
      BY <2>2 DEF Tick
    <3> QED
      BY <3>1, <3>2, <3>3, <3>4, <3>5, TableSteps
    DEF Next, handleAPINodeState
  <2>4. m = p /\ member[p].elapsed >= FailTimeout
    BY <2>1, <2>3 DEF PingFails, recordFailure, StateAfterMiss, Members
  <2>5. member[p].elapsed < SuspectTimeout + 2 * HeartbeatInterval
    BY <2>3, <2>4 DEF PingFails, Clocks, DetectionLatency
  <2> QED
    BY <2>4, <2>5, ConstantsAssumption DEF RoomToSuspect, Members
<1> QED
  BY <1>1, TypeCorrect, ClocksInvariant, LatencyBound, CauseInvariant, PTL
  DEF Spec, SuspectedBeforeFailed

-----------------------------------------------------------------------------
(***************************************************************************)
(* Refinement.  An age decides what a missed ping does; the abstract       *)
(* detector has no ages.  NoFalseFailure and DetectionLatency say what the *)
(* states reveal about them.                                               *)
(***************************************************************************)

\* A member that is not in the table yet is as AddNode will enter it.
UnregisteredIsNew ==
  \A m \in Members \ registered :
    member[m].state = "ALIVE" /\ ~member[m].override

\* Nothing but AddNode deals with members outside the table.
LEMMA UnregisteredInvariant == Spec => []UnregisteredIsNew
<1>1. Init => UnregisteredIsNew
  BY DEF Init, NewMonitor, NewMember, UnregisteredIsNew
<1>2. TypeOK /\ UnregisteredIsNew /\ [Next]_vars => UnregisteredIsNew'
  <2> SUFFICES ASSUME TypeOK, UnregisteredIsNew, [Next]_vars,
                      NEW m \in Members, m \notin registered'
               PROVE  member'[m].state = "ALIVE" /\ ~member'[m].override
    BY DEF UnregisteredIsNew
  <2> USE DEF TypeOK, MemberInfo, UnregisteredIsNew
  <2>1. CASE TableUnchanged
    BY <2>1 DEF TableUnchanged
  <2>2. ASSUME NEW p \in Peers, PingSucceeds(p)
        PROVE  member'[m].state = "ALIVE" /\ ~member'[m].override
    BY <2>2 DEF PingSucceeds, recordSuccess, Members
  <2>3. ASSUME NEW p \in Peers, PingFails(p)
        PROVE  member'[m].state = "ALIVE" /\ ~member'[m].override
    BY <2>3 DEF PingFails, recordFailure, Members
  <2>4. ASSUME NEW p \in Peers, AddNode(p)
        PROVE  member'[m].state = "ALIVE" /\ ~member'[m].override
    BY <2>4 DEF AddNode, Members
  <2>5. ASSUME NEW n \in Members, NEW s \in NodeState, SetNodeStateManual(n, s)
        PROVE  member'[m].state = "ALIVE" /\ ~member'[m].override
    BY <2>5 DEF SetNodeStateManual
  <2>6. CASE Tick
    BY <2>6 DEF Tick
  <2> QED
    BY <2>1, <2>2, <2>3, <2>4, <2>5, <2>6, TableSteps
    DEF Next, handleAPINodeState
<1> QED
  BY <1>1, <1>2, TypeCorrect, PTL DEF Spec

\* The four variables of the abstract detector, read off the monitor.
ShownState == [m \in Members |-> member[m].state]
Forced     == [m \in Members |-> member[m].override]
Watched    == IF loop = "running" THEN registered \ {Self} ELSE {}
Outcomes   == [m \in Members |->
                 IF m = Self THEN {}
                 ELSE IF responsive[m] THEN {"hit"} ELSE {"miss"}]

\* With a timely start and room for a cycle between the timeouts, every step
\* of the monitor is a step of the abstract detector or invisible to it.
THEOREM Refinement ==
  ASSUME TimelyStart, RoomToSuspect
  PROVE  Spec => ImplementsDetector
<1> USE ConstantsAssumption
<1>1. Init => Detector!Init
  <2> SUFFICES ASSUME Init
               PROVE  Detector!Init
    OBVIOUS
  <2>1. ShownState = [m \in Members |-> "ALIVE"]
    BY DEF Init, NewMonitor, NewMember, ShownState
  <2>2. Forced = [m \in Members |-> FALSE]
    BY Zenon DEF Init, NewMonitor, NewMember, Forced
  <2>3. Watched \in SUBSET Members
    BY DEF Init, Watched
  <2>4. Outcomes \in [Members -> SUBSET {"hit", "miss"}]
    BY DEF Outcomes
  <2> QED
    BY <2>1, <2>2, <2>3, <2>4 DEF ShownState, Forced, Watched, Outcomes,
                                  Detector!Init
<1>2. TypeOK /\ TypeOK' /\ Clocks /\ NoFalseFailure /\ DetectionLatency
        /\ UnregisteredIsNew /\ [Next]_vars
        => [Detector!Next]_(Detector!detectorVars)
  <2> SUFFICES ASSUME TypeOK, TypeOK', Clocks, NoFalseFailure, DetectionLatency,
                      UnregisteredIsNew, [Next]_vars
               PROVE  [Detector!Next]_(Detector!detectorVars)
    OBVIOUS
  <2> USE DEF TypeOK, MemberInfo
  <2>a. ASSUME ShownState' = ShownState, Forced' = Forced, Outcomes' = Outcomes
        PROVE  [Detector!Next]_(Detector!detectorVars)
    <3>1. Watched' \in SUBSET Members
      BY DEF Watched
    <3> QED
      BY <2>a, <3>1 DEF ShownState, Forced, Watched, Outcomes, Detector!Next,
                        Detector!Watch, Detector!detectorVars
  <2>1. CASE Start \/ Heartbeat \/ Stop \/ LoopExit \/ UNCHANGED vars
    BY <2>1, <2>a DEF Start, Heartbeat, Stop, LoopExit, vars, memberVars,
                      ShownState, Forced, Outcomes
  <2>2. CASE Tick
    BY <2>2, <2>a DEF Tick, ShownState, Forced, Outcomes
  <2>3. ASSUME NEW p \in Peers, AddNode(p)
        PROVE  [Detector!Next]_(Detector!detectorVars)
    <3>1. p \in Members /\ member[p].state = "ALIVE" /\ ~member[p].override
      BY <2>3 DEF AddNode, UnregisteredIsNew, Members
    <3>2. ShownState' = ShownState
      BY <2>3, <3>1 DEF AddNode, NewMember, ShownState
    <3>3. \A m \in Members : member'[m].override = member[m].override
      BY <2>3, <3>1 DEF AddNode, NewMember
    <3>4. Forced' = Forced
      BY <3>3, Zenon DEF Forced
    <3>5. Outcomes' = Outcomes
      BY <2>3 DEF AddNode, Outcomes
    <3> QED
      BY <3>2, <3>4, <3>5, <2>a
  <2>4. ASSUME NEW p \in Peers, PeerChanges(p)
        PROVE  [Detector!Next]_(Detector!detectorVars)
    <3>1. Outcomes' \in [Members -> SUBSET {"hit", "miss"}]
      BY <2>4 DEF Outcomes
    <3>2. ShownState' = ShownState /\ Forced' = Forced /\ Watched' = Watched
      BY <2>4 DEF PeerChanges, memberVars, ShownState, Forced, Watched
    <3> QED
      BY <3>1, <3>2 DEF ShownState, Forced, Watched, Outcomes, Detector!Next,
                        Detector!Surroundings
  <2>5. ASSUME NEW n \in Members, NEW s \in NodeState, SetNodeStateManual(n, s)
        PROVE  [Detector!Next]_(Detector!detectorVars)
    <3>a. \A m \in Members \ {n} : member'[m] = member[m]
      BY <2>5 DEF SetNodeStateManual
    <3>b. member'[n].state = s
      BY <2>5 DEF SetNodeStateManual, NodeState
    <3>c. member'[n].override = (s = "FAILED" \/ (member[n].override /\ s # "ALIVE"))
      <4>1. s = "ALIVE" => member'[n].override = FALSE
        BY <2>5 DEF SetNodeStateManual
      <4>2. s = "FAILED" => member'[n].override = TRUE
        BY <2>5 DEF SetNodeStateManual
      <4>3. s = "SUSPECTED" => member'[n].override = member[n].override
        BY <2>5 DEF SetNodeStateManual
      <4>4. member[n].override \in BOOLEAN
        OBVIOUS
      <4> QED
        BY <4>1, <4>2, <4>3, <4>4, Zenon DEF NodeState
    <3>1. ShownState' = [ShownState EXCEPT ![n] = s]
      BY <3>a, <3>b DEF ShownState
    <3>2. Forced' = [Forced EXCEPT ![n] = s = "FAILED" \/ (@ /\ s # "ALIVE")]
      BY <3>a, <3>c, Zenon DEF Forced
    <3>3. Watched' = Watched /\ Outcomes' = Outcomes
      BY <2>5 DEF SetNodeStateManual, Watched, Outcomes
    <3>4. Detector!Command(n, s)
      BY <3>1, <3>2, <3>3 DEF ShownState, Forced, Watched, Outcomes,
                              Detector!Command
    <3> QED
      BY <3>4 DEF Detector!Next, Detector!NodeStates, NodeState
  <2>6. ASSUME NEW p \in Peers, PingSucceeds(p)
        PROVE  [Detector!Next]_(Detector!detectorVars)
    <3>1. p \in Members /\ p # Self /\ p \in Watched /\ Outcomes[p] = {"hit"}
      BY <2>6 DEF PingSucceeds, Clocks, Watched, Outcomes, Members
    <3>2. Forced' = Forced /\ Watched' = Watched /\ Outcomes' = Outcomes
      BY <2>6 DEF PingSucceeds, recordSuccess, Forced, Watched, Outcomes
    <3>3. CASE ShownState' = ShownState
      BY <3>2, <3>3, <2>a
    <3>4. CASE ShownState' # ShownState
      <4>1. /\ ShownState[p] # "ALIVE"
            /\ ~(Forced[p] /\ ShownState[p] = "FAILED")
            /\ ShownState' = [ShownState EXCEPT ![p] = "ALIVE"]
        <5>1. \A m \in Members \ {p} : member'[m] = member[m]
          BY <2>6 DEF PingSucceeds, recordSuccess
        <5>2. member'[p].state # member[p].state
          BY <3>1, <3>4, <5>1 DEF ShownState
        <5>3. /\ ~(member[p].override /\ member[p].state = "FAILED")
              /\ member'[p].state = "ALIVE"
          BY <2>6, <3>1, <5>2 DEF PingSucceeds, recordSuccess
        <5> QED
          BY <3>1, <5>1, <5>2, <5>3 DEF ShownState, Forced
      <4>2. Detector!Hear(p)
        BY <3>1, <3>2, <4>1 DEF ShownState, Forced, Watched, Outcomes,
                                Detector!Hear
      <4> QED
        BY <3>1, <4>2 DEF Detector!Next
    <3> QED
      BY <3>3, <3>4
  <2>7. ASSUME NEW p \in Peers, PingFails(p)
        PROVE  [Detector!Next]_(Detector!detectorVars)
    <3>1. p \in Members /\ p # Self /\ p \in Watched /\ Outcomes[p] = {"miss"}
      BY <2>7 DEF PingFails, Clocks, Watched, Outcomes, Members
    <3>2. Forced' = Forced /\ Watched' = Watched /\ Outcomes' = Outcomes
      BY <2>7 DEF PingFails, recordFailure, Forced, Watched, Outcomes
    <3>3. CASE ShownState' = ShownState
      BY <3>2, <3>3, <2>a
    <3>4. CASE ShownState' # ShownState
      <4>1. ShownState' = [ShownState EXCEPT ![p] = StateAfterMiss(member[p])]
        <5>1. \A m \in Members \ {p} : member'[m] = member[m]
          BY <2>7 DEF PingFails, recordFailure
        <5>2. member'[p].state = StateAfterMiss(member[p])
          BY <2>7, <3>1 DEF PingFails, recordFailure
        <5> QED
          BY <3>1, <5>1, <5>2 DEF ShownState
      <4>2. StateAfterMiss(member[p]) # member[p].state
        BY <3>1, <3>4, <4>1 DEF ShownState
      <4>3. p \in registered \ {Self} /\ loop = "running"
        BY <3>1 DEF Watched
      <4>4. CASE ShownState[p] = "ALIVE"
        <5>1. StateAfterMiss(member[p]) = "SUSPECTED"
          BY <3>1, <4>2, <4>3, <4>4
          DEF StateAfterMiss, ShownState, DetectionLatency, RoomToSuspect
        <5>2. Detector!Miss(p)
          BY <3>1, <3>2, <4>1, <4>4, <5>1
          DEF ShownState, Forced, Watched, Outcomes, Detector!Miss
        <5> QED
          BY <3>1, <5>2 DEF Detector!Next
      <4>5. CASE ShownState[p] = "SUSPECTED"
        <5>1. StateAfterMiss(member[p]) = "FAILED"
          BY <3>1, <4>2, <4>5 DEF StateAfterMiss, ShownState
        <5>2. Detector!Miss(p)
          BY <3>1, <3>2, <4>1, <4>5, <5>1
          DEF ShownState, Forced, Watched, Outcomes, Detector!Miss
        <5> QED
          BY <3>1, <5>2 DEF Detector!Next
      <4>6. CASE ShownState[p] = "FAILED"
        <5>1. StateAfterMiss(member[p]) = "SUSPECTED" /\ Forced[p]
          BY <3>1, <4>2, <4>3, <4>6
          DEF StateAfterMiss, ShownState, Forced, NoFalseFailure
        <5>2. Detector!Lapse(p)
          BY <3>1, <3>2, <4>1, <4>6, <5>1
          DEF ShownState, Forced, Watched, Outcomes, Detector!Lapse
        <5> QED
          BY <3>1, <5>2 DEF Detector!Next
      <4> QED
        BY <3>1, <4>4, <4>5, <4>6 DEF ShownState, NodeState
    <3> QED
      BY <3>3, <3>4
  <2> QED
    BY <2>1, <2>2, <2>3, <2>4, <2>5, <2>6, <2>7 DEF Next, handleAPINodeState
<1> QED
  BY <1>1, <1>2, TypeCorrect, Accuracy, ClocksInvariant, LatencyBound,
     UnregisteredInvariant, PTL
  DEF Spec, ImplementsDetector, Detector!Spec

=============================================================================
