--------------------------- MODULE HealthMonitor ---------------------------
(***************************************************************************)
(* The heartbeat failure detector of backend/internal/health/monitor.go:   *)
(* one Monitor, its membership table, its ping cycle and the manual state  *)
(* override of POST /api/node/state.                                       *)
(*                                                                         *)
(* Time is discrete.  The code stores LastSeen and compares                *)
(* time.Since(LastSeen) with the two timeouts; the model stores that age   *)
(* itself (field elapsed), which only Tick increases.  Scheduling delays   *)
(* inside the process are taken as zero: a goroutine that can run does so  *)
(* before time passes, and a ping is over after at most one                *)
(* HeartbeatInterval, the deadline of its context.                         *)
(***************************************************************************)
EXTENDS Integers

CONSTANTS
  Self,               \* the monitor's own member, never pinged
  Peers,              \* node ids that can become members
  InitialPeers,       \* the peers of the configuration
  HeartbeatInterval,  \* Config, in ticks of the model clock
  SuspectTimeout,
  FailTimeout,
  StartDelay,         \* longest time from NewMonitor to Start
  MaxElapsed,         \* bound: ages are not told apart beyond this
  MaxMissed,          \* bound: missed pings are not counted beyond this
  MaxCommands         \* bound: manual overrides in one behaviour

ASSUME ConstantsAssumption ==
  /\ Self \notin Peers
  /\ InitialPeers \subseteq Peers
  /\ HeartbeatInterval \in Nat \ {0}
  /\ SuspectTimeout \in Nat \ {0}
  /\ FailTimeout \in Nat
  /\ SuspectTimeout < FailTimeout
  /\ StartDelay \in Nat
  /\ MaxElapsed \in Nat /\ MaxElapsed >= FailTimeout
  /\ MaxMissed \in Nat
  /\ MaxCommands \in Nat

VARIABLES
  registered,     \* keys of the members map
  member,         \* the MemberInfo of each node (meaningful when registered)
  failCause,      \* history: who put a FAILED member into that state
  loop,           \* heartbeatLoop: not started, running or returned
  stopRequested,  \* stopChan is closed
  pending,        \* peers whose ping of the current cycle is not over
  sinceCycle,     \* time since the current cycle (or the monitor) began
  sinceTick,      \* time since the ticker last fired
  tickReady,      \* a tick is buffered in ticker.C
  responsive,     \* environment: the peer answers /internal/health
  commands        \* manual overrides so far

memberVars == <<registered, member, failCause>>
timerVars  == <<sinceCycle, sinceTick, tickReady>>
vars == <<memberVars, loop, stopRequested, pending, timerVars, responsive,
          commands>>

Members   == Peers \cup {Self}
NodeState == {"ALIVE", "SUSPECTED", "FAILED"}
MemberInfo == [state       : NodeState,
               override    : BOOLEAN,
               elapsed     : 0 .. MaxElapsed,
               missedPings : 0 .. MaxMissed]

Saturating(n, bound) == IF n < bound THEN n + 1 ELSE bound

\* Variant of NewMember: the literal leaves State at its zero value.
NewMemberZeroState ==
  [state |-> "", override |-> FALSE, elapsed |-> 0, missedPings |-> 0]

(***************************************************************************)
(* A member as NewMonitor and AddNode enter it: optimistically ALIVE.      *)
(***************************************************************************)
NewMember ==
  [state |-> "ALIVE", override |-> FALSE, elapsed |-> 0, missedPings |-> 0]

NewMonitor ==
  /\ registered = InitialPeers \cup {Self}
  /\ member = [m \in Members |-> NewMember]

Init ==
  /\ NewMonitor
  /\ failCause = [m \in Members |-> "none"]
  /\ loop = "created"
  /\ stopRequested = FALSE
  /\ pending = {}
  /\ sinceCycle = 0
  /\ sinceTick = 0
  /\ tickReady = FALSE
  /\ responsive \in [Peers -> BOOLEAN]
  /\ commands = 0

-----------------------------------------------------------------------------
(* The heartbeat loop. *)

\* Variant of pingAllPeers: FAILED peers are no longer pinged.
pingReachablePeers ==
  /\ pending' = {p \in registered \ {Self} : member[p].state # "FAILED"}
  /\ sinceCycle' = 0

(***************************************************************************)
(* pingAllPeers snapshots the members other than Self and starts one       *)
(* goroutine per peer; wg.Wait() keeps the next cycle from starting before *)
(* all of them are over.                                                   *)
(***************************************************************************)
pingAllPeers ==
  /\ pending' = registered \ {Self}
  /\ sinceCycle' = 0

\* Start launches heartbeatLoop: a new ticker, and a first cycle at once.
Start ==
  /\ loop = "created"
  /\ loop' = "running"
  /\ pingAllPeers
  /\ sinceTick' = 0
  /\ tickReady' = FALSE
  /\ UNCHANGED <<memberVars, stopRequested, responsive, commands>>

\* The loop receives a buffered tick and runs a cycle.
Heartbeat ==
  /\ loop = "running"
  /\ pending = {}
  /\ tickReady
  /\ tickReady' = FALSE
  /\ pingAllPeers
  /\ UNCHANGED <<memberVars, loop, stopRequested, sinceTick, responsive,
                 commands>>

\* Variant of LoopExit: a buffered tick always wins over stopChan.
LoopExitAfterTicks ==
  /\ loop = "running"
  /\ pending = {}
  /\ ~tickReady
  /\ stopRequested
  /\ loop' = "exited"
  /\ UNCHANGED <<memberVars, stopRequested, pending, timerVars, responsive,
                 commands>>

\* The loop sees the closed stopChan; select may prefer a buffered tick.
LoopExit ==
  /\ loop = "running"
  /\ pending = {}
  /\ stopRequested
  /\ loop' = "exited"
  /\ UNCHANGED <<memberVars, stopRequested, pending, timerVars, responsive,
                 commands>>

Stop ==
  /\ ~stopRequested
  /\ stopRequested' = TRUE
  /\ UNCHANGED <<memberVars, loop, pending, timerVars, responsive, commands>>

-----------------------------------------------------------------------------
(* What the outcome of a ping does to the membership table. *)

\* Variant of recordSuccess: a FAILED member stays so, overridden or not.
recordSuccessHoldsFailed(p) ==
  LET m    == member[p]
      held == m.state = "FAILED"
  IN  /\ member' = [member EXCEPT ![p] =
                      [m EXCEPT !.elapsed = 0,
                                !.missedPings = 0,
                                !.state = IF held THEN @ ELSE "ALIVE"]]
      /\ failCause' = [failCause EXCEPT ![p] = IF held THEN @ ELSE "none"]

\* Variant of recordSuccess: the override is not looked at.
recordSuccessAlways(p) ==
  /\ member' = [member EXCEPT ![p] =
                  [@ EXCEPT !.elapsed = 0, !.missedPings = 0, !.state = "ALIVE"]]
  /\ failCause' = [failCause EXCEPT ![p] = "none"]

\* A successful ping revives the member unless an override holds it FAILED.
recordSuccess(p) ==
  LET m    == member[p]
      held == m.override /\ m.state = "FAILED"
  IN  /\ member' = [member EXCEPT ![p] =
                      [m EXCEPT !.elapsed = 0,
                                !.missedPings = 0,
                                !.state = IF held THEN @ ELSE "ALIVE"]]
      /\ failCause' = [failCause EXCEPT ![p] = IF held THEN @ ELSE "none"]

\* Variant of StateAfterMiss: the first comparison is strict.
StateAfterMissStrict(m) ==
  IF m.elapsed >= FailTimeout THEN "FAILED"
  ELSE IF m.elapsed > SuspectTimeout THEN "SUSPECTED"
  ELSE m.state

\* Variant of StateAfterMiss: the timeouts are tested in the wrong order.
StateAfterMissSwapped(m) ==
  IF m.elapsed >= SuspectTimeout THEN "SUSPECTED"
  ELSE IF m.elapsed >= FailTimeout THEN "FAILED"
  ELSE m.state

\* The state a missed ping leads to depends on the age alone.
StateAfterMiss(m) ==
  IF m.elapsed >= FailTimeout THEN "FAILED"
  ELSE IF m.elapsed >= SuspectTimeout THEN "SUSPECTED"
  ELSE m.state

recordFailure(p) ==
  LET m        == member[p]
      newState == StateAfterMiss(m)
  IN  /\ member' = [member EXCEPT ![p] =
                      [m EXCEPT !.missedPings = Saturating(@, MaxMissed),
                                !.state = newState]]
      /\ failCause' = [failCause EXCEPT ![p] =
                         IF newState # "FAILED" THEN "none"
                         ELSE IF m.state = "FAILED" THEN @
                         ELSE "detector"]

\* pingPeer: the peer answers 200 within the deadline ...
PingSucceeds(p) ==
  /\ p \in pending
  /\ responsive[p]
  /\ recordSuccess(p)
  /\ pending' = pending \ {p}
  /\ UNCHANGED <<registered, loop, stopRequested, timerVars, responsive,
                 commands>>

\* ... or it refuses, answers an error, or the context expires.
PingFails(p) ==
  /\ p \in pending
  /\ ~responsive[p]
  /\ recordFailure(p)
  /\ pending' = pending \ {p}
  /\ UNCHANGED <<registered, loop, stopRequested, timerVars, responsive,
                 commands>>

-----------------------------------------------------------------------------
(* Calls from other goroutines. *)

\* AddNode enters a member; for a known one it changes the address only.
AddNode(p) ==
  /\ p \notin registered
  /\ registered' = registered \cup {p}
  /\ member' = [member EXCEPT ![p] = NewMember]
  /\ UNCHANGED <<failCause, loop, stopRequested, pending, timerVars,
                 responsive, commands>>

\* A forced state change.  Only ALIVE clears the override and
\* restarts the age; SUSPECTED leaves both as they are.
SetNodeStateManual(n, newState) ==
  /\ commands < MaxCommands
  /\ commands' = commands + 1
  /\ n \in registered
  /\ member' = [member EXCEPT ![n] =
       CASE newState = "ALIVE"  -> [@ EXCEPT !.state = newState,
                                             !.override = FALSE,
                                             !.elapsed = 0,
                                             !.missedPings = 0]
         [] newState = "FAILED" -> [@ EXCEPT !.state = newState,
                                             !.override = TRUE]
         [] OTHER               -> [@ EXCEPT !.state = newState]]
  /\ failCause' = [failCause EXCEPT ![n] =
                     IF newState = "FAILED" THEN "user" ELSE "none"]
  /\ UNCHANGED <<registered, loop, stopRequested, pending, timerVars,
                 responsive>>

\* POST /api/node/state: any of the three states, for any member.
handleAPINodeState ==
  \E n \in Members, s \in NodeState : SetNodeStateManual(n, s)

-----------------------------------------------------------------------------
(* The environment: peers stop and start answering, and time passes. *)

PeerChanges(p) ==
  /\ responsive' = [responsive EXCEPT ![p] = ~@]
  /\ UNCHANGED <<memberVars, loop, stopRequested, pending, timerVars, commands>>

\* Variant of CanWait: pings have the http.Client's 1500 ms timeout only.
CanWaitForClientTimeout ==
  \/ loop = "created" /\ sinceCycle < StartDelay
  \/ loop = "running" /\ pending # {} /\ sinceCycle < 3 * HeartbeatInterval
  \/ loop = "running" /\ pending = {} /\ ~tickReady /\ ~stopRequested
  \/ loop = "exited"

\* Time passes only while every goroutine of the monitor is waiting for it.
CanWait ==
  \/ loop = "created" /\ sinceCycle < StartDelay
  \/ loop = "running" /\ pending # {} /\ sinceCycle < HeartbeatInterval
  \/ loop = "running" /\ pending = {} /\ ~tickReady /\ ~stopRequested
  \/ loop = "exited"

Tick ==
  /\ CanWait
  /\ member' = [m \in Members |->
                  [member[m] EXCEPT !.elapsed = Saturating(@, MaxElapsed)]]
  /\ IF loop = "running"
     THEN LET fires == sinceTick + 1 = HeartbeatInterval
          IN  /\ sinceTick' = IF fires THEN 0 ELSE sinceTick + 1
              /\ tickReady' = (fires \/ tickReady)
     ELSE UNCHANGED <<sinceTick, tickReady>>
  /\ sinceCycle' = IF loop = "exited" THEN sinceCycle ELSE sinceCycle + 1
  /\ UNCHANGED <<registered, failCause, loop, stopRequested, pending,
                 responsive, commands>>

-----------------------------------------------------------------------------
Next ==
  \/ Start
  \/ Heartbeat
  \/ Stop
  \/ LoopExit
  \/ \E p \in Peers : \/ PingSucceeds(p)
                      \/ PingFails(p)
                      \/ AddNode(p)
                      \/ PeerChanges(p)
  \/ handleAPINodeState
  \/ Tick

Spec == Init /\ [][Next]_vars

(***************************************************************************)
(* The loop and its goroutines keep running and the clock keeps going;     *)
(* users, peers and Stop are under no obligation.  LoopExit is one branch  *)
(* of a select that chooses at random among its ready cases: offered again *)
(* and again it is taken, although a tick may be ready each time.          *)
(***************************************************************************)
Fairness ==
  /\ WF_vars(Start)
  /\ WF_vars(Heartbeat)
  /\ SF_vars(LoopExit)
  /\ WF_vars(Tick)
  /\ \A p \in Peers : WF_vars(PingSucceeds(p) \/ PingFails(p))

FairSpec == Spec /\ Fairness

-----------------------------------------------------------------------------
(* Properties. *)

\* Every variable has its type, and the cycle in progress pings registered
\* peers only, never the monitor itself.
TypeOK ==
  /\ registered \subseteq Members
  /\ member \in [Members -> MemberInfo]
  /\ failCause \in [Members -> {"none", "user", "detector"}]
  /\ loop \in {"created", "running", "exited"}
  /\ stopRequested \in BOOLEAN
  /\ pending \subseteq registered \ {Self}
  /\ sinceCycle \in Nat
  /\ sinceTick \in Nat
  /\ tickReady \in BOOLEAN
  /\ responsive \in [Peers -> BOOLEAN]
  /\ commands \in 0 .. MaxCommands

(***************************************************************************)
(* The gateway skips FAILED nodes only: a node that nobody forced to       *)
(* FAILED and that was heard from within FailTimeout is never skipped.     *)
(***************************************************************************)
NoFalseFailure ==
  \A m \in registered :
    member[m].state = "FAILED" /\ ~member[m].override
      => member[m].elapsed >= FailTimeout

\* What keeps an ALIVE peer from ageing before the first cycle judges it.
TimelyStart == StartDelay < SuspectTimeout + HeartbeatInterval

(***************************************************************************)
(* While the loop runs, a peer shown ALIVE was heard from (or revived by   *)
(* the user) at most SuspectTimeout plus two heartbeat intervals ago, even *)
(* when another slow peer stretches every ping cycle to its deadline.      *)
(***************************************************************************)
DetectionLatency ==
  loop = "running" =>
    \A p \in registered \ {Self} :
      member[p].state = "ALIVE"
        => member[p].elapsed < SuspectTimeout + 2 * HeartbeatInterval

(***************************************************************************)
(* Why it holds, as an inductive invariant.  Clocks: a cycle lasts at most *)
(* one interval, and while no tick is buffered the current cycle is no     *)
(* older than the ticker's last fire, so the next one is not late.  Ages:  *)
(* a peer that this cycle has judged was younger than SuspectTimeout then  *)
(* and has aged with the cycle since; one still waiting for its judgement  *)
(* may have aged during the whole previous cycle as well.                  *)
(***************************************************************************)
Clocks ==
  /\ loop # "running" => pending = {}
  /\ loop = "created" => sinceCycle <= StartDelay
  /\ loop = "running" =>
       /\ sinceCycle <= HeartbeatInterval
       /\ sinceTick < HeartbeatInterval
       /\ ~tickReady => sinceCycle <= sinceTick

AgeBound(p) ==
  IF loop = "created" THEN sinceCycle
  ELSE IF p \in pending
       THEN SuspectTimeout - 1 + HeartbeatInterval + sinceCycle
       ELSE SuspectTimeout - 1 + sinceCycle

Ages ==
  loop # "exited" =>
    \A p \in registered \ {Self} :
      member[p].state = "ALIVE" => member[p].elapsed <= AgeBound(p)

\* The gap between the timeouts in which a cycle is sure to end.
RoomToSuspect == FailTimeout >= SuspectTimeout + 2 * HeartbeatInterval

(***************************************************************************)
(* The anti-flapping claim of the README: the detector takes a peer        *)
(* through SUSPECTED before it declares it FAILED.  Only a manual override *)
(* goes from ALIVE to FAILED directly.                                     *)
(***************************************************************************)
SuspectedBeforeFailed ==
  [][\A m \in Members :
       member[m].state = "ALIVE" => failCause'[m] # "detector"]_vars

(***************************************************************************)
(* A peer that stays reachable ends up ALIVE for good, unless an override  *)
(* holds it FAILED; a FAILED peer is pinged like any other.                *)
(***************************************************************************)
Reachable(p) ==
  loop = "running" /\ p \in registered /\ responsive[p] /\ ~member[p].override

RecoveryIsNoticed ==
  \A p \in Peers :
    <>[]Reachable(p) => <>[](member[p].state = "ALIVE")

\* A peer that stays silent ends up FAILED for good, whatever state the user
\* put it into and however the cycles of the other peers are delayed.
Silent(p) == loop = "running" /\ p \in registered /\ ~responsive[p]

CrashIsNoticed ==
  \A p \in Peers :
    <>[]Silent(p) => <>[](member[p].state = "FAILED")

\* Stop ends the heartbeat loop, also when every cycle overruns its ticker.
StopEndsLoop == stopRequested ~> (loop = "exited")

(***************************************************************************)
(* The monitor implements the abstract detector: readers of the table need *)
(* to know nothing of clocks and cycles.  The age a member had when it was *)
(* judged, the override flag that survives in SUSPECTED and the order of   *)
(* the two comparisons all matter to this.                                 *)
(***************************************************************************)
Detector == INSTANCE FailureDetector WITH
  Nodes   <- Members,
  state   <- [m \in Members |-> member[m].state],
  forced  <- [m \in Members |-> member[m].override],
  watched <- IF loop = "running" THEN registered \ {Self} ELSE {},
  ping    <- [m \in Members |->
                IF m = Self THEN {}
                ELSE IF responsive[m] THEN {"hit"} ELSE {"miss"}]

ImplementsDetector == Detector!Spec

(***************************************************************************)
(* What the comment in recordSuccess promises: a node the user marked      *)
(* FAILED stays FAILED until the user says otherwise.                      *)
(***************************************************************************)
ManualFailSticks ==
  [][\A m \in Members :
       failCause[m] = "user" /\ commands' = commands
         => member'[m].state = "FAILED"]_vars

=============================================================================
