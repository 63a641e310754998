-------------------------- MODULE ChaosRunnerProofs -------------------------
(***************************************************************************)
(* The scorecard of ChaosRunner counts every item, for any number of       *)
(* workers, items and latencies; its percentile indexes are in bounds for  *)
(* any number of samples, and its percentiles cover the samples.           *)
(***************************************************************************)
EXTENDS ChaosRunner, SortingProofs

\* The workers between taking an item and counting it.
InFlight == {w \in Workers : pc[w] \in {"set", "get", "count"}}

\* The conjuncts the counting argument needs of the types.
Types ==
  /\ left \in Nat /\ success \in Nat /\ failed \in Nat /\ failover \in Nat
  /\ pc \in [Workers -> {"idle", "set", "get", "count", "done"}]
  /\ answer \in [Workers -> Answers]

\* An item is in the channel, with one worker, or counted.
Accounted ==
  success + failed + left + Cardinality(InFlight) = TotalRequests

\* A worker leaves its loop when the channel is empty.
DoneIsDrained == \A w \in Workers : pc[w] = "done" => left = 0

\* The inductive invariant.
ChaosInv ==
  /\ Types
  /\ Accounted
  /\ failover <= success
  /\ DoneIsDrained
  /\ VerdictCountsEveryItem

-----------------------------------------------------------------------------
\* Taking an item puts one more worker in flight.
LEMMA TakeGrowsInFlight ==
  ASSUME Types, NEW w \in Workers, pc[w] = "idle",
         pc' = [pc EXCEPT ![w] = "set"]
  PROVE  Cardinality(InFlight') = Cardinality(InFlight) + 1
         /\ Cardinality(InFlight) \in Nat
  <1>1. InFlight' = InFlight \cup {w} /\ w \notin InFlight
    BY DEF InFlight, Types
  <1>2. IsFiniteSet(InFlight)
    BY FS_Subset, ChaosAssumption DEF InFlight
  <1>3. Cardinality(InFlight) \in Nat
    BY <1>2, FS_CardinalityType
  <1>4. Cardinality(InFlight \cup {w}) = Cardinality(InFlight) + 1
    BY <1>1, <1>2, FS_AddElement
  <1> QED BY <1>1, <1>3, <1>4

\* Counting an item takes its worker out.
LEMMA CountShrinksInFlight ==
  ASSUME Types, NEW w \in Workers, pc[w] = "count",
         pc' = [pc EXCEPT ![w] = "idle"]
  PROVE  Cardinality(InFlight') = Cardinality(InFlight) - 1
         /\ Cardinality(InFlight) \in Nat
  <1>1. InFlight' = InFlight \ {w} /\ w \in InFlight
    BY DEF InFlight, Types
  <1>2. IsFiniteSet(InFlight)
    BY FS_Subset, ChaosAssumption DEF InFlight
  <1>3. Cardinality(InFlight) \in Nat
    BY <1>2, FS_CardinalityType
  <1>4. Cardinality(InFlight \ {w}) = Cardinality(InFlight) - 1
    BY <1>1, <1>2, FS_RemoveElement
  <1> QED BY <1>1, <1>3, <1>4

\* No other step of a worker changes who is in flight.
LEMMA OthersKeepInFlight ==
  ASSUME Types, NEW w \in Workers, NEW from, NEW to, Goto(w, from, to),
         \/ from = "set" /\ to = "get"
         \/ from = "get" /\ to = "count"
         \/ from = "idle" /\ to = "done"
  PROVE  InFlight' = InFlight
  BY DEF InFlight, Types, Goto

\* When all workers have ended, the channel is empty and no item is in flight.
LEMMA DrainedAtTheEnd ==
  ASSUME ChaosInv, \A w \in Workers : pc[w] = "done"
  PROVE  success + failed = TotalRequests
  <1>1. left = 0
    BY ChaosAssumption DEF ChaosInv, DoneIsDrained
  <1>2. InFlight = {}
    BY DEF InFlight
  <1>3. Cardinality(InFlight) = 0
    BY <1>2, FS_EmptySet
  <1> QED BY <1>1, <1>3 DEF ChaosInv, Types, Accounted

-----------------------------------------------------------------------------
\* The initial states: everything is in the channel.
LEMMA ChaosInit == Init => ChaosInv
  <1> SUFFICES ASSUME Init PROVE ChaosInv
    OBVIOUS
  <1>1. Types
    BY ChaosAssumption DEF Init, Types, Answers
  <1>2. InFlight = {}
    BY DEF Init, InFlight
  <1>3. Accounted
    BY <1>2, FS_EmptySet, ChaosAssumption DEF Init, Accounted
  <1>4. failover <= success /\ DoneIsDrained /\ VerdictCountsEveryItem
    BY DEF Init, DoneIsDrained, VerdictCountsEveryItem
  <1> QED BY <1>1, <1>3, <1>4 DEF ChaosInv

\* Every step keeps the accounts.
LEMMA ChaosStep == ChaosInv /\ [Next]_vars => ChaosInv'
  <1> SUFFICES ASSUME ChaosInv, [Next]_vars PROVE ChaosInv'
    OBVIOUS
  <1> USE DEF ChaosInv
  <1>1. ASSUME NEW w \in Workers, Take(w) PROVE ChaosInv'
    <2>1. CASE Goto(w, "idle", "set") /\ left > 0 /\ left' = left - 1
      <3>1. Types' /\ UNCHANGED <<success, failed, failover, card>>
        BY <1>1, <2>1 DEF Take, Goto, Types
      <3>2. /\ Cardinality(InFlight') = Cardinality(InFlight) + 1
            /\ Cardinality(InFlight) \in Nat
        BY <2>1, TakeGrowsInFlight DEF Goto
      <3>3. Accounted'
        BY <2>1, <3>1, <3>2 DEF Accounted, Types
      <3>4. DoneIsDrained'
        BY <2>1 DEF Goto, DoneIsDrained, Types
      <3> QED BY <3>1, <3>3, <3>4 DEF VerdictCountsEveryItem
    <2>2. CASE Goto(w, "idle", "done") /\ left = 0 /\ left' = left
      <3>1. Types' /\ UNCHANGED <<success, failed, failover, card>>
        BY <1>1, <2>2 DEF Take, Goto, Types
      <3>2. InFlight' = InFlight
        BY <2>2, OthersKeepInFlight
      <3>3. Accounted' /\ DoneIsDrained'
        BY <2>2, <3>1, <3>2 DEF Accounted, DoneIsDrained
      <3> QED BY <3>1, <3>3 DEF VerdictCountsEveryItem
    <2> QED BY <1>1, <2>1, <2>2 DEF Take
  <1>2. ASSUME NEW w \in Workers, Set(w) \/ Get(w) PROVE ChaosInv'
    <2>1. Types' /\ UNCHANGED <<left, success, failed, failover, card>>
      BY <1>2 DEF Set, Get, Goto, Types
    <2>2. InFlight' = InFlight
      BY <1>2, OthersKeepInFlight DEF Set, Get
    <2>3. Accounted'
      BY <2>1, <2>2 DEF Accounted
    <2>4. DoneIsDrained'
      BY <1>2, <2>1 DEF Set, Get, Goto, DoneIsDrained, Types
    <2> QED BY <2>1, <2>3, <2>4 DEF VerdictCountsEveryItem
  <1>3. ASSUME NEW w \in Workers, Count(w) PROVE ChaosInv'
    <2>1. UNCHANGED <<left, answer, card>>
          /\ pc[w] = "count" /\ pc' = [pc EXCEPT ![w] = "idle"]
      BY <1>3 DEF Count, Goto
    <2>2. /\ success' \in Nat /\ failed' \in Nat /\ failover' \in Nat
          /\ failover' <= success'
          /\ success' + failed' = (success + failed) + 1
      <3>1. answer[w] \in Answers
        BY DEF Types
      <3> QED BY <1>3, <3>1 DEF Count, Types, Answers, Hits
    <2>3. Types'
      BY <2>1, <2>2 DEF Types
    <2>4. /\ Cardinality(InFlight') = Cardinality(InFlight) - 1
          /\ Cardinality(InFlight) \in Nat
      BY <2>1, CountShrinksInFlight
    <2>5. Accounted'
      <3>1. success \in Nat /\ failed \in Nat /\ left \in Nat
        BY DEF Types
      <3>2. success + failed + left + Cardinality(InFlight) = TotalRequests
        BY DEF Accounted
      <3>3. success' + failed' + left + Cardinality(InFlight') = TotalRequests
        <4> DEFINE c == Cardinality(InFlight)
                   d == Cardinality(InFlight')
        <4>1. c \in Int /\ d \in Int /\ d = c - 1
          BY <2>4
        <4>2. success + failed + left + c = TotalRequests
          BY <3>2
        <4> HIDE DEF c, d
        <4>3. (success + failed) + 1 + left + d = TotalRequests
          BY <3>1, <4>1, <4>2
        <4>4. success' + failed' + left + d = TotalRequests
          BY <2>2, <4>3
        <4> QED BY <4>4 DEF d
      <3>4. left' = left
        BY <2>1
      <3> QED BY <3>3, <3>4 DEF Accounted
    <2>6. DoneIsDrained'
      BY <2>1 DEF DoneIsDrained, Types
    <2> QED BY <2>1, <2>2, <2>3, <2>5, <2>6 DEF VerdictCountsEveryItem
  <1>4. CASE Report
    <2>1. UNCHANGED <<left, pc, answer, success, failed, failover>>
      BY <1>4 DEF Report, workVars
    <2>2. success + failed = TotalRequests
      BY <1>4, DrainedAtTheEnd DEF Report
    <2>3. /\ card'.success = success /\ card'.failed = failed
          /\ card'.failover = failover
          /\ card'.verdict = Verdict(success, success + failed)
      BY <1>4 DEF Report
    <2>4. VerdictCountsEveryItem'
      BY <2>2, <2>3 DEF VerdictCountsEveryItem, Verdict, Types
    <2> QED BY <2>1, <2>4 DEF Types, Accounted, InFlight, DoneIsDrained
  <1>5. CASE Chaos \/ Exit \/ UNCHANGED vars
    <2>1. UNCHANGED <<left, pc, answer, success, failed, failover, card>>
      BY <1>5 DEF Chaos, Exit, vars, workVars
    <2> QED BY <2>1 DEF Types, Accounted, InFlight, DoneIsDrained,
                        VerdictCountsEveryItem
  <1> QED BY <1>1, <1>2, <1>3, <1>4, <1>5 DEF Next

(***************************************************************************)
(* For any workers, items and scenarios: the scorecard counts every item   *)
(* once and its verdict is about all of them (Run's counters and wg.Wait). *)
(***************************************************************************)
THEOREM ScorecardIsComplete == Spec => []VerdictCountsEveryItem
  <1>1. ChaosInv => VerdictCountsEveryItem
    BY DEF ChaosInv
  <1> QED BY <1>1, ChaosInit, ChaosStep, PTL DEF Spec

(***************************************************************************)
(* The index int(float64(n)*p) is one of n sorted samples, for every n > 0 *)
(* and share below 100 percent, and the samples up to it are at least that *)
(* share: the reason for PercentilesCoverSamples, and that Run does not    *)
(* index past the end at the sizes (20, 100) where n*p is a whole number.  *)
(***************************************************************************)
THEOREM PercentileIndexCovers ==
  ASSUME NEW n \in Nat \ {0}, NEW p \in 0 .. 99
  PROVE  LET i == (n * p) \div 100 + 1
         IN  i \in 1 .. n /\ 100 * i >= p * n
  <1> DEFINE m == n * p
  <1>1. m \in Nat
    OBVIOUS
  <1>2. m < 100 * n
    OBVIOUS
  <1>3. p * n = m
    OBVIOUS
  <1> HIDE DEF m
  <1>4. m \div 100 \in Nat /\ 100 * (m \div 100) <= m
        /\ m < 100 * (m \div 100) + 100
    BY <1>1
  <1>5. m \div 100 + 1 \in 1 .. n /\ 100 * (m \div 100 + 1) >= m
    BY <1>1, <1>2, <1>4
  <1> QED BY <1>3, <1>5 DEF m

-----------------------------------------------------------------------------
(* Types, and the timeline. *)

\* Every script that does anything records the trigger first.
LEMMA ScriptShape ==
  ASSUME NEW s \in ScenarioNames
  PROVE  /\ Len(Script[s]) \in Nat
         /\ Len(Script[s]) >= 1 => Script[s][1].op = "event"
  <1>1. CASE s = "primary_kill"
    <2>1. Script[s] = <<Event, Kill("C")>>
      BY <1>1 DEF Script
    <2> QED BY <2>1 DEF Event
  <1>2. CASE s = "node_flap"
    <2>1. Script[s] = <<Event, Kill("C"), Start("C"), Event>>
      BY <1>2 DEF Script
    <2> QED BY <2>1 DEF Event
  <1>3. CASE s = "cascading_failure"
    <2>1. Script[s] = <<Event, Kill("C"), Kill("B")>>
      BY <1>3 DEF Script
    <2> QED BY <2>1 DEF Event
  <1>4. CASE s = "heavy_concurrent_load"
    <2>1. Script[s] = <<>>
      BY <1>4 DEF Script
    <2> QED BY <2>1
  <1> QED BY <1>1, <1>2, <1>3, <1>4 DEF ScenarioNames

ScenarioKnown == scenario \in ScenarioNames

LEMMA ScenarioStays == ScenarioKnown /\ [Next]_vars => UNCHANGED scenario
  BY DEF Next, vars, Take, Set, Get, Count, Chaos, Report, Exit

\* A scorecard is not the empty one.
LEMMA ReportMakesCard == Report => card' # NoCard
  <1> SUFFICES ASSUME Report PROVE card' # NoCard
    OBVIOUS
  <1>1. "total" \in DOMAIN card'
    BY DEF Report
  <1>2. DOMAIN NoCard = {}
    BY DEF NoCard
  <1> QED BY <1>1, <1>2

LEMMA TypeStep == ScenarioKnown /\ TypeOK /\ [Next]_vars => TypeOK'
  <1> SUFFICES ASSUME ScenarioKnown, TypeOK, [Next]_vars PROVE TypeOK'
    OBVIOUS
  <1> USE DEF TypeOK
  <1> DEFINE last == Len(Script[scenario])
  <1>1. last \in Nat /\ last' = last
    BY ScriptShape, ScenarioStays DEF ScenarioKnown
  <1> HIDE DEF last
  <1>2. step \in 1 .. last + 1 /\ events \subseteq 1 .. last
    BY DEF last
  <1>3. ASSUME NEW w \in Workers, Take(w) \/ Set(w) \/ Get(w) \/ Count(w)
        PROVE  TypeOK'
    <2>1. UNCHANGED <<chaosVars, main, card, scenario>>
      BY <1>3 DEF Take, Set, Get, Count
    <2>2. left' \in 0 .. TotalRequests
      BY <1>3, ChaosAssumption DEF Take, Set, Get, Count
    <2>3. pc' \in [Workers -> {"idle", "set", "get", "count", "done"}]
      BY <1>3 DEF Take, Set, Get, Count, Goto
    <2>4. answer' \in [Workers -> Answers] /\ latencies' \in Seq(Latencies)
      <3>1. CASE Get(w)
        <4>1. answer' \in [Workers -> Answers]
          BY <3>1 DEF Get
        <4>2. PICK lat \in Latencies : latencies' = Append(latencies, lat)
          BY <3>1 DEF Get
        <4>3. latencies' \in Seq(Latencies)
          BY <4>2
        <4> QED BY <4>1, <4>3
      <3>2. CASE ~Get(w)
        BY <1>3, <3>2 DEF Take, Set, Count
      <3> QED BY <3>1, <3>2
    <2> QED BY <2>1, <2>2, <2>3, <2>4 DEF chaosVars
  <1>4. CASE Chaos
    <2>1. UNCHANGED <<scenario, workVars, main, card>>
      BY <1>4 DEF Chaos
    <2>2. step <= last
      BY <1>4 DEF Chaos, last
    <2>3. (step' = step \/ step' = step + 1)
          /\ (events' = events \/ events' = events \cup {step})
      BY <1>4 DEF Chaos
    <2>4. step' \in 1 .. last + 1 /\ events' \subseteq 1 .. last
      <3>1. step \in 1 .. last /\ step + 1 \in 1 .. last + 1
        BY <1>1, <1>2, <2>2
      <3>2. events \cup {step} \subseteq 1 .. last
        BY <1>2, <3>1
      <3> QED BY <1>2, <2>3, <3>1, <3>2
    <2>5. step' \in 1 .. Len(Script[scenario']) + 1
          /\ events' \subseteq 1 .. Len(Script[scenario'])
      BY <2>1, <2>4 DEF last
    <2> QED BY <2>1, <2>5 DEF workVars
  <1>5. CASE Report
    <2>1. UNCHANGED <<scenario, workVars, chaosVars>> /\ main' = "printing"
      BY <1>5 DEF Report
    <2>2. card' # NoCard
      BY <1>5, ReportMakesCard
    <2> QED BY <2>1, <2>2 DEF workVars, chaosVars
  <1>6. CASE Exit
    BY <1>6 DEF Exit, workVars, chaosVars
  <1>7. CASE UNCHANGED vars
    BY <1>7 DEF vars, workVars, chaosVars
  <1> QED BY <1>3, <1>4, <1>5, <1>6, <1>7 DEF Next

LEMMA KnownAndTyped == Spec => [](ScenarioKnown /\ TypeOK)
  <1>1. Init => ScenarioKnown
    BY ChaosAssumption DEF Init, ScenarioKnown
  <1>2. Init => TypeOK
    <2> SUFFICES ASSUME Init PROVE TypeOK
      OBVIOUS
    <2>1. Len(Script[scenario]) \in Nat
      BY <1>1, ScriptShape DEF ScenarioKnown
    <2> QED BY <2>1, ChaosAssumption DEF Init, TypeOK, Answers
  <1>3. ScenarioKnown /\ TypeOK /\ [Next]_vars => (ScenarioKnown /\ TypeOK)'
    BY TypeStep, ScenarioStays DEF ScenarioKnown
  <1> QED BY <1>1, <1>2, <1>3, PTL DEF Spec

(***************************************************************************)
(* The variables of the experiment keep their types: the channel is never  *)
(* read below empty, the chaos goroutine stays within its script, and      *)
(* there is a scorecard exactly from the end of wg.Wait on.                *)
(***************************************************************************)
THEOREM ChaosTypeCorrect == Spec => []TypeOK
  BY KnownAndTyped, PTL

\* No node is stopped before the trigger is recorded, and what is recorded
\* stays: a read of the slice that races with an append sees it.
TriggerFirst ==
  /\ step = 1 => down = {}
  /\ step # 1 => 1 \in events
  /\ TimelineExplainsOutage

LEMMA TriggerStep ==
  ScenarioKnown /\ TypeOK /\ TriggerFirst /\ [Next]_vars => TriggerFirst'
  <1> SUFFICES ASSUME ScenarioKnown, TypeOK, TriggerFirst, [Next]_vars
               PROVE  TriggerFirst'
    OBVIOUS
  <1> USE DEF TriggerFirst
  <1>1. ASSUME NEW w \in Workers, Take(w) \/ Set(w) \/ Get(w) \/ Count(w)
        PROVE  TriggerFirst'
    BY <1>1 DEF Take, Set, Get, Count, chaosVars, TimelineExplainsOutage
  <1>2. CASE Chaos
    <2>1. step \in Nat \ {0} /\ step <= Len(Script[scenario])
          /\ Len(Script[scenario]) \in Nat
      BY <1>2, ScriptShape DEF Chaos, TypeOK, ScenarioKnown
    <2>2. step = 1 => Line.op = "event"
      BY <2>1, ScriptShape DEF Line, ScenarioKnown
    <2>3. CASE Line.op = "event"
      <3>1. UNCHANGED <<down, card>>
            /\ \/ UNCHANGED <<step, events>>
               \/ step' = step + 1 /\ events' = events \cup {step}
        BY <1>2, <2>3 DEF Chaos
      <3> QED BY <2>1, <3>1 DEF TimelineExplainsOutage
    <2>4. CASE Line.op # "event"
      <3>1. step' = step + 1 /\ UNCHANGED <<events, card>>
        BY <1>2, <2>4 DEF Chaos
      <3> QED BY <2>1, <2>2, <2>4, <3>1 DEF TimelineExplainsOutage
    <2> QED BY <2>3, <2>4
  <1>3. CASE Report
    <2>1. UNCHANGED chaosVars
      BY <1>3 DEF Report
    <2>2. PICK timeline \in Timelines :
            card'.events = timeline /\ card'.outage = down
      BY <1>3 DEF Report
    <2>3. events \subseteq timeline
      BY <2>2 DEF Timelines
    <2> QED BY <2>1, <2>2, <2>3 DEF chaosVars, TimelineExplainsOutage
  <1>4. CASE Exit \/ UNCHANGED vars
    BY <1>4 DEF Exit, vars, chaosVars, TimelineExplainsOutage
  <1> QED BY <1>1, <1>2, <1>3, <1>4 DEF Next

(***************************************************************************)
(* If a node was down when the scorecard was made, its timeline shows the  *)
(* trigger, in every scenario, although Run reads the slice of events      *)
(* without the mutex that recordEvent appends under.                       *)
(***************************************************************************)
THEOREM OutagesAreExplained == Spec => []TimelineExplainsOutage
  <1>1. Init => TriggerFirst
    BY DEF Init, TriggerFirst, TimelineExplainsOutage
  <1>2. TriggerFirst => TimelineExplainsOutage
    BY DEF TriggerFirst
  <1> QED BY <1>1, <1>2, TriggerStep, KnownAndTyped, PTL DEF Spec

-----------------------------------------------------------------------------
(* The percentiles. *)

\* The workers that have measured an item and not yet counted it.
Counting == {w \in Workers : pc[w] = "count"}

(***************************************************************************)
(* There is one sample per item that is counted or about to be, and the    *)
(* scorecard is made when no worker can measure any more: so the samples   *)
(* it was made of are all there are, and as many as there are items.       *)
(***************************************************************************)
SampleInv ==
  /\ Len(latencies) = success + failed + Cardinality(Counting)
  /\ card # NoCard => \A w \in Workers : pc[w] = "done"
  /\ PercentilesCoverSamples

LEMMA CountingFinite == IsFiniteSet(Counting) /\ Cardinality(Counting) \in Nat
  <1>1. IsFiniteSet(Counting)
    BY FS_Subset, ChaosAssumption DEF Counting
  <1> QED BY <1>1, FS_CardinalityType

\* A percentile's bound covers its share of the samples.
LEMMA BoundCovers ==
  ASSUME NEW s \in Seq(Int), NEW i \in 1 .. Len(s), NEW share \in Nat,
         100 * i >= share
  PROVE  100 * Cardinality({j \in DOMAIN s : s[j] <= Sort(s)[i]}) >= share
  <1> DEFINE c == Cardinality({j \in DOMAIN s : s[j] <= Sort(s)[i]})
  <1>1. c \in Nat /\ c >= i /\ i \in Nat
    BY SortCounts
  <1> HIDE DEF c
  <1>2. 100 * c >= share
    BY <1>1
  <1> QED BY <1>2 DEF c

\* The indexes of the percentiles are in order.
LEMMA IndexesInOrder ==
  ASSUME NEW n \in Nat \ {0}
  PROVE  LET at(p) == (n * p) \div 100 + 1
         IN  /\ at(50) \in 1 .. n /\ at(95) \in 1 .. n /\ at(99) \in 1 .. n
             /\ at(50) <= at(95) /\ at(95) <= at(99)
             /\ 100 * at(50) >= 50 * n /\ 100 * at(95) >= 95 * n
             /\ 100 * at(99) >= 99 * n
  OBVIOUS

LEMMA ReportCovers ==
  ASSUME ScenarioKnown, TypeOK, ChaosInv, SampleInv, Report
  PROVE  PercentilesCoverSamples'
  <1> DEFINE n == TotalRequests
             sorted == Sort(latencies)
             at(p) == (n * p) \div 100 + 1
             covers(bound, p) ==
               100 * Cardinality({i \in DOMAIN latencies : latencies[i] <= bound})
                 >= p * n
  <1>1. \A w \in Workers : pc[w] = "done"
    BY DEF Report
  <1>2. Len(latencies) = n
    <2>1. success + failed = n
      BY <1>1, DrainedAtTheEnd
    <2>2. Counting = {}
      BY <1>1 DEF Counting
    <2>3. Cardinality(Counting) = 0
      BY <2>2, FS_EmptySet
    <2> QED BY <2>1, <2>3, ChaosAssumption DEF SampleInv
  <1>3. latencies \in Seq(Int) /\ n \in Nat \ {0}
    <2>1. latencies \in Seq(Latencies) /\ Latencies \subseteq Int
      BY ChaosAssumption DEF TypeOK
    <2>2. n \in Nat \ {0}
      BY ChaosAssumption
    <2>3. latencies = [i \in 1 .. Len(latencies) |-> latencies[i]]
          /\ Len(latencies) \in Nat
      BY <2>1
    <2>4. \A i \in 1 .. Len(latencies) : latencies[i] \in Latencies
      BY <2>1
    <2>5. \A i \in 1 .. Len(latencies) : latencies[i] \in Int
      BY <2>1, <2>4
    <2>6. latencies \in Seq(Int)
      BY <2>3, <2>5
    <2> QED BY <2>2, <2>6
  <1>4. /\ Len(sorted) = n
        /\ \A i, j \in 1 .. n : i <= j => sorted[i] <= sorted[j]
    BY <1>2, <1>3, SortSorts
  <1>5. /\ at(50) \in 1 .. n /\ at(95) \in 1 .. n /\ at(99) \in 1 .. n
        /\ at(50) <= at(95) /\ at(95) <= at(99)
        /\ 100 * at(50) >= 50 * n /\ 100 * at(95) >= 95 * n
        /\ 100 * at(99) >= 99 * n
    BY <1>3, IndexesInOrder
  <1>6. /\ card'.min = sorted[1] /\ card'.max = sorted[n]
        /\ card'.p50 = sorted[at(50)] /\ card'.p95 = sorted[at(95)]
        /\ card'.p99 = sorted[at(99)]
        /\ latencies' = latencies
    <2> HIDE DEF sorted
    <2>1. SortedLatencies = sorted
      BY DEF SortedLatencies, sorted
    <2>2. UNCHANGED latencies
      BY DEF Report, workVars
    <2>3. \E timeline, tot, verdict :
            card' = [total |-> tot, success |-> success, failed |-> failed,
                     failover |-> failover,
                     min |-> sorted[1], max |-> sorted[Len(sorted)],
                     p50 |-> Percentile(sorted, 50),
                     p95 |-> Percentile(sorted, 95),
                     p99 |-> Percentile(sorted, 99),
                     events |-> timeline, verdict |-> verdict, outage |-> down]
      BY <2>1 DEF Report
    <2>4. /\ card'.min = sorted[1] /\ card'.max = sorted[Len(sorted)]
          /\ card'.p50 = Percentile(sorted, 50)
          /\ card'.p95 = Percentile(sorted, 95)
          /\ card'.p99 = Percentile(sorted, 99)
      BY <2>3
    <2> QED BY <1>4, <2>2, <2>4 DEF Percentile
  <1> HIDE DEF sorted, at, n
  <1>7. covers(sorted[at(50)], 50) /\ covers(sorted[at(95)], 95)
        /\ covers(sorted[at(99)], 99) /\ covers(sorted[n], 100)
    <2>1. 50 * n \in Nat /\ 95 * n \in Nat /\ 99 * n \in Nat /\ 100 * n \in Nat
          /\ n \in 1 .. n /\ 100 * n >= 100 * n
      BY <1>3
    <2>2. covers(sorted[at(50)], 50)
      BY <1>2, <1>3, <1>5, <2>1, BoundCovers DEF sorted
    <2>3. covers(sorted[at(95)], 95)
      BY <1>2, <1>3, <1>5, <2>1, BoundCovers DEF sorted
    <2>4. covers(sorted[at(99)], 99)
      BY <1>2, <1>3, <1>5, <2>1, BoundCovers DEF sorted
    <2>5. covers(sorted[n], 100)
      BY <1>2, <1>3, <1>5, <2>1, BoundCovers DEF sorted
    <2> QED BY <2>2, <2>3, <2>4, <2>5
  <1>8. /\ sorted[1] <= sorted[at(50)] /\ sorted[at(50)] <= sorted[at(95)]
        /\ sorted[at(95)] <= sorted[at(99)] /\ sorted[at(99)] <= sorted[n]
    <2>1. 1 \in 1 .. n /\ n \in 1 .. n /\ 1 <= at(50) /\ at(99) <= n
      BY <1>3, <1>5
    <2> QED BY <1>4, <1>5, <2>1
  <1> HIDE DEF covers
  <1> QED BY <1>6, <1>7, <1>8 DEF PercentilesCoverSamples, n, covers

LEMMA SampleStep ==
  ScenarioKnown /\ TypeOK /\ ChaosInv /\ SampleInv /\ [Next]_vars => SampleInv'
  <1> SUFFICES ASSUME ScenarioKnown, TypeOK, ChaosInv, SampleInv, [Next]_vars
               PROVE  SampleInv'
    OBVIOUS
  <1>0. /\ IsFiniteSet(Counting) /\ Cardinality(Counting) \in Nat
        /\ success \in Nat /\ failed \in Nat
        /\ pc \in [Workers -> {"idle", "set", "get", "count", "done"}]
    BY CountingFinite DEF ChaosInv, Types
  <1>1. ASSUME NEW w \in Workers, Take(w) \/ Set(w) PROVE SampleInv'
    <2>1. UNCHANGED <<success, failed, latencies, card>> /\ pc[w] # "done"
      BY <1>1 DEF Take, Set, Goto
    <2>2. Counting' = Counting
      BY <1>0, <1>1 DEF Take, Set, Goto, Counting
    <2>3. card = NoCard
      BY <2>1 DEF SampleInv
    <2> QED BY <2>1, <2>2, <2>3 DEF SampleInv, PercentilesCoverSamples
  <1>2. ASSUME NEW w \in Workers, Get(w) PROVE SampleInv'
    <2>1. UNCHANGED <<success, failed, card>> /\ pc[w] = "get"
      BY <1>2 DEF Get, Goto
    <2>2. Counting' = Counting \cup {w} /\ w \notin Counting
      BY <1>0, <1>2 DEF Get, Goto, Counting
    <2>3. Cardinality(Counting') = Cardinality(Counting) + 1
      BY <1>0, <2>2, FS_AddElement
    <2>4. Len(latencies') = Len(latencies) + 1
      BY <1>2 DEF Get, TypeOK
    <2>5. card = NoCard
      BY <2>1 DEF SampleInv
    <2> QED BY <1>0, <2>1, <2>3, <2>4, <2>5 DEF SampleInv, PercentilesCoverSamples
  <1>3. ASSUME NEW w \in Workers, Count(w) PROVE SampleInv'
    <2>1. UNCHANGED <<latencies, card>> /\ pc[w] = "count"
      BY <1>3 DEF Count, Goto
    <2>2. Counting' = Counting \ {w} /\ w \in Counting
      BY <1>0, <1>3 DEF Count, Goto, Counting
    <2>3. Cardinality(Counting') = Cardinality(Counting) - 1
      BY <1>0, <2>2, FS_RemoveElement
    <2>4. success' + failed' = success + failed + 1
      BY <1>0, <1>3 DEF Count, ChaosInv, Types, Answers, Hits
    <2>5. success' \in Nat /\ failed' \in Nat
      BY <1>0, <1>3 DEF Count
    <2>6. card = NoCard
      BY <2>1 DEF SampleInv
    <2>7. Len(latencies') = success' + failed' + Cardinality(Counting')
      <3>1. Len(latencies') = success + failed + Cardinality(Counting)
        BY <2>1 DEF SampleInv
      <3> DEFINE c == Cardinality(Counting)
      <3>2. c \in Nat /\ Cardinality(Counting') = c - 1
        BY <1>0, <2>3
      <3>3. Len(latencies') = success + failed + c
        BY <3>1
      <3> HIDE DEF c
      <3>4. success \in Nat /\ failed \in Nat /\ success' \in Nat /\ failed' \in Nat
        BY <1>0, <2>5
      <3>5. success' + failed' + (c - 1) = success + failed + c
        <4>1. success + failed \in Int /\ success' + failed' \in Int /\ c \in Int
          BY <3>2, <3>4
        <4> DEFINE t == success + failed
                   u == success' + failed'
        <4>2. u = t + 1
          BY <2>4
        <4> HIDE DEF t, u
        <4>3. u + (c - 1) = t + c
          BY <4>1, <4>2 DEF t, u
        <4> QED BY <4>3 DEF t, u
      <3> QED BY <3>2, <3>3, <3>5
    <2> QED BY <2>1, <2>6, <2>7 DEF SampleInv, PercentilesCoverSamples
  <1>4. CASE Chaos
    BY <1>4 DEF Chaos, workVars, SampleInv, Counting, PercentilesCoverSamples
  <1>5. CASE Report
    BY <1>5, ReportCovers DEF Report, workVars, SampleInv, Counting
  <1>6. CASE Exit \/ UNCHANGED vars
    BY <1>6 DEF Exit, vars, workVars, SampleInv, Counting, PercentilesCoverSamples
  <1> QED BY <1>1, <1>2, <1>3, <1>4, <1>5, <1>6 DEF Next

(***************************************************************************)
(* The percentiles of the scorecard cover the samples and do not decrease, *)
(* for any number of workers, items and latencies and any order in which   *)
(* the workers append to the slice (the sort and the indexes of Run).      *)
(***************************************************************************)
THEOREM PercentilesAreRight == Spec => []PercentilesCoverSamples
  <1>1. Init => SampleInv
    <2> SUFFICES ASSUME Init PROVE SampleInv
      OBVIOUS
    <2>1. Counting = {}
      BY DEF Init, Counting
    <2>2. Cardinality(Counting) = 0
      BY <2>1, FS_EmptySet
    <2> QED BY <2>2 DEF Init, SampleInv, PercentilesCoverSamples
  <1>2. SampleInv => PercentilesCoverSamples
    BY DEF SampleInv
  <1> QED BY <1>1, <1>2, SampleStep, KnownAndTyped, ChaosInit, ChaosStep, PTL DEF Spec

=============================================================================
