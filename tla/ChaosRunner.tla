---------------------------- MODULE ChaosRunner -----------------------------
(***************************************************************************)
(* The chaos experiment (internal/chaos, cmd/chaos): workers drain a       *)
(* closed channel of work items, writing and reading each through the      *)
(* gateway; one more goroutine, which nobody waits for, stops and starts   *)
(* nodes; when the workers have ended, Run fills in the scorecard and main *)
(* prints a verdict and exits.                                             *)
(*                                                                         *)
(* The gateway's answers are free: a request ends with an answer or by the *)
(* client's 2 s timeout, whatever the cluster does.                        *)
(***************************************************************************)
EXTENDS Sorting, TLC

CONSTANTS
  Workers,         \* r.config.Concurrency goroutines
  TotalRequests,
  Scenarios,       \* the scenarios to run
  Latencies        \* what a request may take, in some unit

ScenarioNames == {"primary_kill", "node_flap", "cascading_failure",
                  "heavy_concurrent_load"}

ASSUME ChaosAssumption ==
  /\ Scenarios \subseteq ScenarioNames
  /\ IsFiniteSet(Workers) /\ Workers # {}
  /\ TotalRequests \in Nat \ {0}       \* NewRunner: 50 unless positive
  /\ Latencies \subseteq Nat

VARIABLES
  scenario,
  left,        \* items in workChan
  pc,          \* of each worker
  answer,      \* the answer to its GET that a worker is about to count
  success, failed, failover,
  latencies,   \* in the order they were measured
  step,        \* the next line of the chaos script
  appending,   \* recordEvent is writing the slice header
  events,      \* the script lines whose events are recorded
  down,        \* nodes stopped by the hook
  main,        \* waiting (wg.Wait), printing or exited
  card         \* the scorecard

workVars  == <<left, pc, answer, success, failed, failover, latencies>>
chaosVars == <<step, appending, events, down>>
vars == <<scenario, workVars, chaosVars, main, card>>

Answers == {"hit", "failover_hit", "miss", "error"}
Hits    == {"hit", "failover_hit"}
Garbage == 0
NoCard  == <<>>

Event       == [op |-> "event", node |-> "none"]
Kill(node)  == [op |-> "kill", node |-> node]
Start(node) == [op |-> "start", node |-> node]

\* Variant of Script: nodes are stopped before the trigger is recorded.
ScriptKillFirst ==
  [primary_kill          |-> <<Kill("C"), Event>>,
   node_flap             |-> <<Kill("C"), Event, Start("C"), Event>>,
   cascading_failure     |-> <<Kill("C"), Event, Kill("B")>>,
   heavy_concurrent_load |-> <<>>]

\* The chaos goroutine, after its delay.
Script ==
  [primary_kill          |-> <<Event, Kill("C")>>,
   node_flap             |-> <<Event, Kill("C"), Start("C"), Event>>,
   cascading_failure     |-> <<Event, Kill("C"), Kill("B")>>,
   heavy_concurrent_load |-> <<>>]

Init ==
  /\ scenario \in Scenarios
  /\ left = TotalRequests
  /\ pc = [w \in Workers |-> "idle"]
  /\ answer = [w \in Workers |-> "error"]
  /\ success = 0 /\ failed = 0 /\ failover = 0
  /\ latencies = <<>>
  /\ step = 1 /\ appending = FALSE /\ events = {} /\ down = {}
  /\ main = "waiting"
  /\ card = NoCard

-----------------------------------------------------------------------------
(* A worker. *)

Goto(w, from, to) == pc[w] = from /\ pc' = [pc EXCEPT ![w] = to]

\* Variant of Take: the channel is not closed, so the loop never ends.
TakeFromOpen(w) ==
  /\ Goto(w, "idle", "set") /\ left > 0 /\ left' = left - 1
  /\ UNCHANGED <<scenario, answer, success, failed, failover, latencies,
                 chaosVars, main, card>>

\* Variant of Take: the closed channel is read without looking at ok.
TakeWithoutOk(w) ==
  /\ Goto(w, "idle", "set") /\ left' = left - 1
  /\ UNCHANGED <<scenario, answer, success, failed, failover, latencies,
                 chaosVars, main, card>>

\* for item := range workChan
Take(w) ==
  /\ \/ Goto(w, "idle", "set") /\ left > 0 /\ left' = left - 1
     \/ Goto(w, "idle", "done") /\ left = 0 /\ left' = left
  /\ UNCHANGED <<scenario, answer, success, failed, failover, latencies,
                 chaosVars, main, card>>

\* POST /api/set; whether it succeeds makes no difference to what follows.
Set(w) ==
  /\ Goto(w, "set", "get")
  /\ UNCHANGED <<scenario, left, answer, success, failed, failover, latencies,
                 chaosVars, main, card>>

\* GET /api/get, and the latency of both requests.
Get(w) ==
  /\ Goto(w, "get", "count")
  /\ \E a \in Answers : answer' = [answer EXCEPT ![w] = a]
  /\ \E lat \in Latencies : latencies' = Append(latencies, lat)
  /\ UNCHANGED <<scenario, left, success, failed, failover, chaosVars, main,
                 card>>

\* Variant of Count: an item whose GET fails is left out.
CountAnswered(w) ==
  /\ Goto(w, "count", "idle")
  /\ success' = success + (IF answer[w] \in Hits THEN 1 ELSE 0)
  /\ failover' = failover + (IF answer[w] = "failover_hit" THEN 1 ELSE 0)
  /\ failed' = failed + (IF answer[w] = "miss" THEN 1 ELSE 0)
  /\ UNCHANGED <<scenario, left, answer, latencies, chaosVars, main, card>>

\* A hit is a success, whatever its value; everything else is a failure.
Count(w) ==
  /\ Goto(w, "count", "idle")
  /\ success' = success + (IF answer[w] \in Hits THEN 1 ELSE 0)
  /\ failover' = failover + (IF answer[w] = "failover_hit" THEN 1 ELSE 0)
  /\ failed' = failed + (IF answer[w] \in {"miss", "error"} THEN 1 ELSE 0)
  /\ UNCHANGED <<scenario, left, answer, latencies, chaosVars, main, card>>

-----------------------------------------------------------------------------
(* The chaos goroutine. *)

Line == Script[scenario][step]

\* The hook's error is ignored: the node may be as it was.
NodeProcessHook(now) == down' = now \/ down' = down

\* recordEvent takes two steps: Run reads the slice without its mutex.
Chaos ==
  /\ main # "exited"
  /\ step <= Len(Script[scenario])
  /\ \/ /\ Line.op = "event" /\ ~appending
        /\ appending' = TRUE
        /\ UNCHANGED <<step, events, down>>
     \/ /\ Line.op = "event" /\ appending
        /\ appending' = FALSE
        /\ events' = events \cup {step}
        /\ step' = step + 1
        /\ UNCHANGED down
     \/ /\ \/ Line.op = "kill" /\ NodeProcessHook(down \cup {Line.node})
           \/ Line.op = "start" /\ NodeProcessHook(down \ {Line.node})
        /\ step' = step + 1
        /\ UNCHANGED <<appending, events>>
  /\ UNCHANGED <<scenario, workVars, main, card>>

-----------------------------------------------------------------------------
(* Run, after wg.Wait, and main. *)

\* sort.Slice
SortedLatencies == Sort(latencies)

\* Variant of Percentile: the index of the last sample below the share.
PercentileBelow(sorted, p) ==
  LET i == (Len(sorted) * p) \div 100 IN sorted[IF i = 0 THEN 1 ELSE i]

\* latencies[int(float64(n)*p)] of the sorted samples, counted from 0.
Percentile(sorted, p) == sorted[(Len(sorted) * p) \div 100 + 1]

(***************************************************************************)
(* ChaosEvents: chaosEvents, a read that races with an append: it may see  *)
(* the slice before or after, or the new length with the old array, whose  *)
(* last element is then whatever follows it in memory.                     *)
(***************************************************************************)
Timelines ==
  IF appending THEN {events, events \cup {step}, events \cup {Garbage}}
  ELSE {events}

Verdict(suc, tot) ==
  IF suc * 100 >= 95 * tot THEN "excellent"
  ELSE IF suc * 100 >= 80 * tot THEN "acceptable" ELSE "not_met"

Report ==
  /\ main = "waiting"
  /\ \A w \in Workers : pc[w] = "done"
  /\ main' = "printing"
  /\ LET sorted == SortedLatencies
         tot    == success + failed
     IN  \E timeline \in Timelines :
           card' = [total |-> tot, success |-> success, failed |-> failed,
                    failover |-> failover,
                    min |-> sorted[1], max |-> sorted[Len(sorted)],
                    p50 |-> Percentile(sorted, 50),
                    p95 |-> Percentile(sorted, 95),
                    p99 |-> Percentile(sorted, 99),
                    events |-> timeline,
                    verdict |-> Verdict(success, tot),
                    outage |-> down]       \* history: the nodes down now
  /\ UNCHANGED <<scenario, workVars, chaosVars>>

Exit ==
  /\ main = "printing"
  /\ main' = "exited"
  /\ UNCHANGED <<scenario, workVars, chaosVars, card>>

Work(w) == Take(w) \/ Set(w) \/ Get(w) \/ Count(w)

Next ==
  \/ \E w \in Workers : Take(w) \/ Set(w) \/ Get(w) \/ Count(w)
  \/ Chaos
  \/ Report
  \/ Exit

Spec == Init /\ [][Next]_vars

\* Workers are scheduled and their requests end, by the client's timeout at
\* the latest; so is main.  Nothing is assumed of the chaos goroutine.
FairSpec == Spec /\ (\A w \in Workers : WF_vars(Work(w)))
                 /\ WF_vars(Report \/ Exit)

-----------------------------------------------------------------------------
(* Properties. *)

\* Every variable has its type.
TypeOK ==
  /\ left \in 0 .. TotalRequests
  /\ pc \in [Workers -> {"idle", "set", "get", "count", "done"}]
  /\ answer \in [Workers -> Answers]
  /\ latencies \in Seq(Latencies)
  /\ step \in 1 .. Len(Script[scenario]) + 1
  /\ events \subseteq 1 .. Len(Script[scenario])
  /\ main \in {"waiting", "printing", "exited"}
  /\ (main = "waiting") = (card = NoCard)

(***************************************************************************)
(* The verdict is about the whole experiment: the scorecard counts every   *)
(* item that was put in the channel once, as a success or as a failure,    *)
(* the failovers are among the successes, and a verdict is given for the   *)
(* share of all items that it names.  (Workers count without a lock; the   *)
(* totals are read after wg.Wait.)                                         *)
(***************************************************************************)
VerdictCountsEveryItem ==
  card # NoCard =>
    /\ card.success + card.failed = TotalRequests
    /\ card.failover <= card.success
    /\ card.verdict = "excellent" => 100 * card.success >= 95 * TotalRequests
    /\ card.verdict = "acceptable" => 100 * card.success >= 80 * TotalRequests

(***************************************************************************)
(* The percentiles of the scorecard are indexes into the samples and cover *)
(* them: they do not decrease, and at least p percent of all items took no *)
(* longer than the p-th, whatever order the workers measured them in.      *)
(***************************************************************************)
PercentilesCoverSamples ==
  card # NoCard =>
    LET covers(bound, p) ==
          100 * Cardinality({i \in DOMAIN latencies : latencies[i] <= bound})
            >= p * TotalRequests
    IN  /\ covers(card.p50, 50) /\ covers(card.p95, 95) /\ covers(card.p99, 99)
        /\ covers(card.max, 100)
        /\ card.min <= card.p50 /\ card.p50 <= card.p95
        /\ card.p95 <= card.p99 /\ card.p99 <= card.max

(***************************************************************************)
(* The timeline explains the figures: if a node was stopped before the     *)
(* scorecard was made, the scorecard has the trigger, even though the      *)
(* events are read without the mutex they are recorded under.              *)
(***************************************************************************)
TimelineExplainsOutage ==
  card # NoCard /\ card.outage # {} => 1 \in card.events

\* The experiment ends: main exits whatever the cluster answers and however
\* far the chaos goroutine is.
ExperimentEnds == <>(main = "exited")

=============================================================================
