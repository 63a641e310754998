---------------------------- MODULE StorageNode ----------------------------
(***************************************************************************)
(* The life of one entry with a TTL: in a node's cache (internal/cache),   *)
(* where clients, concurrent readers and the cleanup worker meet, and in   *)
(* the copies that replication, the promotion of hot keys (HotKey) and the *)
(* synchronisation of a restarted peer make of it (internal/server,        *)
(* internal/replication, internal/rebalancing).                            *)
(*                                                                         *)
(* The code stores ExpiresAt; the model stores the time left until then,   *)
(* which Tick decreases.  An entry is expired when the clock is past       *)
(* ExpiresAt, so at 0 it is not yet.  Values and versions are Mesh's       *)
(* concern; here a peer's copy is told by how long it lives.               *)
(***************************************************************************)
EXTENDS HotKey

CONSTANTS
  Readers,         \* concurrent GET /get handlers
  TTLs,            \* the ttl_seconds clients ask for, 0 for none
  TicksPerSecond,
  CleanupInterval, \* of the cleanup worker's ticker, in ticks
  MaxLag,          \* longest time a tick waits for the worker, in ticks
  MaxDelay,        \* longest time a copy is under way, in ticks
  MaxBuckets,      \* bound: accesses the detector remembers
  MaxMessages,     \* bound: copies under way at a time
  Never,           \* no deadline
  NoItem           \* the key is not in the map

ASSUME NodeAssumption ==
  /\ TTLs \subseteq Nat
  /\ {TicksPerSecond, CleanupInterval} \subseteq Nat \ {0}
  /\ MaxLag \in 0 .. CleanupInterval - 1
  /\ {MaxDelay, MaxBuckets, MaxMessages} \subseteq Nat
  /\ Never \notin Int /\ NoItem \notin Int \cup {Never}

VARIABLES
  item,        \* the entry's time left in the node's cache
  worker,      \* the cleanup worker: running or gone
  stopCleanup, \* the channel that ends it is closed
  ticker,      \* its ticker: time to the next tick, and whether one is waiting
  readers,     \* where each reader is, and the entry it looked up
  net,         \* copies and deletes under way to the peer
  copy,        \* the peer's entry
  deadline     \* history: time left for the entry the copy was made of

workerVars == <<worker, stopCleanup, ticker>>
cacheVars  == <<item, workerVars>>
peerVars   == <<net, copy, deadline>>
vars == <<cacheVars, readers, peerVars, detectorVars>>

\* Entries are not told apart long after their deadline.
Expired   == -1
Forgotten == -(CleanupInterval + MaxLag + 1)
Overdue   == -(MaxDelay + 1)
Earlier(left, last) == IF left \in {Never, last} THEN left ELSE left - 1

Lasting(left) == left = Never \/ left > Expired
Idle == [pc |-> "idle", seen |-> NoItem]
NewTicker == [left |-> CleanupInterval, ready |-> FALSE]

Init ==
  /\ NewDetector
  /\ item = NoItem
  /\ worker = "running"
  /\ stopCleanup = FALSE
  /\ ticker = NewTicker
  /\ readers = [r \in Readers |-> Idle]
  /\ net = {}
  /\ copy = NoItem
  /\ deadline = Never

-----------------------------------------------------------------------------
(* Entries and their copies. *)

IsExpired(left) == left # Never /\ left < 0

\* What SetWithMetadata makes of a TTL in seconds: none for 0 and less.
ExpiresAfter(seconds) ==
  IF seconds > 0 THEN seconds * TicksPerSecond ELSE Never

\* Variant of TTLRemaining: seconds are rounded up.
TTLRemainingCeil(left) ==
  IF left = Never THEN -1
  ELSE IF left <= 0 THEN 0
  ELSE (left + TicksPerSecond - 1) \div TicksPerSecond

\* Whole seconds; -1 without a TTL.
TTLRemaining(left) ==
  IF left = Never THEN -1
  ELSE IF left <= 0 THEN 0
  ELSE left \div TicksPerSecond

\* A copy on its way: its TTL in seconds, and the deadline it should keep.
Copy(seconds, left) ==
  [type |-> "copy", seconds |-> seconds, deadline |-> left, age |-> 0]

\* Sent in the background.  Beyond the bound it counts as lost at once.
Send(m) == net' = IF Cardinality(net) < MaxMessages THEN net \cup {m} ELSE net

-----------------------------------------------------------------------------
(* Writes. *)

\* POST /set, with its replication of the TTL asked for.
handleSet(seconds) ==
  /\ item' = ExpiresAfter(seconds)
  /\ Send(Copy(seconds, ExpiresAfter(seconds)))
  /\ UNCHANGED <<workerVars, readers, copy, deadline, detectorVars>>

handleDelete ==
  /\ item' = NoItem
  /\ Send([type |-> "delete", seconds |-> 0, deadline |-> Never, age |-> 0])
  /\ UNCHANGED <<workerVars, readers, copy, deadline, detectorVars>>

-----------------------------------------------------------------------------
(* GET /get: Cache.Get, then the hot-key detector. *)

\* Variant of GetLookup: the test that the key exists is missing.
GetLookupAny(r) ==
  /\ readers[r] = Idle
  /\ readers' = [readers EXCEPT ![r] = [pc |-> "check", seen |-> item]]
  /\ UNCHANGED <<cacheVars, peerVars, detectorVars>>

\* The entry is looked up under the read lock ...
GetLookup(r) ==
  /\ readers[r] = Idle
  /\ item # NoItem
  /\ readers' = [readers EXCEPT ![r] = [pc |-> "check", seen |-> item]]
  /\ UNCHANGED <<cacheVars, peerVars, detectorVars>>

\* ... checked without a lock ...
GetCheck(r) ==
  /\ readers[r].pc = "check"
  /\ readers' = [readers EXCEPT ![r].pc =
                   IF IsExpired(readers[r].seen) THEN "evict" ELSE "hit"]
  /\ UNCHANGED <<cacheVars, peerVars, detectorVars>>

\* Variant of GetEvict: the entry is not looked at again.
GetEvictUnchecked(r) ==
  /\ readers[r].pc = "evict"
  /\ item' = NoItem
  /\ readers' = [readers EXCEPT ![r] = Idle]
  /\ UNCHANGED <<workerVars, peerVars, detectorVars>>

\* ... and, when expired, deleted under the write lock, if the entry that is
\* there by now is expired as well.
GetEvict(r) ==
  /\ readers[r].pc = "evict"
  /\ item' = IF item # NoItem /\ IsExpired(item) THEN NoItem ELSE item
  /\ readers' = [readers EXCEPT ![r] = Idle]
  /\ UNCHANGED <<workerVars, peerVars, detectorVars>>

\* A hit is counted; a hot key is sent to the third target with what is left
\* of its TTL.
GetHit(r) ==
  LET seen == readers[r].seen
  IN  /\ readers[r].pc = "hit"
      /\ Len(validBuckets(keyAccess)) < MaxBuckets
      /\ RecordAccess
      /\ IF AccessIsHot THEN Send(Copy(TTLRemaining(seen), seen))
         ELSE UNCHANGED net
      /\ readers' = [readers EXCEPT ![r] = Idle]
      /\ UNCHANGED <<cacheVars, copy, deadline>>

handleHotKeys ==
  /\ GetHotKeys
  /\ UNCHANGED <<cacheVars, readers, peerVars>>

-----------------------------------------------------------------------------
(* The cleanup worker. *)

\* Variant of purgeExpired: the worker returns instead of waiting again.
purgeOnce ==
  /\ worker = "running" /\ ticker.ready
  /\ item' = IF item # NoItem /\ IsExpired(item) THEN NoItem ELSE item
  /\ worker' = "gone"
  /\ ticker' = NewTicker
  /\ UNCHANGED <<stopCleanup, readers, peerVars, detectorVars>>

\* The worker receives the tick that waits and removes what is expired.
purgeExpired ==
  /\ worker = "running" /\ ticker.ready
  /\ item' = IF item # NoItem /\ IsExpired(item) THEN NoItem ELSE item
  /\ ticker' = [ticker EXCEPT !.ready = FALSE]
  /\ UNCHANGED <<worker, stopCleanup, readers, peerVars, detectorVars>>

\* Close closes the channel; a second call finds it closed.
Close ==
  /\ ~stopCleanup
  /\ stopCleanup' = TRUE
  /\ UNCHANGED <<item, worker, ticker, readers, peerVars, detectorVars>>

\* The select of startCleanupWorker takes the closed channel, whether a tick
\* waits as well or not, and the ticker is stopped.
CleanupReturns ==
  /\ worker = "running" /\ stopCleanup
  /\ worker' = "gone"
  /\ ticker' = NewTicker
  /\ UNCHANGED <<item, stopCleanup, readers, peerVars, detectorVars>>

\* The ticker moves on: it drops a tick when one is still waiting.
MoveTicker ==
  ticker' = IF worker = "gone" THEN ticker
            ELSE IF ticker.left = 1 THEN [NewTicker EXCEPT !.ready = TRUE]
            ELSE [ticker EXCEPT !.left = @ - 1]

-----------------------------------------------------------------------------
(* Copies. *)

\* GET /internal/dump: the keys whose deadline is ahead, with what is left.
DumpLocalKeys ==
  /\ item # NoItem
  /\ item # Never => item > 0
  /\ Send(Copy(TTLRemaining(item), item))
  /\ UNCHANGED <<cacheVars, readers, copy, deadline, detectorVars>>

\* handleInternalReplicate, SyncFromPeer and IngestBulkKeys store a copy with
\* a TTL of its own that starts now.
StoreCopy(m) ==
  /\ copy' = ExpiresAfter(m.seconds)
  /\ deadline' = m.deadline

Deliver(m) ==
  /\ \/ m.type = "copy" /\ StoreCopy(m)
     \/ m.type = "delete" /\ copy' = NoItem /\ deadline' = Never
  /\ net' = net \ {m}
  /\ UNCHANGED <<cacheVars, readers, detectorVars>>

Lose(m) ==
  /\ net' = net \ {m}
  /\ UNCHANGED <<cacheVars, readers, copy, deadline, detectorVars>>

\* The peer drops its copy: it is read or cleaned up after its deadline.
DropCopy ==
  /\ copy # NoItem /\ IsExpired(copy)
  /\ copy' = NoItem /\ deadline' = Never
  /\ UNCHANGED <<cacheVars, readers, net, detectorVars>>

\* Time passes; a call that is under way for MaxDelay ends first, and a tick
\* that waits for MaxLag is received first.
Tick ==
  /\ \A m \in net : m.age < MaxDelay
  /\ worker = "running" /\ ticker.ready
       => CleanupInterval - ticker.left < MaxLag
  /\ AgeBuckets
  /\ MoveTicker
  /\ item' = IF item = NoItem THEN item ELSE Earlier(item, Forgotten)
  /\ readers' = [r \in Readers |->
                   IF readers[r] = Idle THEN Idle
                   ELSE [readers[r] EXCEPT !.seen = Earlier(@, Forgotten)]]
  /\ net' = {[m EXCEPT !.age = @ + 1, !.deadline = Earlier(@, Overdue)] :
               m \in net}
  /\ copy' = IF copy = NoItem THEN copy ELSE Earlier(copy, Expired)
  /\ deadline' = Earlier(deadline, Overdue)
  /\ UNCHANGED <<worker, stopCleanup>>

-----------------------------------------------------------------------------
Next ==
  \/ \E s \in TTLs : handleSet(s)
  \/ handleDelete
  \/ \E r \in Readers :
       GetLookup(r) \/ GetCheck(r) \/ GetEvict(r) \/ GetHit(r)
  \/ handleHotKeys
  \/ purgeExpired
  \/ Close
  \/ CleanupReturns
  \/ DumpLocalKeys
  \/ \E m \in net : Deliver(m) \/ Lose(m)
  \/ DropCopy
  \/ Tick

Spec == Init /\ [][Next]_vars

-----------------------------------------------------------------------------
(* Properties. *)

Lefts == Int \cup {Never}

\* Every variable has its type; a reader past its lookup has an entry.
TypeOK ==
  /\ keyAccess \in Seq(0 .. WindowDuration + 1)
  /\ hotKey \in BOOLEAN
  /\ item \in Lefts \cup {NoItem} /\ (item \in Int => item >= Forgotten)
  /\ copy \in Lefts \cup {NoItem} /\ (copy \in Int => copy >= Expired)
  /\ worker \in {"running", "gone"} /\ stopCleanup \in BOOLEAN
  /\ ticker \in [left : 1 .. CleanupInterval, ready : BOOLEAN]
  /\ readers \in [Readers ->
                   {Idle} \cup [pc : {"check", "evict", "hit"}, seen : Lefts]]
  /\ \A m \in net : m.age \in 0 .. MaxDelay /\ m.deadline \in Lefts
  /\ deadline \in Lefts

(***************************************************************************)
(* Only DELETE removes an entry before its deadline: not a reader that saw *)
(* the expired predecessor of an entry set since, and not the worker.      *)
(***************************************************************************)
NoLiveEviction ==
  [][item # NoItem /\ item' = NoItem /\ ~handleDelete
       => IsExpired(item)]_vars

(***************************************************************************)
(* A copy that has a TTL outlives the entry it was made of by no more than *)
(* the time it was under way, also when it was made late in the entry's    *)
(* life; and a copy of an entry without a TTL has none.                    *)
(***************************************************************************)
CopyLifetime ==
  copy # NoItem /\ Lasting(copy) =>
    /\ copy # Never => deadline # Never /\ deadline >= -MaxDelay
    /\ deadline = Never => copy = Never

(***************************************************************************)
(* The pruned list holds exactly the accesses of the last window, as many  *)
(* of each age as there were, at every moment and whichever handlers       *)
(* pruned it: the verdict on a hot key rests on its length.                *)
(***************************************************************************)
WindowIsExact ==
  LET valid == validBuckets(keyAccess)
  IN  /\ \A i \in DOMAIN valid : valid[i] \in DOMAIN recent
      /\ \A a \in DOMAIN recent :
           Cardinality({i \in DOMAIN valid : valid[i] = a}) = recent[a]

(***************************************************************************)
(* Nobody has to read an expired entry for it to go: until Close is called *)
(* no entry is in the map for longer than the cleanup interval, and what   *)
(* the worker is late, after its deadline.  The purges that matter are the *)
(* ones the loop comes back to, at the pace of the ticker.                 *)
(***************************************************************************)
RemovedInTime ==
  ~stopCleanup /\ item \in Int => item >= -(CleanupInterval + MaxLag)

(***************************************************************************)
(* The TTL of POST /api/set, for copies: an entry that has a deadline is   *)
(* copied with one.                                                        *)
(***************************************************************************)
CopiesExpire == copy = Never => deadline = Never

=============================================================================
