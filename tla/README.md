# A TLA+ model of the self-healing cache

This directory specifies the Go backend of the self-healing cache (SHC): a
gateway in front of a mesh of in-memory storage nodes, with consistent hashing,
asynchronous replication, a heartbeat failure detector, failover, recovery by
pulling from peers, hot-key promotion and a cache-aside database of taxi trips.
The specifications are translated from the code under `backend/`; TLC checks
them on small instances and TLAPS proves their safety properties for all
instances.  `PROJECT.json` maps every definition to its source lines.

To check a run: `tlc -config MCMesh.cfg MCMesh`.  To check the proofs:
`tlapm MeshProofs.tla`, and the same for `HealthMonitorProofs`, `HashRingProofs`,
`MembershipProofs`, `StorageNodeProofs`, `TripsProofs`, `ChaosRunnerProofs` and
`SortingProofs`, whose lemmas three of the others use.

## 1. The system

| Component | State | Operations | Interacts with |
| --- | --- | --- | --- |
| Hash ring (`internal/hashing`) | members, addresses, sorted tokens, token owners | `AddNode` (also replaces a placeholder with the same address), `RemoveNode`, `GetPrimaryNode`, `GetNodes` | one ring in the gateway and one in each node, filled independently |
| Health monitor (`internal/health`) | a table of members: state, last answer, missed pings, override flag | ping cycle, `recordSuccess`, `recordFailure`, `AddNode`, `SetNodeStateManual`, `Stop` | read by the failover router and by the gateway's writes |
| Cache (`internal/cache`) | map from keys to entries with version and expiry | `SetWithMetadata`, `Get`, `Delete`, `Keys`, cleanup worker | used by every handler of a node |
| Storage node (`internal/server`) | cache, ring, hot-key detector | `/set`, `/get`, `/delete`, `/internal/replicate`, `/internal/replicate/delete`, `/internal/dump`, `/internal/sync/bulk`, `/internal/rebalance`, `/internal/peers`, `/hotkeys` | sends replication in the background |
| Replicator (`internal/replication`) | counters | `ReplicateSet`, `ReplicateDelete` | HTTP to other nodes, no retry |
| Hot-key detector (`internal/hotkey`) | access times per key, hot keys | `RecordAccess`, `GetHotKeys` | a hot read copies its entry to the key's third target |
| Failover router (`internal/failover`) | counters | `RouteGet` | asks the monitor, then primary or replica |
| Gateway (`internal/gateway`) | ring, monitor, database handle | `/api/set`, `/api/get`, `/api/delete`, `/api/trip`, `/api/node/state` | posts to the primary, copies to the replica in the background, writes through to the database, hydrates the mesh |
| Database (`internal/database`) | the trips table | `QueryTripByID`, `UpdateTripField`, `CalculateTripCascade` | called by the gateway |
| Rebalancing manager (`internal/rebalancing`) | reports | `DumpLocalKeys`, `SyncFromPeer`, `IngestBulkKeys`, `RebalanceForNewNode` | node start-up, `/internal/rebalance` |
| Peer manager, node start-up (`internal/cluster`, `cmd/node`) | reachable peers | one discovery and one pull per peer, a second after start | rebalancing manager |
| Configuration (`internal/config`, `cmd/router`) | the list of peers, of nodes | read once | decides which ring each process starts with |
| Chaos runner (`internal/chaos`, `cmd/chaos`) | work channel, counters, latencies, events | workers, chaos goroutine, scorecard, verdict | a client of the gateway that stops and starts nodes |
| SDKs, dashboard, deployment | - | - | clients and set-up |

What is hard here:

- *Concurrency.*  Handlers are goroutines that take locks for single map
  operations only.  A read checks an entry's expiry without the lock it was
  found under; `UpdateTripField` is a read-modify-write without a transaction;
  a cache miss starts a hydration that outlives its request.
- *Delivery.*  Replication is fire-and-forget on two independent paths (from
  the primary, and from the gateway), without order, retry or acknowledgement.
  A call that times out may still be executed.
- *Failure.*  A node loses its cache with its process, serves again before it
  has pulled anything, and applies what it pulls without comparing versions.
  The gateway routes by a view of the nodes that lags behind.
- *Membership.*  Every process has a ring of its own, filled from its own
  configuration and from what it discovers; nothing keeps the rings alike.  A
  node joins in steps an operator takes one after the other.
- *Time.*  Detection is by age against two timeouts, in ping cycles as slow as
  the slowest peer; expiry is copied between nodes in whole seconds; the
  hot-key window slides.

What makes each part correct: the ring depends on its members only and moves
no key without need; nobody is declared failed early or left alive late, and
both crash and recovery are noticed; an acknowledged write is read back; a
replicated value survives single crashes and regains its redundancy; primary
and replica agree when nothing is under way; only expired entries are evicted
and copies expire too; the amounts of a trip add up and the cache shows no
amounts the table never had; a join loses nothing and a node that comes back
gets back what it owns; the chaos runner's verdict is about the whole
experiment.

## 2. The modules

| Module | Models | Properties |
| --- | --- | --- |
| `HealthMonitor` | `health/monitor.go`, the override handler of the gateway | `NoFalseFailure`, `DetectionLatency`, `SuspectedBeforeFailed`, `RecoveryIsNoticed`, `CrashIsNoticed`, `StopEndsLoop`, `ImplementsDetector`, `ManualFailSticks` |
| `FailureDetector` | what the readers of the membership table may rely on, without clocks | implemented by `HealthMonitor`, used by `Mesh` |
| `HealthMonitorProofs` | - | proofs of the first three, of `TypeOK` and of `ImplementsDetector` |
| `Sorting` | `sort.Slice` and the loops that append what they keep, by counting | used by `HashRing`, `HotKey`, `ChaosRunner` |
| `SortingProofs` | - | lemmas on what it returns |
| `HashRing` | `hashing/ring.go` and its callers | `LookupDependsOnMembersOnly`, `SurvivorsKeepTheirOrder`, `PlaceholderGivesWay`, `CollisionIsContained` |
| `HashRingProofs` | - | proofs of all four and of `TypeOK` |
| `Mesh` | the life of one key across gateway, router, nodes, replicator, start-up synchronisation | `Agreement`, `CalmAgreement`, `AckedWritesAreRead`, `PrimaryVersionsIncrease`, `SettledSurvives`, `SettledReads`, `RedundancyRestored`, `ImplementsRegister` |
| `Register` | one cell with sets and gets that overlap | implemented by `Mesh` |
| `MeshProofs` | - | proofs of `TypeOK` and of all of `Mesh`'s properties but `Agreement` (violated) |
| `Membership` | the rings of gateway and nodes, `server.New`, `RebalanceForNewNode`, peer refresh, start-up synchronisation and its failing pulls, the gateway's switch | `JoinIsInvisible`, `MovedKeysHaveTwoCopies`, `RejoinRestores`, `NamedRejoinRestores` |
| `MembershipProofs` | - | proofs of all but `RejoinRestores` (violated), and of `TypeOK` |
| `TripCascade` | `CalculateTripCascade`, as pure operators | used by `Trips` |
| `Trips` | the gateway's database path for one row: write-through, read-through, hydration, `UpdateTripField` | `RowAddsUp`, `CachedTripWasPersisted`, `CalmCoherence`, `PriceUpdatesKeepPlaces` |
| `TripsProofs` | - | proofs of the first three and of `TypeOK` |
| `HotKey` | `hotkey/detector.go` for one key | `WindowIsExact` (in `StorageNode`) |
| `StorageNode` | the life of one entry with a TTL: `cache/cache.go`, the cleanup worker, and the copies made of an entry; extends `HotKey` | `NoLiveEviction`, `CopyLifetime`, `RemovedInTime`, `CopiesExpire` |
| `StorageNodeProofs` | - | proofs of the first three, of `WindowIsExact` and of `TypeOK` |
| `ChaosRunner` | `chaos/runner.go`, `cmd/chaos` | `VerdictCountsEveryItem`, `PercentilesCoverSamples`, `TimelineExplainsOutage`, `ExperimentEnds` |
| `ChaosRunnerProofs` | - | proofs of the first three, of `TypeOK` and of the percentile index |
| `MC...` | instances for TLC | |

`Mesh` composes the cache, the replicator, the router and the synchronisation
of several nodes with the abstract failure detector: its steps `MonitorMisses`
and `MonitorHears` are steps of `FailureDetector`, which `HealthMonitor` is
shown to implement, so the two models fit together.  `Membership` composes the
rings of all processes; `HashRing` is what justifies its abstraction of a ring
to the set of names on it.  `StorageNode` composes cache, detector and copies on one
node and its peer; `Trips` composes gateway and database over a mesh reduced to
one cell per key.  They overlap on purpose: `Mesh` has values and versions
but fixed targets and no TTLs, `Membership` has changing targets but no
versions, `StorageNode` has time but no values, `Trips` has rows but no
nodes.  Definitions whose comment begins "Variant of" are faulty versions of
the definition that follows; they are used to confirm that each property
notices a plausible mistake.

### How state and actions correspond to the code

`HealthMonitor`.  `member[m]` is `MemberInfo`; the code stores `LastSeen` and
compares `time.Since` with the timeouts, the model stores that age and `Tick`
increases it.  `Start` runs the first cycle at once; `Heartbeat` takes a
buffered tick when the last cycle is over (`wg.Wait`), at most one is buffered.
`PingSucceeds` and `PingFails` are `pingPeer` with `recordSuccess` or
`recordFailure`, which hold the lock throughout.  A ping ends within
`HeartbeatInterval`, the deadline of its context.  `handleAPINodeState` is the
user's override.  `failCause` is history.

`HashRing`.  The struct is one variable because one mutex guards it.  SHA-256
is a table from `<<id, virtual node>>` to hashes, chosen at the start.
`AddPlaceholder` is a peer configured by bare address, `AddNamed` one with an
id, or the discovery of a placeholder's id.  Both are unconditional: any id may
be given for any address, also one that a member has already.  What lookups should return is said
without rings: the clockwise `Distance` from a key to a node's nearest token,
and the members in the order of that distance.

`Sorting`.  `Sort` and `AtPositions` put into the r-th place the element that r
elements, itself included, are not after.  That is what a sort by a total
order, or a loop that appends what it keeps, leaves in the slice; it is written
so because it can be reasoned about without induction over the slice.

`Mesh`.  One key, its three ring targets, and one handler per client
operation.  A call that is waited for is one step; if it times out its request
stays in `net` and may be executed later.  Background calls go to `net`, which
has no order; `Lose` drops them.  `Restart` begins with an empty cache,
`CheckAllPeers`, `SyncFetch` and `SyncApply` are the start-up goroutine, in
which another client's write may come between fetch and apply.  `env` says what clients, network and machines do
in a behaviour (how writes are paced, whether calls time out, who crashes); the
properties are conditioned on it.  `settled` and the fields `after`, `calm`,
`outages` and `seen` of a handler are history.  Towards `Register`, the cell is
the primary's value, a set takes effect when the primary stores it, and a get
may return what the primary has had since the call (`seen`).

`Membership`.  A ring is a set of names: ids, or addresses for peers configured
without an id.  For each key the hash function fixes an order of all names
(part of `env`, as a rank for each name), and `GetNodes` has the ring's first
two names in that order: no caller of the code asks for more when it routes,
replicates or synchronises a key.
`PEER_NODES` lists every member, the node itself included, as in the compose
files.  `RebalanceForNewNode` and `BulkTransfer` are the two halves of the code
before and after the request to the new node; `BulkTransferFails` leaves the
ring changed and, if the new node is up, the batch under way.
`BulkTransferRefused` is an answer other than 200, which the sender, not looking
at the status, reports as COMPLETED.  `SyncFails` is a start-up whose pulls from
some peers fail: check and pulls share one context of 3 s, and an answer may be
no dump; nobody asks again, and the node is ready without the keys.
`RedeployGateway` is the operator's last step.  `safe` and `hasty` are history:
the keys whose latest write both owners held before the migration began or a
node crashed, and whether a member was rebalanced before it was ready again;
`missed` and `refused` are the keys that failed pulls and refused batches left
out.  The properties are conditioned on these key by key.

`ChaosRunner`.  Items are only counted, since no result depends on their keys.
The chaos goroutine runs a script of events and hook calls; an append to the
events takes two steps, because `Run` reads them without the mutex, and a read
in between returns the old, the new or a torn slice.

`Trips`.  `UpdateTripField` is two steps (read and compute; write all columns),
so that two of them interleave.  A failed read continues from placeholder
amounts, as in the code.  The columns that no update computes or writes
(vendor, datetimes, rate code, payment type) are one field, `details`: the
row's own, or made up after a failed read.  `Exec` leaves the row's as they
are, while the gateway caches the computed trip with its own.  When `Open` fails, the gateway's interface value
holds a nil pointer and is not nil, so calls are made and fail (`connected` is
false).  Amounts are integers in cents, distances in hundredths of a mile,
request values in thousandths, so that the code's rounding (add a half,
truncate towards zero) has something to round; arithmetic is exact where the
code's is floating point.

`StorageNode`.  Time left until `ExpiresAt` instead of the timestamp.
`Cache.Get` is three steps: lookup under the read lock, check without a lock,
eviction under the write lock.  The cleanup worker is its ticker, which holds
one tick and drops further ones, and the two branches of its `select`:
`purgeExpired` and, once `Close` has closed `stopCleanup`, `CleanupReturns`;
with both ready the choice is free.  A tick waits for the worker for at most `MaxLag`.  `Copy` is what replication, promotion and dump
send; `StoreCopy` is what receivers do with it.  `deadline` is history: when
the original ends.

## 3. The runs

| Run | Instance | What it shows |
| --- | --- | --- |
| `health` | 2 peers (one added later), ticks of 500 ms: interval 1, timeouts 2 and 4 (the gateway's defaults), start at most 2 ticks late, 1 override | nobody is FAILED early, nobody ALIVE late, SUSPECTED comes before FAILED, the monitor implements `FailureDetector`; lasting silence ends in FAILED, lasting answers in ALIVE, Stop ends the loop |
| `health_manual_fail` | 1 peer, 1 override | violated: a missed ping takes a user's FAILED away |
| `ring` | 3 ids, each at either of 2 addresses, 2 virtual nodes, 8 hash tables without and 3 with a collision, removals from rings of at most 12 tokens | after every history of changes lookups list the members by distance, a change never reorders those that stay, a node that takes an address replaces its placeholder, and a collision disturbs only searches that end at the shared hash |
| `mesh` | 6 environments: 3 sequential operations with a replica crash; 3 concurrent sets and gets with hot reads; 2 with a replica crash; 2 concurrent operations with timeouts, late and lost calls and false suspicions; 1 with a replica crash as well; 3 paced operations with 2 crashes of owners, one at a time | reads return the last acknowledged write; sets and gets are those of one register; paced writes leave the owners in agreement; versions at the primary only increase; a settled value survives, is read throughout and is on both owners again when all are ready |
| `mesh_reorder` | 2 sequential sets, no failure at all | violated: replication reorders the writes and the replica keeps the older value |
| `membership` | 3 members and a newcomer that becomes primary, replica or third of the key; ids with 2 crashes, with 1 crash and 1 failed pull or refused batch, or with an overwrite and 1 refused batch; bare addresses with 2 refreshes | a join is invisible to readers, a moved key is on both its new owners and a restarted node gets back what it owns, except for keys that a failed pull or a refused batch left out |
| `membership_bare` | bare addresses, 1 write, 1 crash | violated: a restarted node declines a key it owns |
| `trips` | 5 rows, 13 updates, 2 keys, 2 requests, 2 faults | amounts add up, what an update writes is cached only as it was in the table, calm operation is coherent |
| `trips_lost_update` | 1 row, 2 updates, no fault | violated: a fare update writes an old location back |
| `node` | ticks of 500 ms, TTLs none and 2 s, 1 reader, 1 copy under way, a purge every 2 ticks that is at most 1 tick late | no live entry is evicted, expired ones are gone 3 ticks after their deadline, copies with a TTL end in time, the window is exact |
| `node_ttl` | the same, with TTLs of 1 s as well | violated: a copy made in an entry's last second never expires |
| `chaos` | 2 workers, 3 items, 2 latencies, 4 scenarios | the verdict counts every item, percentiles cover the samples, the timeline has the trigger of every outage, the experiment ends |

Why the bounds are enough for what they are asked:

- Two peers are the least for one to delay the other's judgement; ages beyond
  `FailTimeout` are not told apart because the code compares with nothing
  larger.  `StartDelay` 2 is the largest that `TimelyStart` allows
  at this tick.  The proofs cover every tick, timeout and number of peers.
- Five ids (three nodes, two placeholders) with two tokens each, on eleven
  positions, give tables that interleave in many ways, with keys at every
  position, so searches wrap and walks skip repeated nodes.  The colliding
  tables have a pair of nodes, a node and a placeholder, and two virtual nodes
  of one node on the same position.
  Each removal of a colliding node leaves a token behind, so the ring's length
  is bounded.
- In `Membership` keys meet only in the batches, so one key in several orders
  is enough; the orders put the newcomer first, second or third among the ids
  and the placeholders where rings with addresses disagree with the gateway's.
  Crashes one at a time, the newcomer's included, are what the protocol can
  survive, since it keeps two copies; two of them let both owners of a key
  lose their caches one after the other.  One fault, in every place it can
  happen, is what the exceptions of the properties are about; in the run the
  key of a fault is the only key, so that a fault leaves other keys alone is
  left to the proofs, which cover any number of members, keys, writes, crashes
  and faults.
- Keys do not interact in `Mesh`.  A reordering needs two writes, a read
  between them a third operation; two crashes let both owners lose their
  caches one after the other.  The environments with timeouts are smaller
  because a late request may be executed at any later moment.
- Rows and updates in `Trips` are at both sides of every clamp: no distance, a
  refund, a tip above half the fare, values between two hundredths.  Two
  requests are what a lost update needs; the proofs cover any number.
- Half-second ticks are the coarsest that have an instant inside an entry's
  last second, and a TTL of 2 s the least of which a copy made halfway still has
  a whole second.  One reader suffices for the race of eviction and replacement;
  copies beyond the bound are treated as lost, which the code allows at any
  time.

`CHECK_DEADLOCK FALSE` in the runs of `Mesh`, `Membership` and `Trips`: clients
may stop, and when they do these systems have nothing left to do; and of
`ChaosRunner`, a program that ends.  The monitor, the ring and
the storage node always have a next step, and deadlock is checked there.

### Fairness

- `HealthMonitor`: the loop, its pings and the clock go on (weak fairness; each
  ping has a deadline).  `LoopExit` is one branch of a Go `select`, which
  chooses at random among ready cases: strong fairness.  Peers, users and Stop
  are free.
- `ChaosRunner`: workers and main are scheduled, and requests end by the HTTP
  client's timeout of 2 s.  Nothing about the chaos goroutine.
- None in the other modules, whose properties are safety properties.  In
  particular nothing makes a start-up pull succeed: its timeout ends it, and
  `NamedRejoinRestores` is about start-ups that have ended and keys whose pull
  did not fail.  That the cleanup worker gets to its ticks is the bound
  `MaxLag`, which delays the clock.

## 4. What is proved

For every choice of the constants, under the named assumptions on them:

- `HealthMonitorProofs!TypeCorrect`, `Accuracy` (`NoFalseFailure`),
  `LatencyBound` (`DetectionLatency`, when `TimelyStart`), `AntiFlapping`
  (`SuspectedBeforeFailed`, when `TimelyStart` and `RoomToSuspect`).

  `DetectionLatency` is not inductive: it says nothing about when the next
  judgement comes.  `Clocks` bounds the current cycle by the ticker, and `Ages`
  bounds each ALIVE peer's age by the age of the cycle that judged it, plus a
  whole interval for a peer still waiting in the current one.  The latency
  bound is then `SuspectTimeout - 1 + 2 * HeartbeatInterval` at most, and
  since that is below `FailTimeout`, a missed ping finds an ALIVE peer too
  young to be FAILED.  Both conditions are needed: section 6 says what happens
  when Start is late.

- `HealthMonitorProofs!Refinement` (`ImplementsDetector`, under the same two
  conditions): the monitor implements `FailureDetector`.  A step of a ping maps
  to `Miss`, `Hear`, `Lapse` or to no change; that a miss never takes a peer
  from ALIVE to FAILED is the argument above, that an unregistered peer is
  still as `NewMember` left it is `UnregisteredIsNew`, and that the override
  flag and the cause of a FAILED state agree comes from `NoFalseFailure`'s
  invariant.

- `MeshProofs!MeshTypeCorrect`, for any environments and number of operations,
  and from it:

  - `PrimaryVersions` (`PrimaryVersionsIncrease`).  No step but a set or a
    delete changes the entry of a primary that stays up; `PrimaryStays` says
    that no replication request is addressed to it and that it never
    synchronises.
  - `OwnersAgree` (`CalmAgreement`).  The invariant `CalmMesh` says that what
    is under way to the replica is what the primary has, and that owners that
    differ have something under way: each write is sent twice, and neither
    copy can be overtaken because the next write waits for both.
  - `MeshIsRegister` (`ImplementsRegister`): the step `SetAtPrimary` maps to
    the register's write, a get's last step to its answer, everything else to
    no change.  A get that was sent on to the replica needs the most:
    `AtomicMesh` says that it began while the primary had nothing, so every
    value ever stored since is one that the register had during the get.
    Whatever a replica has, however stale and wherever pulled from, is such a
    value.
  - `ReadYourWrites` (`AckedWritesAreRead`).  `OrderedMesh` says that
    operations start in order, that the writer is the latest write, and that a
    read that began after an answered write cannot have been sent on to the
    replica.
  - `SettledValueSurvives` and `SyncRestoresRedundancy` (`SettledSurvives`,
    `RedundancyRestored`).  `ShelteredMesh` says that at most one node is ill
    (`OneIll`), that the third node has no copy to contribute, and, of each
    owner (`Saved`), that it has the settled value or nothing; that it has the
    value when it is ready; and that while it synchronises, the other owner is
    still to be pulled from, or the pulled value is in hand, or it is stored.
    The last part is what keeps the value through a crash of the other owner
    right after the synchronisation.
  - `FailoverHidesOutages` (`SettledReads`).  `ReadMesh` says of every read
    under way (`SafeRead`) that without a crash since the outages it counts all
    nodes are well, and why it may have turned to the replica within its one
    outage: the primary is the node of that outage, so the replica is well and
    stays so; or the primary is ready and lost the value to a write that began
    after the read, so the value is not settled.  It cannot become settled
    again, because a primary that is ready gets a value from that value's own
    write only, which is over: `Origin` says that every value in the mesh, in
    a cache, a dump or a request, is of a write that has begun.

- `MembershipProofs!MembershipTypeCorrect`, `JoinsAreInvisible`
  (`JoinIsInvisible`), `MovedKeysAreRedundant` (`MovedKeysHaveTwoCopies`),
  `RejoinsRestore` (`NamedRejoinRestores`), for any members (at least two),
  keys, orders of the names, writes, crashes, failed pulls and refused batches.

  That the first two names of a ring exist at all needs every ring to name
  every member, by id or by address (`TypeInv`), and the least rank of a
  nonempty set (`FirstIs`).  `Places` then says how the first two change when
  the new node enters a ring, which is all the proofs use of consistent
  hashing.  `JoinIsInvisible` says nothing of how a key comes back to an owner
  that crashed or reaches the new node: `Outages` says that one member is out
  at a time and empty while down; `Migration` that the gateway is switched
  when all have reported; `NamedRings` that only a key's owners and the new
  node ever get it; and `SafeKey`, for each safe key and owner, that the owner
  has the latest value, or will pull it from the other owner, which has it and
  cannot crash meanwhile (`Kept`); that no older value is held or under way
  (`Latest`); and, of a key that moves, that an owner which reported, or is
  about to, without sending it again did so rightly: the new node has the
  value, or will pull it unless that pull fails (`Delivered`), or the other
  owner has yet to send it (`Promised`).  All of this is about keys that no
  member missed in a failed pull (`Pulled`), and `Promised` about keys of no
  refused batch.  `NamedRejoinRestores` is `Kept` when all members are ready.
  Both `Kept` and `Promised` have a case for a member that was rebalanced too
  early, which is sound for one crash only; section 6 says why.  With bare
  addresses (`BareKeys`) no such argument is available: there the key has one
  value and its owners keep it.

- `HashRingProofs!PlaceholdersGiveWay` (`PlaceholderGivesWay`).  Its invariant
  says that exactly the members have an address and that a placeholder's is its
  own id, so `internalRemoveNode(addr)` finds the placeholder if there is one;
  what `AddNode` does after it changes no other member's address.

- `HashRingProofs!RingTypeCorrect` (`TypeOK`), `LookupsAgree`
  (`LookupDependsOnMembersOnly`), `CollisionsStayContained`
  (`CollisionIsContained`), `SurvivorsStayInOrder` (`SurvivorsKeepTheirOrder`),
  for any ids, addresses, numbers of virtual nodes and hash tables.

  The invariant `RingInv` says of ring and map: the ring is sorted; a hash in
  the map is on the ring and is one of the member's it is mapped to; a hash
  that one virtual node has is in the map and on the ring once (`SingledOut`);
  and the virtual nodes of the members have positions of their own, by an
  injection (`AllPlaced`).  The last part is for collisions: a removal drops
  one of several equal hashes, not always its own, and only the injection says
  that enough of them are left for the nodes that stay.  `InsertedRing` and
  `RemovedRing` are the two steps, by what `Sort` and `AtPositions` keep.  For
  the lookups, `RoundIs` shows that the walk from the search's position around
  the ring meets every position once and in the order of the distance from the
  key (`Gap`, arithmetic modulo the size of the hash space); the places where
  nodes first occur on it (`OwnersAre`) are then in the order of the nodes'
  own distances.  These depend on names only, so a change of members cannot
  reorder two that stay.

- `StorageNodeProofs!CopiesKeepDeadline` (`CopyLifetime`), `LiveEntriesStay`
  (`NoLiveEviction`).  `CopyLifetime` is not inductive, because it says nothing
  of copies under way: `KeepsDeadline` bounds each of them by the deadline of
  its original and its own age.  Its base is `RoundedDown`: what the code sends
  in whole seconds is never more than the time left.

- `StorageNodeProofs!ExpiredGoInTime` (`RemovedInTime`).  `CleanupInv` bounds
  how long an entry can have been expired by the time since the last purge
  (`SincePurge`): since the last tick, and one interval more while that tick
  waits, which is no longer than `MaxLag`.

- `StorageNodeProofs!WindowCounts` (`WindowIsExact`), `NodeTypeCorrect`
  (`TypeOK`).  The property is about the pruned list; `WindowInv` says of the
  list itself, pruned or not yet, that it has one bucket per access of each age
  in the window.  Pruning keeps these and drops only ages that never come back.

- `TripsProofs!TripsTypeCorrect`, `RowsAddUp` (`RowAddsUp`), `PersistedFirst`
  (`CachedTripWasPersisted`).

  The arithmetic is in lemmas on the cascade, ending in `CascadeSound`: for any
  trip, field and value the result is a trip whose total covers fare, tip and
  80 cents, or whose amounts are the old ones.  `RowAddsUp` is then not
  inductive, because a handler writes back what it computed from an earlier
  row; `PlansKeep` says that every trip between the two halves of
  `UpdateTripField` satisfies the same condition against the loaded row, which
  never changes.  For the cache, `HeldWasPersisted` extends the property to
  what handlers and hydrations have in hand, and `HandsEmpty` says that a
  handler has nothing in hand before its query.  Of the columns that are not
  written, `OwnInv` says that without a failed call nobody has made any up.

- `TripsProofs!CoherentWhenCalm` (`CalmCoherence`).  The property is about
  quiet moments; `CalmInv` says that between them a set works alone, that
  every trip in the hands of a handler or a hydration is the row, and that
  the key has no entry or the row's unless a set is about to store it.

- `ChaosRunnerProofs!ChaosTypeCorrect`, `ScorecardIsComplete`
  (`VerdictCountsEveryItem`), `OutagesAreExplained` (`TimelineExplainsOutage`)
  and `PercentileIndexCovers`.

  `VerdictCountsEveryItem` says nothing before the scorecard exists.
  `Accounted` says that at any time every item is in the channel, with one
  worker (`InFlight`, whose cardinality each step changes by at most one), or
  counted; `DoneIsDrained` that a worker leaves its loop only when the channel
  is empty.  When all have left, everything is counted.  For the timeline,
  `TriggerFirst` says that the trigger is recorded, not only being appended,
  before the first node goes down, in each of the scripts.

- `ChaosRunnerProofs!PercentilesAreRight` (`PercentilesCoverSamples`).
  `SampleInv` says that there is one sample per item that is counted or about
  to be, and that the scorecard exists only when all workers have left, so it
  was made of all samples.  `PercentileIndexCovers` is the arithmetic of the
  index and `SortCounts` what sorting adds: at least i samples are not above
  the i-th.

- `SortingProofs` has what these proofs need of sorting: in a finite set with a
  total order the rank of an element, the number of elements not after it, is
  between 1 and the size of the set and no two elements share one, so every
  number is a rank (`Enumeration`).  Hence `AtPositions` keeps the elements at
  the given positions in their order (`AtPositionsKeeps`), and `Sort` returns a
  sorted permutation (`SortSorts`).  The last step of `Enumeration` is a
  counting argument on finite sets, not an induction.

The assumptions on the constants are the `ASSUME`s of the modules, which TLC
evaluates on the instances: that markers such as `None` and `NoItem` are not
values, that numbers are numbers, and of the code: at least two members, one
address per node, an order of names without ties (`Membership`), a scenario
that `NewRunner` knows (`ChaosRunner`).  The environments of `Mesh` and
`Membership` are any set: the properties name the conditions they need.

Only model-checked:

- liveness (`RecoveryIsNoticed`, `CrashIsNoticed`, `StopEndsLoop`,
  `ExperimentEnds`): it rests on fairness and on when actions are enabled,
  which is outside the proof system used here;
- the five violations of section 5, which are counterexamples.

Every other property of the runs, that is every invariant, action property and
refinement, is a theorem.

## 5. Where code and documentation disagree

Shown by the five runs that end in a violation:

1. `ManualFailSticks`: `recordFailure` does not look at `ManualOverride`.  A
   node the user marked FAILED becomes SUSPECTED with the next missed ping (its
   age is still small) and ALIVE with the next answer.  `monitor.go:317`
   promises the opposite.
2. `Agreement`: a second write can overtake the first on its way to the
   replica; nothing compares versions, and the replica keeps the older value
   for good.  `README.md:55` says versions resolve conflicts.
3. `PriceUpdatesKeepPlaces`: `UpdateTripField` writes all columns of a row it
   read before; a concurrent update of another field is lost.
4. `CopiesExpire`: `TTLRemaining` is 0 in an entry's last second and the
   receivers of a copy take 0 for "no TTL".
5. `RejoinRestores`: with peers configured by bare address, as the tutorial and
   `.env.example` do, a node's ring hashes addresses where the gateway's hashes
   ids.  A restarted node that does not find its id among the first two names
   for a key declines it, although the gateway routes the key to it.  The
   compose files' default list has ids, and then a restarted node gets back
   what it owns, unless a pull fails or a migration reaches it during its
   start-up (`NamedRejoinRestores`).

## 6. Further observations

Met while modelling; visible in the specifications, without a run of their own:

- An override that outlives its FAILED state keeps a peer FAILED that the
  detector itself declared later and that answers again.
- With the default timeouts a peer is SUSPECTED after two missed pings, not
  three (`README.md:59`).
- `NewMonitor` stamps `LastSeen` before the database is opened.  If that takes
  as long as `FailTimeout`, the first missed ping takes a peer from ALIVE to
  FAILED: this is why `TimelyStart` is assumed.
- If two virtual nodes hash alike, `internalRemoveNode` leaves one token
  without a node on the ring and lookups return an empty id.
  `CollisionIsContained` says that lookups at other positions are unharmed.
- Two members of a ring may share an address: `AddNode` removes a placeholder
  when a named node takes its address, but a bare address enters beside a named
  member that has it, and nothing looks for a second id at one address.  So with
  bare addresses a node may replicate to itself: `PEER_NODES` contains it, and
  its own address on its ring is not its id.
- A start-up pull that fails is not repeated.  The node is ready without keys it
  owns; if the other owner crashes, or a join makes the new node the other
  owner, readers lose a settled value.  `JoinIsInvisible`,
  `MovedKeysHaveTwoCopies` and `NamedRejoinRestores` except the keys of failed
  pulls for this reason.
- `RebalanceForNewNode` does not look at the status of the answer to its batch.
  A refused batch is reported COMPLETED; after the switch the new primary lacks
  the keys, or has older values from a batch or a pull before, which are then
  read.
- During a join, keys that get the new node as their replica are not
  transferred; a key written between the members' rebalancing and the gateway's
  switch stays stale on the new node.  This is why `JoinIsInvisible` ends with
  the next write and why `MovedKeysHaveTwoCopies` is about moved keys.
- A member that is rebalanced during its start-up synchronisation declines a
  key whose place the new node takes, before anybody has sent the key there.
  If the other owner crashes then, the key is gone.  The proof of
  `JoinIsInvisible` for any number of crashes met this; it is why the property
  allows two crashes only if no member was rebalanced so early (`hasty`), and
  why `RejoinRestores` excludes such a migration.
- With bare addresses, members send a key's copies to nodes the gateway does
  not count among its owners.  Once the key is overwritten, such a node keeps
  an older value and may pass it to the new node, which serves it after the
  switch.  This is why, without ids, `JoinIsInvisible` is about keys that
  are written once.
- A member that restarts after a join forgets the new node, which its
  configuration does not list.
- The chaos runner counts any hit as a success without comparing its value:
  `DataCorruptions` is always 0.  It may exit between the two halves of a flap
  and leave the node down.
- The replica counts a write twice and is then set back by the primary's
  version, so replica versions decrease even without failures.
- A delete leaves no tombstone: a late copy of the deleted write brings it back
  on the replica.
- A restarted node that accepted a write overwrites it with the older entry it
  then pulls; this is why `SettledSurvives` ends with the next write.
- A write that failed over to the replica after a timeout is not brought back
  to a primary that is still alive, whose older value is read next; this is why
  `AckedWritesAreRead` is checked with a stable primary.
- The third copy of a hot key is never updated by later writes, and a
  restarting owner may pull it; this is why `Outages` has no hot reads.
- The tip ratio is computed with the new fare, so a changed distance keeps the
  tip instead of scaling it (or replaces it by 18 %).
- After a failed baseline query `UpdateTripField` computes a trip with the
  current time as its datetimes and no vendor, rate code or payment type.
  `UPDATE` does not write these columns, but the gateway caches them: the cached
  trip as a whole was never in the table.  `CachedTripWasPersisted` therefore
  holds all columns to the table only while no call fails.
- `UPDATE` of a row that does not exist succeeds, and the gateway caches the
  placeholder trip it computed; this is why `CachedTripWasPersisted` is about
  rows that exist.
- The code that generates records without a database cannot be reached: the
  interface value is never nil.
- `trip:7`, `prod:7` and `7` are cached separately; an update refreshes one.
  Hydration uses TTLs of 300 s and 600 s where `README.md` says 3 minutes.

## 7. What is not modelled

- Flag and environment parsing, the SDKs, the dashboard and the deployment
  scripts: start-up parameters, wrappers and presentation.  Statistics and debug
  handlers only read.
- Values, HTTP, JSON, latency figures and counters: no control depends on them,
  except that malformed requests are rejected before any state changes.
- Floating-point error in the cascade: arithmetic is exact.
- Crashes after the gateway was switched to a new node, and removal of a node
  from the mesh: no code transfers keys then.

## 8. Plan

Order in which the modules were and will be written:

1. `HealthMonitor`, with its proofs: everything routes by it. (done)
2. `HashRing` against a set-based reference, with proofs. (done)
3. `Mesh`: replication, failover and recovery, with proofs. (done)
4. `TripCascade` and `Trips`, with proofs. (done)
5. `HotKey` and `StorageNode`: expiry and promotion, with proofs. (done)
6. `FailureDetector`, implemented by `HealthMonitor` (proved) and used by
   `Mesh`; `Register`, implemented by `Mesh` (proved). (done)
7. `Membership`: rings that differ, joins, restarts, with proofs. (done)
8. `ChaosRunner`, with proofs. (done)
9. `Sorting`, with lemmas, and from them the proofs about rings, windows and
   percentiles; `SettledReads` of `Mesh`. (done)

Worth adding when the code changes: a join that transfers the keys the new node
gets as a replica would allow `MovedKeysHaveTwoCopies` for all keys, and a
comparison of versions in `handleInternalReplicate` should turn `mesh_reorder`
into a passing run.
