------------------------------- MODULE Trips -------------------------------
(***************************************************************************)
(* The gateway's cache-aside path for one row of the trips table: the      *)
(* write-through of POST /api/set, the read-through of GET /api/get and    *)
(* GET /api/trip, and the drivers' read-modify-write UpdateTripField       *)
(* (internal/gateway, internal/database).                                  *)
(*                                                                         *)
(* The same row is cached under several keys ("trip:7", "prod:7", "7").    *)
(* The mesh behind a key is one cell that /set replaces, that may lose its *)
(* entry at any time (TTL, crash) and that may be unreachable; Mesh has    *)
(* its detail.  A database call may fail, and all do when Open failed: the *)
(* interface then holds a nil pointer and is not nil itself.               *)
(***************************************************************************)
EXTENDS TripCascade, FiniteSets

CONSTANTS
  Keys,       \* the cache keys of the row
  TripKey,    \* the key GET /api/trip uses
  Rows,       \* contents of the row at the start
  Updates,    \* the updates clients make: fields and values
  NoRow,      \* the table has no such row
  NoEntry,    \* the key is not cached
  None,       \* no value
  MaxOps,     \* bound: client operations in one behaviour
  MaxFaults   \* bound: failed calls and lost entries in one behaviour

Ops == 1 .. MaxOps

ASSUME TripsAssumption ==
  /\ TripKey \in Keys
  /\ Rows \subseteq {t \in Trip : t.details = Own} \cup {NoRow}
  /\ NoRow \notin Trip
  /\ Nil \notin Trip
  /\ Updates \subseteq [field : Fields, val : Int]
  /\ MaxOps \in Nat /\ MaxFaults \in Nat

VARIABLES
  connected,   \* Open succeeded
  row,         \* the row in the database
  cache,       \* what the mesh has under each key
  ops,         \* the gateway's handlers, one for each client operation
  hydrations,  \* background writes of GET /api/get
  faults,      \* failed calls and lost entries so far
  rows,        \* history: the contents the row has had
  loaded,      \* history: the row at the start
  calm,        \* history: no write overlapped another operation
  written      \* history: the keys updates were made under

dbVars   == <<connected, row, rows, loaded>>
history  == <<calm, written>>
vars     == <<dbVars, cache, ops, hydrations, faults, history>>

\* A cached value: a trip, or a client's own request body.
Cached(t) == [kind |-> "trip", trip |-> t]
Raw(o)    == [kind |-> "raw", op |-> o]

Idle == [kind |-> None, pc |-> "idle", key |-> None, update |-> None,
         trip |-> Nil]

Init ==
  /\ connected \in BOOLEAN
  /\ row \in Rows
  /\ cache = [k \in Keys |-> NoEntry]
  /\ ops = [o \in Ops |-> Idle]
  /\ hydrations = {}
  /\ faults = 0
  /\ rows = {row} \ {NoRow}
  /\ loaded = row
  /\ calm = TRUE
  /\ written = {}

Fault == faults < MaxFaults /\ faults' = faults + 1

At(o, kinds, pc) == ops[o].kind \in kinds /\ ops[o].pc = pc
GoTo(o, pc) == ops' = [ops EXCEPT ![o].pc = pc]

\* The handler answers: what it had in hand is gone.
Finish(o) ==
  ops' = [ops EXCEPT ![o] = [Idle EXCEPT !.kind = ops[o].kind, !.pc = "done"]]

Active    == {o \in Ops : ops[o].pc \notin {"idle", "done"}}
Quiet     == Active = {} /\ hydrations = {}
Updating  == \E o \in Active : ops[o].kind = "set"

Begin(o, kind, key, pc, update) ==
  /\ ops[o] = Idle /\ \A p \in 1 .. o - 1 : ops[p] # Idle
  /\ ops' = [ops EXCEPT ![o] = [Idle EXCEPT !.kind = kind, !.pc = pc,
                                            !.key = key, !.update = update]]
  /\ calm' = (calm /\ IF kind = "set" THEN Quiet ELSE ~Updating)
  /\ UNCHANGED <<dbVars, cache, hydrations, faults>>

-----------------------------------------------------------------------------
(* The drivers. *)

\* QueryTripByID finds the row ...
QuerySucceeds ==
  /\ connected /\ row # NoRow
  /\ UNCHANGED faults

\* ... or reports an error: no connection, no such row, or a failed call.
QueryFails ==
  \/ (~connected \/ row = NoRow) /\ UNCHANGED faults
  \/ connected /\ row # NoRow /\ Fault

\* What UpdateTripField starts from when its query reports an error: datetimes
\* of the moment, and no vendor, rate code or payment type.
DefaultTrip == [distance |-> 350, fare |-> 1250, tip |-> 250, total |-> 1630,
                passengers |-> Nil, pickup |-> Nil, dropoff |-> Nil,
                details |-> MadeUp]

\* UPDATE ... WHERE rowid = ?: seven columns are set and the row keeps its
\* details; without a row nothing changes and the call succeeds.
Exec(t) ==
  /\ row' = IF row = NoRow THEN NoRow ELSE [t EXCEPT !.details = row.details]
  /\ rows' = rows \cup ({row'} \ {NoRow})
  /\ UNCHANGED <<connected, loaded>>

-----------------------------------------------------------------------------
(* POST /api/set with a trip's key and a modified field. *)

BeginUpdate(o, key, update) ==
  /\ Begin(o, "set", key, "query", update)
  /\ written' = written \cup {key}

\* UpdateTripField, first half: the baseline and its cascade.
UpdateQuery(o) ==
  LET update == ops[o].update
      computed(base) == CalculateTripCascade(base, update.field, update.val)
  IN  /\ At(o, {"set"}, "query") /\ connected
      /\ \/ QuerySucceeds /\ ops' = [ops EXCEPT ![o].pc = "exec",
                                                ![o].trip = computed(row)]
         \/ QueryFails /\ ops' = [ops EXCEPT ![o].pc = "exec",
                                             ![o].trip = computed(DefaultTrip)]
      /\ UNCHANGED <<dbVars, cache, hydrations, history>>

\* Without a connection the update fails at once and the request goes on to
\* the cache as it came.
UpdateUnconnected(o) ==
  /\ At(o, {"set"}, "query") /\ ~connected
  /\ GoTo(o, "store")
  /\ UNCHANGED <<dbVars, cache, hydrations, faults, history>>

\* UpdateTripField, second half: the columns of the cascade are written back.
UpdateExec(o) ==
  /\ At(o, {"set"}, "exec")
  /\ GoTo(o, "store")
  /\ Exec(ops[o].trip)
  /\ UNCHANGED <<cache, hydrations, faults, history>>

\* Variant of UpdateExecFails: the driver's error is ignored.
UpdateExecFailsUnnoticed(o) ==
  /\ At(o, {"set"}, "exec")
  /\ Fault
  /\ GoTo(o, "store")
  /\ UNCHANGED <<dbVars, cache, hydrations, history>>

UpdateExecFails(o) ==
  /\ At(o, {"set"}, "exec")
  /\ Fault
  /\ ops' = [ops EXCEPT ![o].pc = "store", ![o].trip = Nil]
  /\ UNCHANGED <<dbVars, cache, hydrations, history>>

\* Variant of StoredValue: the request body is not replaced by the trip.
StoredRequest(o) == Raw(o)

\* Variant of StoredValue: a nil trip is encoded like any other.
StoredTrip(o) == Cached(ops[o].trip)

\* The value sent to the mesh: the updated trip, or the request's own value.
StoredValue(o) == IF ops[o].trip = Nil THEN Raw(o) ELSE Cached(ops[o].trip)

UpdateStore(o) ==
  /\ At(o, {"set"}, "store")
  /\ cache' = [cache EXCEPT ![ops[o].key] = StoredValue(o)]
  /\ Finish(o)
  /\ UNCHANGED <<dbVars, hydrations, faults, history>>

UpdateStoreFails(o) ==
  /\ At(o, {"set"}, "store")
  /\ Fault
  /\ Finish(o)
  /\ UNCHANGED <<dbVars, cache, hydrations, history>>

-----------------------------------------------------------------------------
(* GET /api/get and GET /api/trip. *)

BeginGet(o, key) == Begin(o, "get", key, "lookup", None) /\ UNCHANGED written

BeginTrip(o) == Begin(o, "trip", TripKey, "lookup", None) /\ UNCHANGED written

ReadHit(o) ==
  /\ At(o, {"get", "trip"}, "lookup")
  /\ cache[ops[o].key] # NoEntry
  /\ Finish(o)
  /\ UNCHANGED <<dbVars, cache, hydrations, faults, history>>

ReadMiss(o) ==
  /\ At(o, {"get", "trip"}, "lookup")
  /\ \/ cache[ops[o].key] = NoEntry /\ UNCHANGED faults
     \/ cache[ops[o].key] # NoEntry /\ Fault
  /\ GoTo(o, "query")
  /\ UNCHANGED <<dbVars, cache, hydrations, history>>

\* GET /api/get answers with the row and hydrates the mesh in the background.
GetQuery(o) ==
  /\ At(o, {"get"}, "query")
  /\ QuerySucceeds
  /\ hydrations' = hydrations \cup {[op |-> o, key |-> ops[o].key, trip |-> row]}
  /\ Finish(o)
  /\ UNCHANGED <<dbVars, cache, history>>

\* GET /api/trip hydrates first.
TripQuery(o) ==
  /\ At(o, {"trip"}, "query")
  /\ QuerySucceeds
  /\ ops' = [ops EXCEPT ![o].pc = "hydrate", ![o].trip = row]
  /\ UNCHANGED <<dbVars, cache, hydrations, history>>

ReadQueryFails(o) ==
  /\ At(o, {"get", "trip"}, "query")
  /\ QueryFails
  /\ Finish(o)
  /\ UNCHANGED <<dbVars, cache, hydrations, history>>

\* Errors of forwardSet are ignored, in the background ...
Hydrate(h) ==
  /\ hydrations' = hydrations \ {h}
  /\ \/ cache' = [cache EXCEPT ![h.key] = Cached(h.trip)] /\ UNCHANGED faults
     \/ Fault /\ UNCHANGED cache
  /\ UNCHANGED <<dbVars, ops, history>>

\* ... and in the handler of GET /api/trip.
TripHydrate(o) ==
  /\ At(o, {"trip"}, "hydrate")
  /\ \/ /\ cache' = [cache EXCEPT ![TripKey] = Cached(ops[o].trip)]
        /\ UNCHANGED faults
     \/ Fault /\ UNCHANGED cache
  /\ Finish(o)
  /\ UNCHANGED <<dbVars, hydrations, history>>

\* The environment: an entry expires, is deleted or is lost with its nodes.
Evict(k) ==
  /\ cache[k] # NoEntry
  /\ Fault
  /\ cache' = [cache EXCEPT ![k] = NoEntry]
  /\ UNCHANGED <<dbVars, ops, hydrations, history>>

-----------------------------------------------------------------------------
Next ==
  \/ \E o \in Ops :
       \/ \E k \in Keys, u \in Updates : BeginUpdate(o, k, u)
       \/ \E k \in Keys : BeginGet(o, k)
       \/ BeginTrip(o)
       \/ UpdateQuery(o) \/ UpdateUnconnected(o)
       \/ UpdateExec(o) \/ UpdateExecFails(o)
       \/ UpdateStore(o) \/ UpdateStoreFails(o)
       \/ ReadHit(o) \/ ReadMiss(o)
       \/ GetQuery(o) \/ TripQuery(o) \/ ReadQueryFails(o) \/ TripHydrate(o)
  \/ \E h \in hydrations : Hydrate(h)
  \/ \E k \in Keys : Evict(k)

Spec == Init /\ [][Next]_vars

-----------------------------------------------------------------------------
(* Properties. *)

Entry == [kind : {"trip"}, trip : Trip] \cup [kind : {"raw"}, op : Ops]

Handler == [kind : {None, "set", "get", "trip"},
            pc : {"idle", "lookup", "query", "exec", "store", "hydrate", "done"},
            key : Keys \cup {None}, update : Updates \cup {None},
            trip : Trip \cup {Nil}]
Hydration == [op : Ops, key : Keys, trip : Trip]

\* Every variable has its type, and a handler has what its next step uses: a
\* key, an update to apply, a trip to write.
TypeOK ==
  /\ connected \in BOOLEAN
  /\ row \in Trip \cup {NoRow}
  /\ cache \in [Keys -> Entry \cup {NoEntry}]
  /\ ops \in [Ops -> Handler]
  /\ \A o \in Ops :
       /\ ops[o].pc \notin {"idle", "done"} => ops[o].key \in Keys
       /\ At(o, {"set"}, "query") => ops[o].update \in Updates
       /\ ops[o].pc \in {"exec", "hydrate"} => ops[o].trip \in Trip
  /\ hydrations \subseteq Hydration
  /\ faults \in 0 .. MaxFaults
  /\ rows \subseteq Trip
  /\ loaded \in Trip \cup {NoRow}
  /\ calm \in BOOLEAN
  /\ written \subseteq Keys

Amounts(t) == <<t.fare, t.tip, t.total>>
AddsUp(t)  == t.total - (t.fare + t.tip) >= 80

(***************************************************************************)
(* The "mathematical invariants" of the cascade: a row either has the      *)
(* amounts it was loaded with, or its total covers fare, tip and the least *)
(* surcharges, whatever updates, races and failed queries came before.     *)
(***************************************************************************)
RowAddsUp ==
  row # NoRow => AddsUp(row) \/ Amounts(row) = Amounts(loaded)

\* A trip as far as an update writes it.
Written(t) == [t EXCEPT !.details = Own]

(***************************************************************************)
(* The cache never shows a trip that was not in the table, however reads,  *)
(* updates, background hydrations and failures interleave: what an update  *)
(* computes is cached as it was written.  The other columns are the row's  *)
(* as long as no call failed.  After that they need not be: the gateway    *)
(* caches the whole trip, and an update whose baseline query failed made   *)
(* them up and did not write them.                                         *)
(***************************************************************************)
CachedTripWasPersisted ==
  row # NoRow =>
    \A k \in Keys :
      cache[k] # NoEntry /\ cache[k].kind = "trip" =>
        /\ Written(cache[k].trip) \in rows
        /\ faults = 0 => cache[k].trip \in rows

(***************************************************************************)
(* Write-through and hydration keep a key coherent with its row as long as *)
(* no update overlaps another operation, no call fails and the row is      *)
(* written under this key only.                                            *)
(***************************************************************************)
CalmCoherence ==
  connected /\ row # NoRow /\ Quiet /\ calm /\ faults = 0 =>
    \A k \in Keys :
      written \subseteq {k} => cache[k] \in {NoEntry, Cached(row)}

(***************************************************************************)
(* The comment on CalculateTripCascade lists what an update of an amount   *)
(* recalculates: distance, fare and total.  Passengers and locations that  *)
(* others have set in the row stay.                                        *)
(***************************************************************************)
PriceUpdatesKeepPlaces ==
  [][\A o \in Ops :
       /\ At(o, {"set"}, "exec") /\ ops'[o].pc = "store" /\ row' # row
       /\ ops[o].update.field \in MoneyFields
       => <<row'.passengers, row'.pickup, row'.dropoff>>
            = <<row.passengers, row.pickup, row.dropoff>>]_vars

=============================================================================
