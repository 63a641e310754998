---------------------------- MODULE TripsProofs ----------------------------
(***************************************************************************)
(* Proofs about TripCascade and Trips, for every set of rows and updates   *)
(* and any number of concurrent operations and faults.                     *)
(***************************************************************************)
EXTENDS Trips, TLAPS

-----------------------------------------------------------------------------
(* The cascade. *)

\* Rounding yields an integer.
LEMMA RoundedType ==
  ASSUME NEW num \in Int, NEW den \in Nat \ {0}
  PROVE  Rounded(num, den) \in Int
<1> DEFINE doubled == 2 * num + den
<1>1. doubled \in Int /\ 2 * den \in Nat \ {0}
  OBVIOUS
<1>2. doubled \div (2 * den) \in Int /\ (-doubled) \div (2 * den) \in Int
  <2> HIDE DEF doubled
  <2> QED BY <1>1
<1> QED BY <1>1, <1>2 DEF Rounded

\* Rounding an amount in whole cents loses nothing, and gains a cent at most
\* (for a negative amount, whose truncation goes up).
LEMMA RoundedCents ==
  ASSUME NEW n \in Int
  PROVE  /\ Rounded(n, 1) \in Int
         /\ Rounded(n, 1) >= n
         /\ n >= 0 => Rounded(n, 1) = n
  BY DEF Rounded

\* The least total of an update survives its rounding.
LEMMA RoundedTotal ==
  ASSUME NEW n \in Int, n >= 3300
  PROVE  Rounded(n, 10) \in Int /\ Rounded(n, 10) >= 330
  BY DEF Rounded

\* The rate per mile is a fraction of positive integers.
LEMMA RateType ==
  ASSUME NEW t \in Trip
  PROVE  /\ ratePerMile(t).num \in Nat \ {0}
         /\ ratePerMile(t).den \in Nat \ {0}
  BY DEF ratePerMile, Trip

\* A recalculated total covers fare, tip and the least surcharges.
LEMMA TotalAddsUp ==
  ASSUME NEW t \in Trip, NEW fare \in Int, NEW tip \in Int
  PROVE  /\ Total(fare, tip, fixedSurcharges(t)) \in Int
         /\ Total(fare, tip, fixedSurcharges(t)) - (fare + tip) >= 80
<1> DEFINE surcharges == fixedSurcharges(t)
<1>1. surcharges \in Int /\ surcharges >= 80
  BY DEF fixedSurcharges, AtLeast, Trip
<1>2. fare + tip + surcharges \in Int
  BY <1>1
<1>3. /\ Rounded(fare + tip + surcharges, 1) \in Int
      /\ Rounded(fare + tip + surcharges, 1) >= fare + tip + surcharges
  <2> HIDE DEF surcharges
  <2> QED BY <1>2, RoundedCents
<1> HIDE DEF surcharges
<1>4. /\ Total(fare, tip, surcharges) \in Int
      /\ Total(fare, tip, surcharges) - (fare + tip) >= 80
  BY <1>1, <1>2, <1>3 DEF Total
<1> QED BY <1>4 DEF surcharges

\* A new distance.
LEMMA NewDistanceSound ==
  ASSUME NEW t \in Trip, NEW val \in Int
  PROVE  /\ NewDistance(t, val) \in Trip /\ AddsUp(NewDistance(t, val))
         /\ NewDistance(t, val).details = t.details
<1> DEFINE rate    == ratePerMile(t)
           newDist == AtLeast(val, 100)
           fare    == AtLeast(Rounded(newDist * rate.num, 10 * rate.den), 250)
           ratio   == tipRatio(t.tip, fare)
           tip     == Rounded(fare * ratio.num, ratio.den)
           total   == Total(fare, tip, fixedSurcharges(t))
<1>1. rate.num \in Nat \ {0} /\ rate.den \in Nat \ {0}
  BY RateType
<1>2. newDist \in Int
  BY DEF AtLeast
<1>3. fare \in Int /\ fare >= 250
  <2> HIDE DEF rate, newDist
  <2>1. newDist * rate.num \in Int /\ 10 * rate.den \in Nat \ {0}
    BY <1>1, <1>2
  <2>2. Rounded(newDist * rate.num, 10 * rate.den) \in Int
    BY <2>1, RoundedType
  <2> QED BY <2>2 DEF AtLeast
<1>4. tip \in Int
  <2> HIDE DEF fare
  <2>1. ratio.num \in Int /\ ratio.den \in Nat \ {0}
    BY <1>3 DEF tipRatio, Trip
  <2> HIDE DEF ratio
  <2>2. fare * ratio.num \in Int
    BY <1>3, <2>1
  <2> QED BY <2>1, <2>2, RoundedType
<1>5. Rounded(newDist, 10) \in Int
  <2> HIDE DEF newDist
  <2> QED BY <1>2, RoundedType
<1>6. total \in Int /\ total - (fare + tip) >= 80
  <2> HIDE DEF fare, tip
  <2> QED BY <1>3, <1>4, TotalAddsUp
<1>7. NewDistance(t, val) = [t EXCEPT !.distance = Rounded(newDist, 10),
                                      !.fare = fare, !.tip = tip,
                                      !.total = total]
  BY DEF NewDistance
<1> HIDE DEF rate, newDist, fare, ratio, tip, total
<1>8. NewDistance(t, val) \in Trip
  BY <1>3, <1>4, <1>5, <1>6, <1>7 DEF Trip
<1>9. /\ NewDistance(t, val).total = total /\ NewDistance(t, val).tip = tip
      /\ NewDistance(t, val).fare = fare
      /\ NewDistance(t, val).details = t.details
  BY <1>7 DEF Trip
<1>10. AddsUp(NewDistance(t, val))
  BY <1>6, <1>9 DEF AddsUp
<1> QED BY <1>8, <1>9, <1>10

\* A new fare.
LEMMA NewFareSound ==
  ASSUME NEW t \in Trip, NEW val \in Int
  PROVE  /\ NewFare(t, val) \in Trip /\ AddsUp(NewFare(t, val))
         /\ NewFare(t, val).details = t.details
<1> DEFINE rate     == ratePerMile(t)
           newFare  == AtLeast(val, 2500)
           fare     == Rounded(newFare, 10)
           distance == AtLeast(Rounded(newFare * rate.den, 10 * rate.num), 10)
           total    == Total(fare, t.tip, fixedSurcharges(t))
<1>1. rate.num \in Nat \ {0} /\ rate.den \in Nat \ {0}
  BY RateType
<1>2. newFare \in Int
  BY DEF AtLeast
<1>3. fare \in Int
  <2> HIDE DEF newFare
  <2> QED BY <1>2, RoundedType
<1>4. distance \in Int
  <2> HIDE DEF rate, newFare
  <2>1. newFare * rate.den \in Int /\ 10 * rate.num \in Nat \ {0}
    BY <1>1, <1>2
  <2>2. Rounded(newFare * rate.den, 10 * rate.num) \in Int
    BY <2>1, RoundedType
  <2> QED BY <2>2 DEF AtLeast
<1>5. total \in Int /\ total - (fare + t.tip) >= 80
  <2> HIDE DEF fare
  <2>1. t.tip \in Int
    BY DEF Trip
  <2> QED BY <1>3, <2>1, TotalAddsUp
<1>6. NewFare(t, val) = [t EXCEPT !.fare = fare, !.distance = distance,
                                  !.total = total]
  BY DEF NewFare
<1> HIDE DEF rate, newFare, fare, distance, total
<1> QED BY <1>3, <1>4, <1>5, <1>6 DEF Trip, AddsUp

\* A new tip.
LEMMA NewTipSound ==
  ASSUME NEW t \in Trip, NEW val \in Int
  PROVE  /\ NewTip(t, val) \in Trip /\ AddsUp(NewTip(t, val))
         /\ NewTip(t, val).details = t.details
<1> DEFINE tip   == Rounded(AtLeast(val, 0), 10)
           total == Total(t.fare, tip, fixedSurcharges(t))
<1>1. tip \in Int
  <2>1. AtLeast(val, 0) \in Int
    BY DEF AtLeast
  <2> QED BY <2>1, RoundedType
<1>2. total \in Int /\ total - (t.fare + tip) >= 80
  <2> HIDE DEF tip
  <2>1. t.fare \in Int
    BY DEF Trip
  <2> QED BY <1>1, <2>1, TotalAddsUp
<1>3. NewTip(t, val) = [t EXCEPT !.tip = tip, !.total = total]
  BY DEF NewTip
<1> HIDE DEF tip, total
<1> QED BY <1>1, <1>2, <1>3 DEF Trip, AddsUp

\* A new total: the fare takes what it leaves, and when that is less than the
\* least fare the tip gives way, then the surcharges down to their minimum.
LEMMA NewTotalSound ==
  ASSUME NEW t \in Trip, NEW val \in Int
  PROVE  /\ NewTotal(t, val) \in Trip /\ AddsUp(NewTotal(t, val))
         /\ NewTotal(t, val).details = t.details
<1> DEFINE rate       == ratePerMile(t)
           surcharges == fixedSurcharges(t)
           total      == Rounded(AtLeast(val, 3300), 10)
           rest       == total - (t.tip + surcharges)
           fare       == Rounded(AtLeast(rest, 250), 1)
           tip        == IF rest < 250 THEN AtLeast(total - 250 - surcharges, 0)
                         ELSE t.tip
           distance   == Rounded(fare * rate.den, rate.num)
<1>1. rate.num \in Nat \ {0} /\ rate.den \in Nat \ {0}
  BY RateType
<1>2. surcharges \in Int /\ surcharges >= 80
  BY DEF fixedSurcharges, AtLeast, Trip
<1>3. total \in Int /\ total >= 330
  <2>1. AtLeast(val, 3300) \in Int /\ AtLeast(val, 3300) >= 3300
    BY DEF AtLeast
  <2> QED BY <2>1, RoundedTotal
<1>4. rest \in Int
  <2> HIDE DEF surcharges, total
  <2> QED BY <1>2, <1>3 DEF Trip
<1>5. fare \in Int /\ fare = AtLeast(rest, 250)
  <2> HIDE DEF rest
  <2>1. AtLeast(rest, 250) \in Int /\ AtLeast(rest, 250) >= 0
    BY <1>4 DEF AtLeast
  <2> QED BY <2>1, RoundedCents
<1>6. tip \in Int /\ total - (fare + tip) >= 80
  <2> HIDE DEF surcharges, total, fare
  <2> QED BY <1>2, <1>3, <1>5 DEF AtLeast, Trip
<1>7. distance \in Int
  <2> HIDE DEF fare, rate
  <2>1. fare * rate.den \in Int
    BY <1>1, <1>5
  <2> QED BY <1>1, <2>1, RoundedType
<1>8. NewTotal(t, val) = [t EXCEPT !.total = total, !.tip = tip,
                                   !.fare = fare, !.distance = distance]
  BY DEF NewTotal
<1> HIDE DEF rate, surcharges, total, rest, fare, tip, distance
<1>9. {total, fare, tip, distance} \subseteq Int
  BY <1>3, <1>5, <1>6, <1>7
<1>10. NewTotal(t, val) \in Trip
  BY <1>8, <1>9 DEF Trip
<1>11. /\ NewTotal(t, val).total = total /\ NewTotal(t, val).tip = tip
       /\ NewTotal(t, val).fare = fare
       /\ NewTotal(t, val).details = t.details
  BY <1>8 DEF Trip
<1>12. AddsUp(NewTotal(t, val))
  BY <1>6, <1>11 DEF AddsUp
<1> QED BY <1>10, <1>11, <1>12

\* New locations, one of which may be unknown.
LEMMA NewLocationsSound ==
  ASSUME NEW t \in Trip
  PROVE  /\ NewLocations(t) \in Trip /\ NewLocations(t).details = t.details
         /\ AddsUp(NewLocations(t)) \/ Amounts(NewLocations(t)) = Amounts(t)
<1>1. CASE Nil \in {t.pickup, t.dropoff}
  <2>1. NewLocations(t) = t
    BY <1>1 DEF NewLocations
  <2> QED BY <2>1
<1>2. CASE Nil \notin {t.pickup, t.dropoff}
  <2> DEFINE rate      == ratePerMile(t)
             diff      == IF t.pickup < t.dropoff THEN t.dropoff - t.pickup
                          ELSE t.pickup - t.dropoff
             estimated == Rounded(6 * diff + 120000, 1000)
             fare      == Rounded(estimated * rate.num, rate.den)
             total     == Total(fare, t.tip, fixedSurcharges(t))
  <2>1. rate.num \in Nat \ {0} /\ rate.den \in Nat \ {0}
    BY RateType
  <2>2. diff \in Int
    BY <1>2 DEF Trip, OrNil
  <2>3. estimated \in Int
    <3> HIDE DEF diff
    <3>1. 6 * diff + 120000 \in Int
      BY <2>2
    <3> QED BY <3>1, RoundedType
  <2>4. fare \in Int
    <3> HIDE DEF rate, estimated
    <3>1. estimated * rate.num \in Int
      BY <2>1, <2>3
    <3> QED BY <2>1, <3>1, RoundedType
  <2>5. total \in Int /\ total - (fare + t.tip) >= 80
    <3> HIDE DEF fare
    <3>1. t.tip \in Int
      BY DEF Trip
    <3> QED BY <2>4, <3>1, TotalAddsUp
  <2>6. NewLocations(t) = [t EXCEPT !.distance = estimated, !.fare = fare,
                                    !.total = total]
    BY <1>2 DEF NewLocations
  <2> HIDE DEF rate, diff, estimated, fare, total
  <2> QED BY <2>3, <2>4, <2>5, <2>6 DEF Trip, AddsUp
<1> QED BY <1>1, <1>2

\* The cascade, for any trip, field and value: its result is a trip that adds
\* up or whose amounts are the old ones, with the details it had.
LEMMA CascadeSound ==
  ASSUME NEW t \in Trip, NEW field \in Fields, NEW val \in Int
  PROVE  LET new == CalculateTripCascade(t, field, val)
         IN  /\ new \in Trip /\ (AddsUp(new) \/ Amounts(new) = Amounts(t))
             /\ new.details = t.details
<1> DEFINE new == CalculateTripCascade(t, field, val)
<1>1. CASE field = "trip_distance"
  BY <1>1, NewDistanceSound DEF CalculateTripCascade
<1>2. CASE field = "fare_amount"
  BY <1>2, NewFareSound DEF CalculateTripCascade
<1>3. CASE field = "tip_amount"
  BY <1>3, NewTipSound DEF CalculateTripCascade
<1>4. CASE field = "total_amount"
  BY <1>4, NewTotalSound DEF CalculateTripCascade
<1>5. CASE field = "passenger_count"
  <2> DEFINE p == IF val > 6000 THEN 6000 ELSE AtLeast(val, 1000)
  <2>1. p \in Int
    BY DEF AtLeast
  <2>2. new = [t EXCEPT !.passengers = p]
    BY <1>5 DEF CalculateTripCascade
  <2> HIDE DEF p, new
  <2>3. new \in Trip /\ Amounts(new) = Amounts(t) /\ new.details = t.details
    BY <2>1, <2>2 DEF Trip, OrNil, Amounts
  <2> QED BY <2>3 DEF new
<1>6. CASE field = "pu_location_id"
  <2> DEFINE moved == [t EXCEPT !.pickup = val]
  <2>1. /\ moved \in Trip /\ Amounts(moved) = Amounts(t)
        /\ moved.details = t.details
    BY DEF Trip, OrNil, Amounts
  <2>2. new = NewLocations(moved)
    BY <1>6 DEF CalculateTripCascade
  <2> HIDE DEF moved, new
  <2>3. /\ new \in Trip /\ (AddsUp(new) \/ Amounts(new) = Amounts(t))
        /\ new.details = t.details
    BY <2>1, <2>2, NewLocationsSound
  <2> QED BY <2>3 DEF new
<1>7. CASE field = "do_location_id"
  <2> DEFINE moved == [t EXCEPT !.dropoff = val]
  <2>1. /\ moved \in Trip /\ Amounts(moved) = Amounts(t)
        /\ moved.details = t.details
    BY DEF Trip, OrNil, Amounts
  <2>2. new = NewLocations(moved)
    BY <1>7 DEF CalculateTripCascade
  <2> HIDE DEF moved, new
  <2>3. /\ new \in Trip /\ (AddsUp(new) \/ Amounts(new) = Amounts(t))
        /\ new.details = t.details
    BY <2>1, <2>2, NewLocationsSound
  <2> QED BY <2>3 DEF new
<1>8. CASE field = "unknown"
  BY <1>8 DEF CalculateTripCascade
<1> QED BY <1>1, <1>2, <1>3, <1>4, <1>5, <1>6, <1>7, <1>8
        DEF Fields, MoneyFields, LocationFields

-----------------------------------------------------------------------------
(* Types. *)

\* The placeholder UpdateTripField falls back to is a trip that adds up.
LEMMA DefaultSound == DefaultTrip \in Trip /\ AddsUp(DefaultTrip)
  BY DEF DefaultTrip, Trip, OrNil, AddsUp

\* A handler's first state is one of a handler's.
LEMMA IdleType == Idle \in Handler
  BY DEF Idle, Handler

\* A handler goes on with a trip in hand, or drops it.
LEMMA HandlerStep ==
  ASSUME ops \in [Ops -> Handler], NEW o \in Ops,
         NEW pc \in {"exec", "store", "hydrate"}, NEW t \in Trip \cup {Nil},
         ops' = [ops EXCEPT ![o].pc = pc, ![o].trip = t]
  PROVE  /\ ops' \in [Ops -> Handler]
         /\ ops'[o].kind = ops[o].kind /\ ops'[o].key = ops[o].key
         /\ ops'[o].pc = pc /\ ops'[o].trip = t
         /\ \A p \in Ops \ {o} : ops'[p] = ops[p]
<1> DEFINE new == [ops[o] EXCEPT !.pc = pc, !.trip = t]
<1>1. /\ new \in Handler /\ new.pc = pc /\ new.trip = t
      /\ new.kind = ops[o].kind /\ new.key = ops[o].key
  BY DEF Handler
<1>2. ops' = [ops EXCEPT ![o] = new]
  BY Zenon
<1> HIDE DEF new
<1>3. /\ ops' \in [Ops -> Handler] /\ ops'[o] = new
      /\ \A p \in Ops \ {o} : ops'[p] = ops[p]
  BY <1>1, <1>2
<1> QED BY <1>1, <1>3

\* A handler answers.
LEMMA FinishStep ==
  ASSUME ops \in [Ops -> Handler], NEW o \in Ops, Finish(o)
  PROVE  /\ ops' \in [Ops -> Handler]
         /\ ops'[o].pc = "done"
         /\ \A p \in Ops \ {o} : ops'[p] = ops[p]
  BY IdleType DEF Finish, Idle, Handler

\* A handler goes on with what it has.
LEMMA GoToStep ==
  ASSUME ops \in [Ops -> Handler], NEW o \in Ops,
         NEW pc \in {"query", "store"}, GoTo(o, pc)
  PROVE  /\ ops' \in [Ops -> Handler]
         /\ ops'[o].kind = ops[o].kind /\ ops'[o].key = ops[o].key
         /\ ops'[o].update = ops[o].update /\ ops'[o].trip = ops[o].trip
         /\ ops'[o].pc = pc
         /\ \A p \in Ops \ {o} : ops'[p] = ops[p]
  BY DEF GoTo, Handler

\* A request arrives.
LEMMA BeginStep ==
  ASSUME ops \in [Ops -> Handler], NEW o \in Ops,
         NEW kind \in {"set", "get", "trip"}, NEW key \in Keys,
         NEW pc \in {"lookup", "query"}, NEW update \in Updates \cup {None},
         Begin(o, kind, key, pc, update)
  PROVE  /\ ops' \in [Ops -> Handler]
         /\ ops'[o].kind = kind /\ ops'[o].key = key
         /\ ops'[o].update = update /\ ops'[o].trip = Nil
         /\ ops'[o].pc = pc
         /\ \A p \in Ops \ {o} : ops'[p] = ops[p]
  BY IdleType DEF Begin, Idle, Handler

\* The first half of UpdateTripField leaves its handler with a trip that adds
\* up or has the amounts of the row it read, and has that row's details.
LEMMA QueryStep ==
  ASSUME TypeOK, NEW o \in Ops, UpdateQuery(o)
  PROVE  \E t \in Trip :
           /\ ops' = [ops EXCEPT ![o].pc = "exec", ![o].trip = t]
           /\ AddsUp(t) \/ (row # NoRow /\ Amounts(t) = Amounts(row))
           /\ row = NoRow \/ Fault \/ t.details = row.details
<1> DEFINE computed(base) == CalculateTripCascade(base, ops[o].update.field,
                                                  ops[o].update.val)
<1>1. ops[o].update.field \in Fields /\ ops[o].update.val \in Int
  BY TripsAssumption DEF TypeOK, UpdateQuery
<1>2. ASSUME NEW base \in Trip
      PROVE  /\ computed(base) \in Trip
             /\ AddsUp(computed(base)) \/ Amounts(computed(base)) = Amounts(base)
             /\ computed(base).details = base.details
  BY <1>1, CascadeSound
<1>3. CASE QuerySucceeds /\ ops' = [ops EXCEPT ![o].pc = "exec",
                                               ![o].trip = computed(row)]
  <2>1. row \in Trip /\ row # NoRow
    BY <1>3 DEF QuerySucceeds, TypeOK
  <2> HIDE DEF computed
  <2> QED BY <1>2, <1>3, <2>1
<1>4. CASE QueryFails /\ ops' = [ops EXCEPT ![o].pc = "exec",
                                            ![o].trip = computed(DefaultTrip)]
  <2> DEFINE t == computed(DefaultTrip)
  <2>1. t \in Trip /\ (AddsUp(t) \/ Amounts(t) = Amounts(DefaultTrip))
    BY <1>2, DefaultSound
  <2> HIDE DEF computed, t
  <2>2. AddsUp(t)
    BY <2>1, DefaultSound DEF AddsUp, Amounts
  <2>3. row = NoRow \/ Fault
    BY <1>4 DEF QueryFails, UpdateQuery
  <2> QED BY <1>4, <2>1, <2>2, <2>3 DEF t
<1> QED BY <1>3, <1>4 DEF UpdateQuery

\* Every step of the specification, from a well-typed state, yields one.
LEMMA TypeStep == TypeOK /\ [Next]_vars => TypeOK'
<1> SUFFICES ASSUME TypeOK, [Next]_vars PROVE TypeOK'
  OBVIOUS
<1> USE TripsAssumption DEF TypeOK
<1>1. CASE UNCHANGED vars
  BY <1>1 DEF vars, dbVars, history, At
<1>2. ASSUME NEW o \in Ops, NEW k \in Keys, NEW u \in Updates,
             BeginUpdate(o, k, u)
      PROVE  TypeOK'
  BY <1>2, IdleType DEF BeginUpdate, Begin, Idle, Handler, At, dbVars
<1>3. ASSUME NEW o \in Ops, NEW k \in Keys, BeginGet(o, k)
      PROVE  TypeOK'
  BY <1>3, IdleType DEF BeginGet, Begin, Idle, Handler, At, dbVars
<1>4. ASSUME NEW o \in Ops, BeginTrip(o)
      PROVE  TypeOK'
  BY <1>4, IdleType DEF BeginTrip, Begin, Idle, Handler, At, dbVars
<1>5. ASSUME NEW o \in Ops, UpdateQuery(o)
      PROVE  TypeOK'
  <2>1. PICK t \in Trip : ops' = [ops EXCEPT ![o].pc = "exec", ![o].trip = t]
    BY <1>5, QueryStep
  <2>2. faults' \in 0 .. MaxFaults
    BY <1>5 DEF UpdateQuery, QuerySucceeds, QueryFails, Fault
  <2> QED BY <1>5, <2>1, <2>2
          DEF UpdateQuery, At, Handler, dbVars, history
<1>6. ASSUME NEW o \in Ops, UpdateUnconnected(o)
      PROVE  TypeOK'
  BY <1>6 DEF UpdateUnconnected, GoTo, At, Handler, dbVars, history
<1>7. ASSUME NEW o \in Ops, UpdateExec(o)
      PROVE  TypeOK'
  <2>1. row' \in Trip \cup {NoRow}
    <3>1. ops[o].trip \in Trip
      BY <1>7 DEF UpdateExec, At
    <3>2. row # NoRow => [ops[o].trip EXCEPT !.details = row.details] \in Trip
      BY <3>1 DEF Trip
    <3> QED BY <1>7, <3>2 DEF UpdateExec, Exec
  <2>2. rows' \subseteq Trip /\ UNCHANGED <<connected, loaded>>
    BY <1>7, <2>1 DEF UpdateExec, Exec
  <2> QED BY <1>7, <2>1, <2>2 DEF UpdateExec, GoTo, At, Handler, history
<1>8. ASSUME NEW o \in Ops, UpdateExecFails(o)
      PROVE  TypeOK'
  <2>1. /\ ops' \in [Ops -> Handler]
        /\ ops'[o].pc = "store" /\ ops'[o].key = ops[o].key
        /\ \A p \in Ops \ {o} : ops'[p] = ops[p]
    <3>1. ops' = [ops EXCEPT ![o].pc = "store", ![o].trip = Nil]
      BY <1>8 DEF UpdateExecFails
    <3> QED BY <3>1, HandlerStep
  <2> QED BY <1>8, <2>1 DEF UpdateExecFails, Fault, At, dbVars, history
<1>9. ASSUME NEW o \in Ops, UpdateStore(o)
       PROVE  TypeOK'
  <2>1. StoredValue(o) \in Entry
    BY DEF StoredValue, Cached, Raw, Entry, Handler
  <2> QED BY FinishStep, <1>9, <2>1 DEF UpdateStore, At, dbVars, history
<1>10. ASSUME NEW o \in Ops, UpdateStoreFails(o)
       PROVE  TypeOK'
  BY FinishStep, <1>10 DEF UpdateStoreFails, Fault, At, dbVars, history
<1>11. ASSUME NEW o \in Ops, ReadHit(o)
       PROVE  TypeOK'
  BY FinishStep, <1>11 DEF ReadHit, At, dbVars, history
<1>12. ASSUME NEW o \in Ops, ReadMiss(o)
       PROVE  TypeOK'
  BY <1>12 DEF ReadMiss, Fault, GoTo, At, Handler, dbVars, history
<1>13. ASSUME NEW o \in Ops, GetQuery(o)
       PROVE  TypeOK'
  <2>1. hydrations' \subseteq Hydration
    BY <1>13 DEF GetQuery, QuerySucceeds, At, Hydration
  <2> QED BY FinishStep, <1>13, <2>1 DEF GetQuery, QuerySucceeds, At, dbVars, history
<1>14. ASSUME NEW o \in Ops, TripQuery(o)
       PROVE  TypeOK'
  <2>1. row \in Trip
    BY <1>14 DEF TripQuery, QuerySucceeds
  <2>2. /\ ops' \in [Ops -> Handler]
        /\ ops'[o].pc = "hydrate" /\ ops'[o].key = ops[o].key
        /\ ops'[o].trip = row
        /\ \A p \in Ops \ {o} : ops'[p] = ops[p]
    <3>1. ops' = [ops EXCEPT ![o].pc = "hydrate", ![o].trip = row]
      BY <1>14 DEF TripQuery
    <3> QED BY <2>1, <3>1, HandlerStep
  <2> QED BY <1>14, <2>1, <2>2
          DEF TripQuery, QuerySucceeds, At, dbVars, history
<1>15. ASSUME NEW o \in Ops, ReadQueryFails(o)
       PROVE  TypeOK'
  BY FinishStep, <1>15 DEF ReadQueryFails, QueryFails, Fault, At, dbVars, history
<1>16. ASSUME NEW o \in Ops, TripHydrate(o)
       PROVE  TypeOK'
  <2>1. Cached(ops[o].trip) \in Entry
    BY <1>16 DEF TripHydrate, At, Cached, Entry
  <2> QED BY FinishStep, <1>16, <2>1 DEF TripHydrate, Fault, At, dbVars, history
<1>17. ASSUME NEW h \in hydrations, Hydrate(h)
       PROVE  TypeOK'
  <2>1. Cached(h.trip) \in Entry /\ h.key \in Keys
    BY DEF Hydration, Cached, Entry
  <2> QED BY <1>17, <2>1 DEF Hydrate, Fault, At, dbVars, history
<1>18. ASSUME NEW k \in Keys, Evict(k)
       PROVE  TypeOK'
  BY <1>18 DEF Evict, Fault, At, dbVars, history
<1> QED BY <1>1, <1>2, <1>3, <1>4, <1>5, <1>6, <1>7, <1>8, <1>9, <1>10, <1>11,
           <1>12, <1>13, <1>14, <1>15, <1>16, <1>17, <1>18 DEF Next

\* The first state is well typed.
LEMMA TypeInit == Init => TypeOK
  BY TripsAssumption, IdleType DEF Init, TypeOK, Idle, At

(***************************************************************************)
(* Every reachable state of the gateway's database path is well typed: in  *)
(* particular a handler that is about to write a row or to hydrate the     *)
(* cache has a complete trip in hand.                                      *)
(***************************************************************************)
THEOREM TripsTypeCorrect == Spec => []TypeOK
  BY TypeInit, TypeStep, PTL DEF Spec

-----------------------------------------------------------------------------
(* The row. *)

\* No operation creates or removes the row.
RowStays == row = NoRow <=> loaded = NoRow

\* What may be written back: a trip that adds up, or the loaded amounts.
Keeps(t) == AddsUp(t) \/ (loaded # NoRow /\ Amounts(t) = Amounts(loaded))

\* Handlers between the two halves of UpdateTripField have such a trip in hand.
\* Another handler's write may come in between: the trip is stale, not unsound.
PlansKeep == \A o \in Ops : ops[o].pc = "exec" => Keeps(ops[o].trip)

RowInv == TypeOK /\ RowStays /\ PlansKeep /\ RowAddsUp

\* Every step other than the two halves of UpdateTripField leaves the row and
\* the handlers between those halves alone.
LEMMA RowUntouched ==
  ASSUME TypeOK, [Next]_vars,
         \A o \in Ops : ~UpdateQuery(o) /\ ~UpdateExec(o)
  PROVE  /\ row' = row /\ loaded' = loaded
         /\ \A p \in Ops : ops'[p].pc = "exec" => ops'[p] = ops[p]
<1> USE TripsAssumption DEF TypeOK
<1> DEFINE Goal == /\ row' = row /\ loaded' = loaded
                   /\ \A p \in Ops : ops'[p].pc = "exec" => ops'[p] = ops[p]
<1> SUFFICES Goal
  OBVIOUS
<1>1. CASE UNCHANGED vars
  BY <1>1 DEF vars, dbVars
<1>2. ASSUME NEW o \in Ops, NEW k \in Keys, NEW u \in Updates,
             BeginUpdate(o, k, u)
      PROVE  Goal
  <2>1. Begin(o, "set", k, "query", u)
    BY <1>2 DEF BeginUpdate
  <2> QED BY <2>1, BeginStep DEF Begin, dbVars
<1>3. ASSUME NEW o \in Ops, BeginTrip(o) \/ \E k \in Keys : BeginGet(o, k)
      PROVE  Goal
  <2>1. PICK key \in Keys, kind \in {"get", "trip"} :
          Begin(o, kind, key, "lookup", None)
    BY <1>3 DEF BeginGet, BeginTrip
  <2> QED BY <2>1, BeginStep DEF Begin, dbVars
<1>4. ASSUME NEW o \in Ops, UpdateUnconnected(o) \/ ReadMiss(o)
      PROVE  Goal
  <2>1. GoTo(o, "store") \/ GoTo(o, "query")
    BY <1>4 DEF UpdateUnconnected, ReadMiss
  <2>2. ops'[o].pc # "exec" /\ \A p \in Ops \ {o} : ops'[p] = ops[p]
    BY <2>1, GoToStep
  <2> QED BY <1>4, <2>2 DEF UpdateUnconnected, ReadMiss, dbVars
<1>5. ASSUME NEW o \in Ops, UpdateExecFails(o)
      PROVE  Goal
  <2>1. ops' = [ops EXCEPT ![o].pc = "store", ![o].trip = Nil]
    BY <1>5 DEF UpdateExecFails
  <2>2. ops'[o].pc # "exec" /\ \A p \in Ops \ {o} : ops'[p] = ops[p]
    BY <2>1, HandlerStep
  <2> QED BY <1>5, <2>2 DEF UpdateExecFails, dbVars
<1>6. ASSUME NEW o \in Ops, TripQuery(o)
      PROVE  Goal
  <2>1. row \in Trip /\ ops' = [ops EXCEPT ![o].pc = "hydrate", ![o].trip = row]
    BY <1>6 DEF TripQuery, QuerySucceeds
  <2>2. ops'[o].pc # "exec" /\ \A p \in Ops \ {o} : ops'[p] = ops[p]
    BY <2>1, HandlerStep
  <2> QED BY <1>6, <2>2 DEF TripQuery, dbVars
<1>7. ASSUME NEW o \in Ops,
             UpdateStore(o) \/ UpdateStoreFails(o) \/ ReadHit(o)
               \/ GetQuery(o) \/ ReadQueryFails(o) \/ TripHydrate(o)
      PROVE  Goal
  <2>1. Finish(o) /\ UNCHANGED dbVars
    BY <1>7 DEF UpdateStore, UpdateStoreFails, ReadHit, GetQuery,
                ReadQueryFails, TripHydrate
  <2> QED BY <2>1, FinishStep DEF dbVars
<1>8. ASSUME NEW h \in hydrations, Hydrate(h)
      PROVE  Goal
  BY <1>8 DEF Hydrate, dbVars
<1>9. ASSUME NEW k \in Keys, Evict(k)
      PROVE  Goal
  BY <1>9 DEF Evict, dbVars
<1> HIDE DEF Goal, TypeOK
<1> QED BY <1>1, <1>2, <1>3, <1>4, <1>5, <1>6, <1>7, <1>8, <1>9 DEF Next

\* Every step preserves RowInv.
LEMMA RowStep == RowInv /\ [Next]_vars => RowInv'
<1> SUFFICES ASSUME RowInv, [Next]_vars PROVE RowInv'
  OBVIOUS
<1>1. TypeOK /\ TypeOK'
  BY TypeStep DEF RowInv
<1>2. ASSUME NEW o \in Ops, UpdateQuery(o)
      PROVE  RowInv'
  <2>1. PICK t \in Trip :
          /\ ops' = [ops EXCEPT ![o].pc = "exec", ![o].trip = t]
          /\ AddsUp(t) \/ (row # NoRow /\ Amounts(t) = Amounts(row))
    BY <1>1, <1>2, QueryStep
  <2>2. ops'[o].trip = t /\ \A p \in Ops \ {o} : ops'[p] = ops[p]
    BY <1>1, <2>1, HandlerStep DEF TypeOK
  <2>3. row' = row /\ loaded' = loaded
    BY <1>2 DEF UpdateQuery, dbVars
  <2>4. Keeps(t)
    BY <2>1 DEF RowInv, RowStays, RowAddsUp, Keeps, AddsUp, Amounts
  <2>5. PlansKeep'
    BY <2>2, <2>3, <2>4 DEF RowInv, PlansKeep, Keeps
  <2> QED BY <1>1, <2>3, <2>5 DEF RowInv, RowStays, RowAddsUp
<1>3. ASSUME NEW o \in Ops, UpdateExec(o)
      PROVE  RowInv'
  <2>1. GoTo(o, "store")
    BY <1>3 DEF UpdateExec
  <2>2. ops'[o].pc = "store" /\ \A p \in Ops \ {o} : ops'[p] = ops[p]
    BY <1>1, <2>1, GoToStep DEF TypeOK
  <2> DEFINE new == [ops[o].trip EXCEPT !.details = row.details]
  <2>3. loaded' = loaded /\ row' = IF row = NoRow THEN NoRow ELSE new
    BY <1>3 DEF UpdateExec, Exec
  <2>4. Keeps(ops[o].trip) /\ ops[o].trip \in Trip
    BY <1>1, <1>3 DEF UpdateExec, At, RowInv, PlansKeep, TypeOK
  <2>7. row # NoRow => Keeps(new) /\ new \in Trip
    BY <1>1, <2>4 DEF Keeps, AddsUp, Amounts, Trip, TypeOK
  <2> HIDE DEF new
  <2>5. RowStays' /\ RowAddsUp'
    BY <2>3, <2>7, TripsAssumption DEF RowInv, RowStays, RowAddsUp, Keeps
  <2>6. PlansKeep'
    BY <2>2, <2>3 DEF RowInv, PlansKeep, Keeps
  <2> QED BY <1>1, <2>5, <2>6 DEF RowInv
<1>4. CASE \A o \in Ops : ~UpdateQuery(o) /\ ~UpdateExec(o)
  <2>1. /\ row' = row /\ loaded' = loaded
        /\ \A p \in Ops : ops'[p].pc = "exec" => ops'[p] = ops[p]
    BY <1>1, <1>4, RowUntouched
  <2> QED BY <1>1, <2>1 DEF RowInv, RowStays, PlansKeep, RowAddsUp, Keeps
<1> QED BY <1>2, <1>3, <1>4

(***************************************************************************)
(* Whatever updates, races and failed queries come, the row in the table   *)
(* has the amounts it was loaded with or a total that covers fare, tip and *)
(* the least surcharges: CalculateTripCascade establishes it, and no       *)
(* interleaving of the two halves of UpdateTripField breaks it.            *)
(***************************************************************************)
THEOREM RowsAddUp == Spec => []RowAddsUp
<1>1. Init => RowInv
  BY TypeInit, IdleType
     DEF Init, RowInv, RowStays, PlansKeep, RowAddsUp, Idle
<1>2. RowInv => RowAddsUp
  BY DEF RowInv
<1> QED BY <1>1, <1>2, RowStep, PTL DEF Spec

-----------------------------------------------------------------------------
(* The cache. *)

\* A handler has no trip in hand before its query.
HandsEmpty ==
  \A o \in Ops : ops[o].pc \in {"lookup", "query"} => ops[o].trip = Nil

\* The row, and what handlers and background hydrations are about to send to
\* the mesh, has been in the table as far as updates write it.
HeldWasPersisted ==
  row # NoRow =>
    /\ row.details = Own /\ Written(row) \in rows
    /\ \A o \in Ops : \/ ops[o].pc = "hydrate"
                      \/ ops[o].pc = "store" /\ ops[o].trip # Nil
                      => Written(ops[o].trip) \in rows
    /\ \A h \in hydrations : Written(h.trip) \in rows

ColumnsPersisted ==
  row # NoRow =>
    \A k \in Keys :
      cache[k] # NoEntry /\ cache[k].kind = "trip"
        => Written(cache[k].trip) \in rows

CacheInv == TypeOK /\ HandsEmpty /\ HeldWasPersisted /\ ColumnsPersisted

\* Every step preserves CacheInv.
LEMMA CacheStep == CacheInv /\ [Next]_vars => CacheInv'
<1> SUFFICES ASSUME CacheInv, [Next]_vars PROVE CacheInv'
  OBVIOUS
<1> USE DEF CacheInv, HandsEmpty, HeldWasPersisted, ColumnsPersisted
<1>1. TypeOK'
  BY TypeStep
<1>2. ops \in [Ops -> Handler] /\ cache \in [Keys -> Entry \cup {NoEntry}]
  BY DEF TypeOK
<1>3. CASE UNCHANGED vars
  BY <1>1, <1>3 DEF vars, dbVars
<1>4. ASSUME NEW o \in Ops,
             \/ \E k \in Keys, u \in Updates : BeginUpdate(o, k, u)
             \/ \E k \in Keys : BeginGet(o, k)
             \/ BeginTrip(o)
      PROVE  CacheInv'
  <2>1. PICK kind \in {"set", "get", "trip"}, key \in Keys,
             pc \in {"lookup", "query"}, update \in Updates \cup {None} :
          Begin(o, kind, key, pc, update)
    BY <1>4, TripsAssumption DEF BeginUpdate, BeginGet, BeginTrip
  <2>2. /\ ops'[o].pc = pc /\ ops'[o].trip = Nil
        /\ \A p \in Ops \ {o} : ops'[p] = ops[p]
    BY <1>2, <2>1, BeginStep
  <2>3. UNCHANGED <<dbVars, cache, hydrations>>
    BY <2>1 DEF Begin
  <2> QED BY <1>1, <2>2, <2>3 DEF dbVars
<1>5. ASSUME NEW o \in Ops, UpdateQuery(o)
      PROVE  CacheInv'
  <2>1. PICK t \in Trip : ops' = [ops EXCEPT ![o].pc = "exec", ![o].trip = t]
    BY <1>5, QueryStep
  <2>2. ops'[o].pc = "exec" /\ \A p \in Ops \ {o} : ops'[p] = ops[p]
    BY <1>2, <2>1, HandlerStep
  <2>3. UNCHANGED <<dbVars, cache, hydrations>>
    BY <1>5 DEF UpdateQuery
  <2> QED BY <1>1, <2>2, <2>3 DEF dbVars
<1>6. ASSUME NEW o \in Ops, UpdateUnconnected(o) \/ ReadMiss(o)
      PROVE  CacheInv'
  <2>1. PICK pc \in {"query", "store"} : GoTo(o, pc)
    BY <1>6 DEF UpdateUnconnected, ReadMiss
  <2>2. ops[o].trip = Nil /\ UNCHANGED <<dbVars, cache, hydrations>>
    BY <1>6 DEF UpdateUnconnected, ReadMiss, At
  <2>3. /\ ops'[o].pc = pc /\ ops'[o].trip = Nil
        /\ \A p \in Ops \ {o} : ops'[p] = ops[p]
    BY <1>2, <2>1, <2>2, GoToStep
  <2> QED BY <1>1, <2>2, <2>3 DEF dbVars
<1>7. ASSUME NEW o \in Ops, UpdateExec(o)
      PROVE  CacheInv'
  <2>1. GoTo(o, "store") /\ UNCHANGED <<cache, hydrations>>
    BY <1>7 DEF UpdateExec
  <2>2. /\ ops'[o].pc = "store" /\ ops'[o].trip = ops[o].trip
        /\ \A p \in Ops \ {o} : ops'[p] = ops[p]
    BY <1>2, <2>1, GoToStep
  <2>3. /\ row' = IF row = NoRow THEN NoRow
                  ELSE [ops[o].trip EXCEPT !.details = row.details]
        /\ rows' = rows \cup ({row'} \ {NoRow}) /\ ops[o].trip \in Trip
    BY <1>7 DEF UpdateExec, Exec, At, TypeOK
  <2>4. row' # NoRow => /\ row # NoRow /\ row'.details = Own
                        /\ Written(ops[o].trip) \in rows'
                        /\ Written(row') \in rows'
    <3>1. ASSUME row' # NoRow
          PROVE  row # NoRow /\ row' = Written(ops[o].trip) /\ row' \in rows'
      BY <2>3, <3>1 DEF Written
    <3>2. /\ Written(ops[o].trip).details = Own
          /\ Written(Written(ops[o].trip)) = Written(ops[o].trip)
      BY <2>3 DEF Written, Trip
    <3> QED BY <3>1, <3>2
  <2>5. rows \subseteq rows'
    BY <2>3
  <2> QED BY <1>1, <2>1, <2>2, <2>4, <2>5
<1>8. ASSUME NEW o \in Ops, UpdateExecFails(o)
      PROVE  CacheInv'
  <2>1. ops' = [ops EXCEPT ![o].pc = "store", ![o].trip = Nil]
    BY <1>8 DEF UpdateExecFails
  <2>2. /\ ops'[o].pc = "store" /\ ops'[o].trip = Nil
        /\ \A p \in Ops \ {o} : ops'[p] = ops[p]
    BY <1>2, <2>1, HandlerStep
  <2>3. UNCHANGED <<dbVars, cache, hydrations>>
    BY <1>8 DEF UpdateExecFails
  <2> QED BY <1>1, <2>2, <2>3 DEF dbVars
<1>9. ASSUME NEW o \in Ops, UpdateStore(o)
      PROVE  CacheInv'
  <2>1. /\ Finish(o) /\ UNCHANGED <<dbVars, hydrations>>
        /\ cache' = [cache EXCEPT ![ops[o].key] = StoredValue(o)]
    BY <1>9 DEF UpdateStore
  <2>2. ops'[o].pc = "done" /\ \A p \in Ops \ {o} : ops'[p] = ops[p]
    BY <1>2, <2>1, FinishStep
  <2>3. HandsEmpty' /\ HeldWasPersisted'
    BY <2>1, <2>2 DEF dbVars
  <2>4. row # NoRow /\ StoredValue(o).kind = "trip"
        => Written(StoredValue(o).trip) \in rows
    BY <1>9 DEF UpdateStore, At, StoredValue, Cached, Raw
  <2>5. ColumnsPersisted'
    BY <1>2, <2>1, <2>4 DEF dbVars
  <2> QED BY <1>1, <2>3, <2>5
<1>10. ASSUME NEW o \in Ops,
              UpdateStoreFails(o) \/ ReadHit(o) \/ ReadQueryFails(o)
       PROVE  CacheInv'
  <2>1. Finish(o) /\ UNCHANGED <<dbVars, cache, hydrations>>
    BY <1>10 DEF UpdateStoreFails, ReadHit, ReadQueryFails
  <2>2. ops'[o].pc = "done" /\ \A p \in Ops \ {o} : ops'[p] = ops[p]
    BY <1>2, <2>1, FinishStep
  <2> QED BY <1>1, <2>1, <2>2 DEF dbVars
<1>11. ASSUME NEW o \in Ops, GetQuery(o)
       PROVE  CacheInv'
  <2>1. /\ Finish(o) /\ UNCHANGED <<dbVars, cache>>
        /\ hydrations' = hydrations
             \cup {[op |-> o, key |-> ops[o].key, trip |-> row]}
    BY <1>11 DEF GetQuery
  <2>2. ops'[o].pc = "done" /\ \A p \in Ops \ {o} : ops'[p] = ops[p]
    BY <1>2, <2>1, FinishStep
  <2> QED BY <1>1, <2>1, <2>2 DEF dbVars
<1>12. ASSUME NEW o \in Ops, TripQuery(o)
       PROVE  CacheInv'
  <2>1. row \in Trip /\ ops' = [ops EXCEPT ![o].pc = "hydrate", ![o].trip = row]
    BY <1>12 DEF TripQuery, QuerySucceeds, TypeOK
  <2>2. /\ ops'[o].pc = "hydrate" /\ ops'[o].trip = row
        /\ \A p \in Ops \ {o} : ops'[p] = ops[p]
    BY <1>2, <2>1, HandlerStep
  <2>3. UNCHANGED <<dbVars, cache, hydrations>>
    BY <1>12 DEF TripQuery
  <2> QED BY <1>1, <2>2, <2>3 DEF dbVars
<1>13. ASSUME NEW o \in Ops, TripHydrate(o)
       PROVE  CacheInv'
  <2>1. /\ Finish(o) /\ UNCHANGED <<dbVars, hydrations>>
        /\ \/ cache' = [cache EXCEPT ![TripKey] = Cached(ops[o].trip)]
           \/ cache' = cache
    BY <1>13 DEF TripHydrate
  <2>2. ops'[o].pc = "done" /\ \A p \in Ops \ {o} : ops'[p] = ops[p]
    BY <1>2, <2>1, FinishStep
  <2>3. HandsEmpty' /\ HeldWasPersisted'
    BY <2>1, <2>2 DEF dbVars
  <2>4. row # NoRow => Written(Cached(ops[o].trip).trip) \in rows
    BY <1>13 DEF TripHydrate, At, Cached
  <2>5. ColumnsPersisted'
    BY <1>2, <2>1, <2>4 DEF dbVars
  <2> QED BY <1>1, <2>3, <2>5
<1>14. ASSUME NEW h \in hydrations, Hydrate(h)
       PROVE  CacheInv'
  <2>1. /\ UNCHANGED <<dbVars, ops>> /\ hydrations' = hydrations \ {h}
        /\ \/ cache' = [cache EXCEPT ![h.key] = Cached(h.trip)]
           \/ cache' = cache
    BY <1>14 DEF Hydrate
  <2>2. HandsEmpty' /\ HeldWasPersisted'
    BY <2>1 DEF dbVars
  <2>3. ColumnsPersisted'
    BY <1>2, <2>1 DEF dbVars, Cached
  <2> QED BY <1>1, <2>2, <2>3
<1>15. ASSUME NEW k \in Keys, Evict(k)
       PROVE  CacheInv'
  BY <1>1, <1>2, <1>15 DEF Evict, dbVars
<1> HIDE DEF CacheInv
<1> QED BY <1>3, <1>4, <1>5, <1>6, <1>7, <1>8, <1>9, <1>10, <1>11, <1>12,
           <1>13, <1>14, <1>15 DEF Next

-----------------------------------------------------------------------------
(* The columns that no update writes. *)

\* Details are made up only when a call failed: until then handlers, background
\* hydrations and the cache have the row's.
OwnInv ==
  row # NoRow /\ faults = 0 =>
    /\ \A o \in Ops : ops[o].trip # Nil => ops[o].trip.details = Own
    /\ \A h \in hydrations : h.trip.details = Own
    /\ \A k \in Keys : cache[k] # NoEntry /\ cache[k].kind = "trip"
                         => cache[k].trip.details = Own

\* Every step preserves OwnInv.
LEMMA OwnStep == CacheInv /\ OwnInv /\ [Next]_vars => OwnInv'
<1> SUFFICES ASSUME CacheInv, OwnInv, [Next]_vars, row' # NoRow, faults' = 0
             PROVE  /\ \A o \in Ops : ops'[o].trip # Nil
                                       => ops'[o].trip.details = Own
                    /\ \A h \in hydrations' : h.trip.details = Own
                    /\ \A k \in Keys :
                         cache'[k] # NoEntry /\ cache'[k].kind = "trip"
                           => cache'[k].trip.details = Own
  BY DEF OwnInv
<1> DEFINE Held  == \A o \in Ops : ops'[o].trip # Nil
                                  => ops'[o].trip.details = Own
           Under == \A h \in hydrations' : h.trip.details = Own
           Shown == \A k \in Keys : cache'[k] # NoEntry /\ cache'[k].kind = "trip"
                                    => cache'[k].trip.details = Own
<1>a. /\ ops \in [Ops -> Handler] /\ cache \in [Keys -> Entry \cup {NoEntry}]
      /\ faults \in Nat
  BY TripsAssumption DEF CacheInv, TypeOK
<1>b. ~Fault
  BY <1>a DEF Fault
<1>c. row # NoRow
  BY DEF Next, vars, dbVars, Exec, BeginUpdate, BeginGet, BeginTrip, Begin,
         UpdateQuery, UpdateUnconnected, UpdateExec, UpdateExecFails,
         UpdateStore, UpdateStoreFails, ReadHit, ReadMiss, GetQuery, TripQuery,
         ReadQueryFails, TripHydrate, Hydrate, Evict
<1>d. row.details = Own
  BY <1>c DEF CacheInv, HeldWasPersisted
<1>e. faults = 0
  BY <1>a, <1>b DEF Next, vars, BeginUpdate, BeginGet, BeginTrip, Begin,
         UpdateQuery, UpdateUnconnected, UpdateExec, UpdateExecFails,
         UpdateStore, UpdateStoreFails, ReadHit, ReadMiss, GetQuery, TripQuery,
         ReadQueryFails, TripHydrate, Hydrate, Evict, QuerySucceeds, QueryFails
<1>f. /\ \A o \in Ops : ops[o].trip # Nil => ops[o].trip.details = Own
      /\ \A h \in hydrations : h.trip.details = Own
      /\ \A k \in Keys : cache[k] # NoEntry /\ cache[k].kind = "trip"
                           => cache[k].trip.details = Own
  BY <1>c, <1>e DEF OwnInv
<1>1. CASE UNCHANGED vars
  BY <1>1, <1>f DEF vars
<1>2. ASSUME NEW o \in Ops,
             \/ \E k \in Keys, u \in Updates : BeginUpdate(o, k, u)
             \/ \E k \in Keys : BeginGet(o, k)
             \/ BeginTrip(o)
      PROVE  Held /\ Under /\ Shown
  <2>1. PICK kind \in {"set", "get", "trip"}, key \in Keys,
             pc \in {"lookup", "query"}, update \in Updates \cup {None} :
          Begin(o, kind, key, pc, update)
    BY <1>2, TripsAssumption DEF BeginUpdate, BeginGet, BeginTrip
  <2>2. ops'[o].trip = Nil /\ \A p \in Ops \ {o} : ops'[p] = ops[p]
    BY <1>a, <2>1, BeginStep
  <2>3. UNCHANGED <<cache, hydrations>>
    BY <2>1 DEF Begin
  <2> QED BY <1>f, <2>2, <2>3
<1>3. ASSUME NEW o \in Ops, UpdateQuery(o)
      PROVE  Held /\ Under /\ Shown
  <2>1. PICK t \in Trip : /\ ops' = [ops EXCEPT ![o].pc = "exec", ![o].trip = t]
                          /\ t.details = row.details
    BY <1>3, <1>b, <1>c, QueryStep DEF CacheInv
  <2>2. ops'[o].trip = t /\ \A p \in Ops \ {o} : ops'[p] = ops[p]
    BY <1>a, <2>1, HandlerStep
  <2>3. UNCHANGED <<cache, hydrations>>
    BY <1>3 DEF UpdateQuery
  <2> QED BY <1>d, <1>f, <2>1, <2>2, <2>3
<1>4. ASSUME NEW o \in Ops, UpdateUnconnected(o) \/ ReadMiss(o) \/ UpdateExec(o)
      PROVE  Held /\ Under /\ Shown
  <2>1. PICK pc \in {"query", "store"} : GoTo(o, pc)
    BY <1>4 DEF UpdateUnconnected, ReadMiss, UpdateExec
  <2>2. UNCHANGED <<cache, hydrations>>
    BY <1>4 DEF UpdateUnconnected, ReadMiss, UpdateExec
  <2>3. ops'[o].trip = ops[o].trip /\ \A p \in Ops \ {o} : ops'[p] = ops[p]
    BY <1>a, <2>1, GoToStep
  <2> QED BY <1>f, <2>2, <2>3
<1>5. ASSUME NEW o \in Ops, TripQuery(o)
      PROVE  Held /\ Under /\ Shown
  <2>1. row \in Trip /\ ops' = [ops EXCEPT ![o].pc = "hydrate", ![o].trip = row]
    BY <1>5 DEF TripQuery, QuerySucceeds, CacheInv, TypeOK
  <2>2. ops'[o].trip = row /\ \A p \in Ops \ {o} : ops'[p] = ops[p]
    BY <1>a, <2>1, HandlerStep
  <2>3. UNCHANGED <<cache, hydrations>>
    BY <1>5 DEF TripQuery
  <2> QED BY <1>d, <1>f, <2>2, <2>3
<1>6. ASSUME NEW o \in Ops,
             \/ UpdateStore(o) \/ ReadHit(o) \/ GetQuery(o)
             \/ ReadQueryFails(o) \/ TripHydrate(o)
      PROVE  Held /\ Under /\ Shown
  <2>1. Held
    <3>1. Finish(o)
      BY <1>6 DEF UpdateStore, ReadHit, GetQuery, ReadQueryFails, TripHydrate
    <3>2. ops'[o].trip = Nil /\ \A p \in Ops \ {o} : ops'[p] = ops[p]
      BY <1>a, <3>1 DEF Finish, Idle
    <3> QED BY <1>f, <3>2
  <2>2. Under
    BY <1>6, <1>d, <1>f
       DEF UpdateStore, ReadHit, GetQuery, ReadQueryFails, TripHydrate
  <2>3. Shown
    <3>1. CASE UpdateStore(o)
      <4>1. cache' = [cache EXCEPT ![ops[o].key] = StoredValue(o)]
        BY <3>1 DEF UpdateStore
      <4>2. StoredValue(o).kind = "trip" => StoredValue(o).trip.details = Own
        BY <1>f DEF StoredValue, Cached, Raw
      <4> QED BY <1>a, <1>f, <4>1, <4>2
    <3>2. CASE TripHydrate(o)
      <4>1. cache' = [cache EXCEPT ![TripKey] = Cached(ops[o].trip)]
        BY <1>b, <3>2 DEF TripHydrate
      <4>2. ops[o].trip # Nil
        BY <3>2, TripsAssumption DEF TripHydrate, At, CacheInv, TypeOK
      <4>3. Cached(ops[o].trip).trip.details = Own
        BY <1>f, <4>2 DEF Cached
      <4> QED BY <1>a, <1>f, <4>1, <4>3
    <3>3. CASE ReadHit(o) \/ GetQuery(o) \/ ReadQueryFails(o)
      BY <1>f, <3>3 DEF ReadHit, GetQuery, ReadQueryFails
    <3> QED BY <1>6, <3>1, <3>2, <3>3
  <2> QED BY <2>1, <2>2, <2>3
<1>7. ASSUME NEW h \in hydrations, Hydrate(h)
      PROVE  Held /\ Under /\ Shown
  <2>1. /\ cache' = [cache EXCEPT ![h.key] = Cached(h.trip)]
        /\ UNCHANGED ops /\ hydrations' \subseteq hydrations
    BY <1>7, <1>b DEF Hydrate
  <2>2. Cached(h.trip).trip.details = Own
    BY <1>f DEF Cached
  <2> QED BY <1>a, <1>f, <2>1, <2>2
<1>8. ASSUME NEW o \in Ops, UpdateExecFails(o) \/ UpdateStoreFails(o)
      PROVE  FALSE
  BY <1>8, <1>b DEF UpdateExecFails, UpdateStoreFails
<1>9. ASSUME NEW k \in Keys, Evict(k)
      PROVE  FALSE
  BY <1>9, <1>b DEF Evict
<1> QED BY <1>1, <1>2, <1>3, <1>4, <1>5, <1>6, <1>7, <1>8, <1>9 DEF Next

LEMMA CacheHolds == Spec => [](CacheInv /\ OwnInv)
<1>1. Init => CacheInv /\ OwnInv
  <2> SUFFICES ASSUME Init PROVE CacheInv /\ OwnInv
    OBVIOUS
  <2>1. TypeOK
    BY TypeInit
  <2>2. row # NoRow => row \in Trip /\ row.details = Own /\ Written(row) \in rows
    <3>1. row # NoRow => row \in Trip /\ row.details = Own /\ row \in rows
      BY TripsAssumption DEF Init
    <3>2. row # NoRow => Written(row) = row
      BY <3>1 DEF Written, Trip
    <3> QED BY <3>1, <3>2
  <2> QED BY <2>1, <2>2 DEF Init, CacheInv, OwnInv, HandsEmpty, HeldWasPersisted,
                            ColumnsPersisted, Idle
<1> QED BY <1>1, CacheStep, OwnStep, PTL DEF Spec

(***************************************************************************)
(* A trip in the cache has been in the table, for any number of concurrent *)
(* updates, reads and background hydrations: the write-through stores what *)
(* UpdateTripField wrote, and a failed update is not cached as a trip.     *)
(* The columns no UPDATE writes are the row's own unless a call failed.    *)
(***************************************************************************)
THEOREM PersistedFirst == Spec => []CachedTripWasPersisted
<1>1. CacheInv /\ OwnInv => CachedTripWasPersisted
  <2> SUFFICES ASSUME CacheInv, OwnInv, row # NoRow, NEW k \in Keys,
                      cache[k] # NoEntry, cache[k].kind = "trip"
               PROVE  /\ Written(cache[k].trip) \in rows
                      /\ faults = 0 => cache[k].trip \in rows
    BY DEF CachedTripWasPersisted
  <2>1. Written(cache[k].trip) \in rows
    BY DEF CacheInv, ColumnsPersisted
  <2>2. cache[k].trip \in Trip
    BY DEF CacheInv, TypeOK, Entry
  <2>3. faults = 0 => cache[k].trip.details = Own
    BY DEF OwnInv
  <2>4. faults = 0 => Written(cache[k].trip) = cache[k].trip
    BY <2>2, <2>3 DEF Written, Trip
  <2> QED BY <2>1, <2>4
<1> QED BY <1>1, CacheHolds, PTL

-----------------------------------------------------------------------------
(* Coherence of a key with its row. *)

Calmly  == connected /\ row # NoRow /\ calm /\ faults = 0
Sets(o) == o \in Active /\ ops[o].kind = "set"

(***************************************************************************)
(* In a calm behaviour an update is alone from its query to its store, all *)
(* that is about to be sent to the mesh is the present row, and the key    *)
(* has it too, except between the two writes of its update.                *)
(***************************************************************************)
CalmInv ==
  /\ \A o \in Ops : ops[o].pc \in {"exec", "store"} => ops[o].kind = "set"
  /\ Calmly =>
     /\ \A o \in Ops : Sets(o) =>
          hydrations = {} /\ Active = {o} /\ ops[o].key \in written
     /\ \A o \in Ops : ops[o].pc \in {"store", "hydrate"} => ops[o].trip = row
     /\ \A h \in hydrations : h.trip = row
     /\ \A k \in Keys :
          written \subseteq {k} /\ (\A o \in Ops : ops[o].pc # "store")
            => cache[k] \in {NoEntry, Cached(row)}

\* A failed call ends the calm.
LEMMA FaultEndsCalm ==
  ASSUME TypeOK, Fault
  PROVE  ~Calmly'
  BY TripsAssumption DEF TypeOK, Fault, Calmly

\* A handler goes on without touching row, cache or background hydrations.
LEMMA CalmMove ==
  ASSUME TypeOK, CalmInv, NEW o \in Ops, o \in Active, ops[o].pc # "store",
         \A p \in Ops \ {o} : ops'[p] = ops[p],
         UNCHANGED <<dbVars, cache, hydrations, history>>,
         Calmly' => faults = 0,
         \/ ops'[o].pc = "done"
         \/ /\ ops'[o].pc \in {"query", "exec", "hydrate"}
            /\ ops'[o].kind = ops[o].kind /\ ops'[o].key = ops[o].key,
         ops'[o].pc = "exec" => ops[o].kind = "set",
         ops'[o].pc = "hydrate" => ops'[o].trip = row
  PROVE  CalmInv'
<1>1. \A p \in Ops : ops'[p].pc \in {"exec", "store"} => ops'[p].kind = "set"
  BY DEF CalmInv
<1>2. Calmly' => Calmly
  BY DEF Calmly, dbVars, history
<1>3. ASSUME Calmly', NEW p \in Ops, Sets(p)'
      PROVE  hydrations' = {} /\ Active' = {p} /\ ops'[p].key \in written'
  <2>1. Sets(p) /\ ops'[p].key = ops[p].key
    BY <1>3 DEF Sets, Active
  <2>2. hydrations = {} /\ Active = {p} /\ ops[p].key \in written
    BY <1>2, <1>3, <2>1 DEF CalmInv
  <2>3. p = o /\ Active' = {p}
    BY <1>3, <2>2 DEF Active, Sets
  <2> QED BY <2>1, <2>2, <2>3 DEF history
<1>4. \A p \in Ops : (ops'[p].pc = "store" <=> ops[p].pc = "store")
  OBVIOUS
<1>5. ASSUME Calmly'
      PROVE  /\ \A p \in Ops : ops'[p].pc \in {"store", "hydrate"}
                                 => ops'[p].trip = row'
             /\ \A h \in hydrations' : h.trip = row'
  BY <1>2, <1>5 DEF CalmInv, dbVars
<1>6. ASSUME Calmly', NEW k \in Keys, written' \subseteq {k},
             \A p \in Ops : ops'[p].pc # "store"
      PROVE  cache'[k] \in {NoEntry, Cached(row')}
  BY <1>2, <1>4, <1>6 DEF CalmInv, dbVars, history
<1> QED BY <1>1, <1>3, <1>5, <1>6 DEF CalmInv, Cached

\* Every step preserves CalmInv.
LEMMA CalmStep == CacheInv /\ OwnInv /\ CalmInv /\ [Next]_vars => CalmInv'
<1> SUFFICES ASSUME CacheInv, OwnInv, TypeOK, CalmInv, [Next]_vars PROVE CalmInv'
  BY DEF CacheInv
<1>a. ops \in [Ops -> Handler] /\ cache \in [Keys -> Entry \cup {NoEntry}]
      /\ faults \in Nat
  BY TripsAssumption DEF TypeOK
<1>1. CASE UNCHANGED vars
  BY <1>1
  DEF vars, dbVars, history, CalmInv, Calmly, Sets, Active, Cached
<1>2. ASSUME NEW o \in Ops, NEW k \in Keys, NEW u \in Updates,
             BeginUpdate(o, k, u)
      PROVE  CalmInv'
  <2>1. /\ ops'[o].kind = "set" /\ ops'[o].key = k /\ ops'[o].pc = "query"
        /\ \A p \in Ops \ {o} : ops'[p] = ops[p]
    <3>1. Begin(o, "set", k, "query", u)
      BY <1>2 DEF BeginUpdate
    <3> QED BY <1>a, <3>1, BeginStep
  <2>2. /\ UNCHANGED <<dbVars, cache, hydrations, faults>>
        /\ written' = written \cup {k} /\ calm' = (calm /\ Quiet)
    BY <1>2 DEF BeginUpdate, Begin
  <2>3. \A p \in Ops : ops'[p].pc \in {"exec", "store"} => ops'[p].kind = "set"
    BY <2>1 DEF CalmInv
  <2>4. ASSUME Calmly'
        PROVE  Calmly /\ Quiet
    BY <2>2, <2>4 DEF Calmly, dbVars
  <2>5. ASSUME Calmly'
        PROVE  /\ Active' = {o} /\ hydrations' = {}
               /\ \A p \in Ops : ops'[p].pc \notin {"store", "hydrate"}
               /\ \A p \in Ops : ops[p].pc # "store"
    <3>1. \A p \in Ops : ops[p].pc \in {"idle", "done"}
      BY <2>4, <2>5 DEF Quiet, Active
    <3> QED BY <2>1, <2>2, <2>4, <2>5, <3>1 DEF Quiet, Active
  <2>6. ASSUME Calmly', NEW j \in Keys, written' \subseteq {j}
        PROVE  cache'[j] \in {NoEntry, Cached(row')}
    BY <2>2, <2>4, <2>5, <2>6 DEF CalmInv, dbVars
  <2> QED BY <2>1, <2>2, <2>3, <2>5, <2>6 DEF CalmInv, Sets, Cached
<1>3. ASSUME NEW o \in Ops, BeginTrip(o) \/ \E k \in Keys : BeginGet(o, k)
      PROVE  CalmInv'
  <2>1. PICK key \in Keys, kind \in {"get", "trip"} :
          Begin(o, kind, key, "lookup", None)
    BY <1>3, TripsAssumption DEF BeginGet, BeginTrip
  <2>2. /\ ops'[o].kind = kind /\ ops'[o].pc = "lookup"
        /\ \A p \in Ops \ {o} : ops'[p] = ops[p]
    BY <1>a, <2>1, BeginStep
  <2>3. /\ UNCHANGED <<dbVars, cache, hydrations, faults, written>>
        /\ calm' = (calm /\ ~Updating) /\ ops[o].pc = "idle"
    <3>1. UNCHANGED <<dbVars, cache, hydrations, faults>> /\ UNCHANGED written
      BY <1>3, <2>1 DEF Begin, BeginGet, BeginTrip
    <3>2. kind # "set"
      OBVIOUS
    <3>3. calm' = (calm /\ ~Updating)
      BY <2>1, <3>2 DEF Begin
    <3>4. ops[o].pc = "idle"
      BY <2>1 DEF Begin, Idle
    <3> QED BY <3>1, <3>3, <3>4
  <2>4. \A p \in Ops : ops'[p].pc \in {"exec", "store"} => ops'[p].kind = "set"
    BY <2>2 DEF CalmInv
  <2>5. ASSUME Calmly' PROVE Calmly /\ \A p \in Ops : ~Sets(p)'
    BY <2>2, <2>3, <2>5 DEF Calmly, dbVars, Updating, Sets, Active
  <2>6. ASSUME Calmly'
        PROVE  \A p \in Ops : ops'[p].pc \in {"store", "hydrate"}
                                 => ops'[p].trip = row'
    BY <2>2, <2>3, <2>5, <2>6 DEF CalmInv, dbVars
  <2>7. ASSUME Calmly', NEW j \in Keys, written' \subseteq {j},
               \A p \in Ops : ops'[p].pc # "store"
        PROVE  cache'[j] \in {NoEntry, Cached(row')}
    <3>1. \A p \in Ops : ops[p].pc # "store"
      BY <2>2, <2>3, <2>7
    <3> QED BY <2>3, <2>5, <2>7, <3>1 DEF CalmInv, dbVars
  <2> QED BY <2>3, <2>4, <2>5, <2>6, <2>7 DEF CalmInv, dbVars, Cached
<1>4. ASSUME NEW o \in Ops, UpdateQuery(o)
      PROVE  CalmInv'
  <2>1. PICK t \in Trip : ops' = [ops EXCEPT ![o].pc = "exec", ![o].trip = t]
    BY <1>4, QueryStep
  <2>2. /\ ops'[o].pc = "exec" /\ ops'[o].kind = ops[o].kind
        /\ ops'[o].key = ops[o].key /\ \A p \in Ops \ {o} : ops'[p] = ops[p]
    BY <1>a, <2>1, HandlerStep
  <2>3. /\ UNCHANGED <<dbVars, cache, hydrations, history>>
        /\ ops[o].kind = "set" /\ ops[o].pc = "query"
        /\ faults' = faults \/ Fault
    BY <1>4 DEF UpdateQuery, At, QuerySucceeds, QueryFails
  <2>4. Calmly' => faults = 0
    BY <2>3, FaultEndsCalm DEF Calmly
  <2> QED BY <2>2, <2>3, <2>4, CalmMove DEF Active
<1>5. ASSUME NEW o \in Ops, UpdateUnconnected(o) \/ UpdateExecFails(o)
      PROVE  CalmInv'
  <2>1. /\ ~Calmly' /\ ops[o].kind = "set"
        /\ ops'[o].kind = "set" /\ \A p \in Ops \ {o} : ops'[p] = ops[p]
    <3>1. CASE UpdateUnconnected(o)
      BY <1>a, <3>1, GoToStep DEF UpdateUnconnected, Calmly, dbVars, At
    <3>2. CASE UpdateExecFails(o)
      <4>1. Fault /\ ops' = [ops EXCEPT ![o].pc = "store", ![o].trip = Nil]
            /\ ops[o].kind = "set"
        BY <3>2 DEF UpdateExecFails, At
      <4> QED BY <1>a, <4>1, HandlerStep, FaultEndsCalm
    <3> QED BY <1>5, <3>1, <3>2
  <2> QED BY <2>1 DEF CalmInv
<1>6. ASSUME NEW o \in Ops, UpdateExec(o)
      PROVE  CalmInv'
  <2>1. /\ ops'[o].kind = ops[o].kind /\ ops'[o].key = ops[o].key
        /\ ops'[o].trip = ops[o].trip /\ ops'[o].pc = "store"
        /\ \A p \in Ops \ {o} : ops'[p] = ops[p]
    BY <1>a, <1>6, GoToStep DEF UpdateExec
  <2>2. /\ ops[o].kind = "set" /\ ops[o].pc = "exec" /\ ops[o].trip \in Trip
        /\ UNCHANGED <<cache, hydrations, faults, history, connected>>
        /\ row' = IF row = NoRow THEN NoRow
                  ELSE [ops[o].trip EXCEPT !.details = row.details]
    BY <1>6 DEF UpdateExec, Exec, At, TypeOK
  <2>3. \A p \in Ops : ops'[p].pc \in {"exec", "store"} => ops'[p].kind = "set"
    BY <2>1, <2>2 DEF CalmInv
  <2>4. ASSUME Calmly'
        PROVE  /\ Calmly /\ row' = ops[o].trip
               /\ Active = {o} /\ hydrations = {} /\ ops[o].key \in written
    <3>a. Calmly
      BY <2>2, <2>4 DEF Calmly, history
    <3>b. ops[o].trip.details = row.details
      BY <2>2, <3>a, TripsAssumption
         DEF Calmly, OwnInv, CacheInv, HeldWasPersisted
    <3>1. Calmly /\ row' = ops[o].trip
      BY <2>2, <3>a, <3>b DEF Calmly, Trip
    <3>2. Sets(o)
      BY <2>2 DEF Sets, Active
    <3> QED BY <3>1, <3>2 DEF CalmInv
  <2>5. ASSUME Calmly' PROVE Active' = {o}
    BY <2>1, <2>4, <2>5 DEF Active
  <2>6. ASSUME Calmly', NEW p \in Ops, ops'[p].pc \in {"store", "hydrate"}
        PROVE  ops'[p].trip = row'
    <3>1. p \in Active'
      BY <2>6 DEF Active
    <3> QED BY <2>1, <2>4, <2>5, <2>6, <3>1
  <2> QED BY <2>1, <2>2, <2>3, <2>4, <2>5, <2>6 DEF CalmInv, Sets, history
<1>7. ASSUME NEW o \in Ops, UpdateStore(o)
      PROVE  CalmInv'
  <2>1. ops'[o].pc = "done" /\ \A p \in Ops \ {o} : ops'[p] = ops[p]
    BY <1>a, <1>7, FinishStep DEF UpdateStore
  <2>2. /\ ops[o].kind = "set" /\ ops[o].pc = "store" /\ ops[o].key \in Keys
        /\ UNCHANGED <<dbVars, hydrations, faults, history>>
        /\ cache' = [cache EXCEPT ![ops[o].key] = StoredValue(o)]
    BY <1>7 DEF UpdateStore, At, TypeOK
  <2>3. \A p \in Ops : ops'[p].pc \in {"exec", "store"} => ops'[p].kind = "set"
    BY <2>1, <2>2 DEF CalmInv
  <2>4. ASSUME Calmly'
        PROVE  /\ Calmly /\ Active = {o} /\ hydrations = {}
               /\ ops[o].key \in written /\ ops[o].trip = row
    <3>1. Calmly
      BY <2>2, <2>4 DEF Calmly, history, dbVars
    <3>2. Sets(o)
      BY <2>2 DEF Sets, Active
    <3> QED BY <2>2, <3>1, <3>2 DEF CalmInv
  <2>5. ASSUME Calmly' PROVE Active' = {}
    BY <2>1, <2>4, <2>5 DEF Active
  <2>6. ASSUME Calmly' PROVE StoredValue(o) = Cached(row)
    BY <2>4, <2>6, TripsAssumption DEF StoredValue, Calmly, TypeOK
  <2>7. ASSUME Calmly', NEW k \in Keys, written' \subseteq {k}
        PROVE  cache'[k] = Cached(row')
    BY <1>a, <2>2, <2>4, <2>6, <2>7 DEF dbVars, history
  <2>8. ASSUME Calmly', NEW p \in Ops
        PROVE  ops'[p].pc \notin {"store", "hydrate"} /\ ~Sets(p)'
    BY <2>5, <2>8 DEF Active, Sets
  <2> QED BY <2>2, <2>3, <2>4, <2>7, <2>8 DEF CalmInv, Cached
<1>8. ASSUME NEW o \in Ops, UpdateStoreFails(o)
      PROVE  CalmInv'
  <2>1. ops'[o].pc = "done" /\ \A p \in Ops \ {o} : ops'[p] = ops[p]
    BY <1>a, <1>8, FinishStep DEF UpdateStoreFails
  <2>2. ~Calmly'
    BY <1>8, FaultEndsCalm DEF UpdateStoreFails
  <2> QED BY <2>1, <2>2 DEF CalmInv
<1>9. ASSUME NEW o \in Ops, ReadHit(o) \/ ReadQueryFails(o)
      PROVE  CalmInv'
  <2>1. ops'[o].pc = "done" /\ \A p \in Ops \ {o} : ops'[p] = ops[p]
    BY <1>a, <1>9, FinishStep DEF ReadHit, ReadQueryFails
  <2>2. /\ UNCHANGED <<dbVars, cache, hydrations, history>>
        /\ ops[o].pc \in {"lookup", "query"}
        /\ faults' = faults \/ Fault
    BY <1>9 DEF ReadHit, ReadQueryFails, At, QueryFails
  <2>3. Calmly' => faults = 0
    BY <2>2, FaultEndsCalm DEF Calmly
  <2> QED BY <2>1, <2>2, <2>3, CalmMove DEF Active
<1>10. ASSUME NEW o \in Ops, ReadMiss(o)
       PROVE  CalmInv'
  <2>1. /\ ops'[o].kind = ops[o].kind /\ ops'[o].key = ops[o].key
        /\ ops'[o].pc = "query" /\ \A p \in Ops \ {o} : ops'[p] = ops[p]
    BY <1>a, <1>10, GoToStep DEF ReadMiss
  <2>2. /\ UNCHANGED <<dbVars, cache, hydrations, history>>
        /\ ops[o].pc = "lookup" /\ (faults' = faults \/ Fault)
    BY <1>10 DEF ReadMiss, At
  <2>3. Calmly' => faults = 0
    BY <2>2, FaultEndsCalm DEF Calmly
  <2> QED BY <2>1, <2>2, <2>3, CalmMove DEF Active
<1>11. ASSUME NEW o \in Ops, TripQuery(o)
       PROVE  CalmInv'
  <2>1. row \in Trip /\ ops' = [ops EXCEPT ![o].pc = "hydrate", ![o].trip = row]
    BY <1>11 DEF TripQuery, QuerySucceeds, TypeOK
  <2>2. /\ ops'[o].kind = ops[o].kind /\ ops'[o].key = ops[o].key
        /\ ops'[o].pc = "hydrate" /\ ops'[o].trip = row
        /\ \A p \in Ops \ {o} : ops'[p] = ops[p]
    BY <1>a, <2>1, HandlerStep
  <2>3. /\ UNCHANGED <<dbVars, cache, hydrations, history, faults>>
        /\ ops[o].pc = "query"
    BY <1>11 DEF TripQuery, QuerySucceeds, At
  <2>4. Calmly' => faults = 0
    BY <2>3 DEF Calmly
  <2> QED BY <2>2, <2>3, <2>4, CalmMove DEF Active
<1>12. ASSUME NEW o \in Ops, GetQuery(o)
       PROVE  CalmInv'
  <2>1. ops'[o].pc = "done" /\ \A p \in Ops \ {o} : ops'[p] = ops[p]
    BY <1>a, <1>12, FinishStep DEF GetQuery
  <2>2. /\ ops[o].kind = "get" /\ ops[o].pc = "query"
        /\ UNCHANGED <<dbVars, cache, faults, history>>
        /\ \A h \in hydrations' : h \in hydrations \/ h.trip = row
    BY <1>12 DEF GetQuery, At, QuerySucceeds
  <2>3. \A p \in Ops : ops'[p].pc \in {"exec", "store"} => ops'[p].kind = "set"
    BY <2>1 DEF CalmInv
  <2>4. ASSUME Calmly' PROVE Calmly /\ \A p \in Ops : ~Sets(p)'
    <3>1. Calmly
      BY <2>2, <2>4 DEF Calmly, dbVars, history
    <3>2. o \in Active /\ ~Sets(o)
      BY <2>2 DEF Active, Sets
    <3>3. \A p \in Ops : ~Sets(p)
      BY <3>1, <3>2 DEF CalmInv
    <3> QED BY <2>1, <3>1, <3>3 DEF Sets, Active
  <2>5. \A p \in Ops : ops'[p].pc = "store" <=> ops[p].pc = "store"
    BY <2>1, <2>2
  <2>6. ASSUME Calmly'
        PROVE  /\ \A p \in Ops : ops'[p].pc \in {"store", "hydrate"}
                                   => ops'[p].trip = row'
               /\ \A h \in hydrations' : h.trip = row'
    BY <2>1, <2>2, <2>4, <2>6 DEF CalmInv, dbVars
  <2>7. ASSUME Calmly', NEW k \in Keys, written' \subseteq {k},
               \A p \in Ops : ops'[p].pc # "store"
        PROVE  cache'[k] \in {NoEntry, Cached(row')}
    BY <2>2, <2>4, <2>5, <2>7 DEF CalmInv, dbVars, history
  <2> QED BY <2>3, <2>4, <2>6, <2>7 DEF CalmInv, Cached
<1>13. ASSUME NEW o \in Ops, TripHydrate(o)
       PROVE  CalmInv'
  <2>1. ops'[o].pc = "done" /\ \A p \in Ops \ {o} : ops'[p] = ops[p]
    BY <1>a, <1>13, FinishStep DEF TripHydrate
  <2>2. /\ ops[o].kind = "trip" /\ ops[o].pc = "hydrate"
        /\ UNCHANGED <<dbVars, hydrations, history>>
        /\ \/ Fault
           \/ /\ cache' = [cache EXCEPT ![TripKey] = Cached(ops[o].trip)]
              /\ faults' = faults
    BY <1>13 DEF TripHydrate, At
  <2>3. \A p \in Ops : ops'[p].pc \in {"exec", "store"} => ops'[p].kind = "set"
    BY <2>1 DEF CalmInv
  <2>4. ASSUME Calmly'
        PROVE  /\ Calmly /\ \A p \in Ops : ~Sets(p)'
               /\ cache' = [cache EXCEPT ![TripKey] = Cached(row)]
    <3>1. Calmly /\ cache' = [cache EXCEPT ![TripKey] = Cached(ops[o].trip)]
      BY <2>2, <2>4, FaultEndsCalm DEF Calmly, dbVars, history
    <3>2. o \in Active /\ ~Sets(o) /\ ops[o].trip = row
      BY <2>2, <3>1 DEF Active, Sets, CalmInv
    <3>3. \A p \in Ops : ~Sets(p)
      BY <3>1, <3>2 DEF CalmInv
    <3> QED BY <2>1, <3>1, <3>2, <3>3 DEF Sets, Active
  <2>5. \A p \in Ops : ops'[p].pc = "store" <=> ops[p].pc = "store"
    BY <2>1, <2>2
  <2>6. ASSUME Calmly'
        PROVE  /\ \A p \in Ops : ops'[p].pc \in {"store", "hydrate"}
                                   => ops'[p].trip = row'
               /\ \A h \in hydrations' : h.trip = row'
    BY <2>1, <2>2, <2>4, <2>6 DEF CalmInv, dbVars
  <2>7. ASSUME Calmly', NEW k \in Keys, written' \subseteq {k},
               \A p \in Ops : ops'[p].pc # "store"
        PROVE  cache'[k] \in {NoEntry, Cached(row')}
    BY <1>a, <2>2, <2>4, <2>5, <2>7 DEF CalmInv, dbVars, history
  <2> QED BY <2>3, <2>4, <2>6, <2>7 DEF CalmInv, Cached
<1>14. ASSUME NEW h \in hydrations, Hydrate(h)
       PROVE  CalmInv'
  <2>1. /\ UNCHANGED <<dbVars, ops, history>> /\ hydrations' \subseteq hydrations
        /\ \/ Fault
           \/ /\ cache' = [cache EXCEPT ![h.key] = Cached(h.trip)]
              /\ faults' = faults
    BY <1>14 DEF Hydrate
  <2>2. ASSUME Calmly'
        PROVE  /\ Calmly /\ cache' = [cache EXCEPT ![h.key] = Cached(row)]
    <3>1. Calmly /\ cache' = [cache EXCEPT ![h.key] = Cached(h.trip)]
      BY <2>1, <2>2, FaultEndsCalm DEF Calmly, dbVars, history
    <3> QED BY <3>1 DEF CalmInv
  <2>3. ASSUME Calmly', NEW p \in Ops PROVE ~Sets(p)'
    BY <2>1, <2>2, <2>3 DEF CalmInv, Sets, Active
  <2>4. ASSUME Calmly', NEW k \in Keys, written' \subseteq {k},
               \A p \in Ops : ops'[p].pc # "store"
        PROVE  cache'[k] \in {NoEntry, Cached(row')}
    BY <1>a, <2>1, <2>2, <2>4 DEF CalmInv, dbVars, history
  <2>5. ASSUME Calmly'
        PROVE  /\ \A p \in Ops : ops'[p].pc \in {"store", "hydrate"}
                                   => ops'[p].trip = row'
               /\ \A j \in hydrations' : j.trip = row'
    BY <2>1, <2>2, <2>5 DEF CalmInv, dbVars
  <2> QED BY <2>1, <2>3, <2>4, <2>5 DEF CalmInv, Cached
<1>15. ASSUME NEW k \in Keys, Evict(k)
       PROVE  CalmInv'
  <2>1. Fault /\ UNCHANGED ops
    BY <1>15 DEF Evict
  <2> QED BY <2>1, FaultEndsCalm DEF CalmInv
<1> QED BY <1>1, <1>2, <1>3, <1>4, <1>5, <1>6, <1>7, <1>8, <1>9, <1>10, <1>11,
           <1>12, <1>13, <1>14, <1>15 DEF Next

(***************************************************************************)
(* A key is coherent with its row whenever the gateway is quiet, for any   *)
(* number of operations, as long as no update overlaps another operation,  *)
(* no call fails and the row is updated under this key only: each handler  *)
(* leaves in the mesh what UpdateTripField wrote or QueryTripByID read.    *)
(***************************************************************************)
THEOREM CoherentWhenCalm == Spec => []CalmCoherence
<1>1. Init => CalmInv
  BY DEF Init, CalmInv, Idle, Sets, Active
<1>2. CalmInv => CalmCoherence
  <2> SUFFICES ASSUME CalmInv, Calmly, Quiet, NEW k \in Keys, written \subseteq {k}
               PROVE  cache[k] \in {NoEntry, Cached(row)}
    BY DEF CalmCoherence, Calmly
  <2>1. \A o \in Ops : ops[o].pc # "store"
    BY DEF Quiet, Active
  <2> QED BY <2>1 DEF CalmInv
<1> QED BY <1>1, <1>2, CalmStep, CacheHolds, PTL DEF Spec

=============================================================================
