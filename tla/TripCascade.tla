---------------------------- MODULE TripCascade ----------------------------
(***************************************************************************)
(* CalculateTripCascade of backend/internal/database/database.go: what an  *)
(* update of one field of a taxi trip does to the others.                  *)
(*                                                                         *)
(* Amounts and distances of a trip are in hundredths (cents, hundredths of *)
(* a mile), the unit the code rounds them to; the value of an update, the  *)
(* passengers and the locations are in thousandths.  Arithmetic is exact   *)
(* where the code's is floating point.                                     *)
(***************************************************************************)
EXTENDS Integers

CONSTANT Nil  \* a pointer field without a value

OrNil(S) == S \cup {Nil}

\* The columns that no update computes or writes (vendor, the two datetimes,
\* rate code, payment type) are one field: the row's own, or made up.
Own    == "own"
MadeUp == "made up"

Trip == [distance : Int, fare : Int, tip : Int, total : Int,
         passengers : OrNil(Int), pickup : OrNil(Int), dropoff : OrNil(Int),
         details : {Own, MadeUp}]

MoneyFields == {"trip_distance", "fare_amount", "tip_amount", "total_amount"}
LocationFields == {"pu_location_id", "do_location_id"}
Fields == MoneyFields \cup LocationFields \cup {"passenger_count", "unknown"}

AtLeast(n, minimum) == IF n < minimum THEN minimum ELSE n

\* int(x + 0.5) for x = num / den: truncation is towards zero, so a negative
\* amount is rounded up.
Rounded(num, den) ==
  LET doubled == 2 * num + den
  IN  IF doubled >= 0 THEN doubled \div (2 * den)
      ELSE -((-doubled) \div (2 * den))

\* The trip's rate per mile as a fraction, between 1 and 20, or 3.50.
ratePerMile(t) ==
  IF ~(t.distance > 0 /\ t.fare > 0) THEN [num |-> 7, den |-> 2]
  ELSE IF t.fare < t.distance THEN [num |-> 1, den |-> 1]
  ELSE IF t.fare > 20 * t.distance THEN [num |-> 20, den |-> 1]
  ELSE [num |-> t.fare, den |-> t.distance]

\* Variant of fixedSurcharges: the minimum is not applied.
fixedSurchargesUnchecked(t) == t.total - (t.fare + t.tip)

\* Taxes and fees: what the total has above fare and tip, at least 80 cents.
fixedSurcharges(t) == AtLeast(t.total - (t.fare + t.tip), 80)

Total(fare, tip, surcharges) == Rounded(fare + tip + surcharges, 1)

\* The ratio for the new tip is taken with the new fare.
tipRatio(tip, newFare) ==
  IF tip > 0 /\ 2 * tip <= newFare THEN [num |-> tip, den |-> newFare]
  ELSE [num |-> 18, den |-> 100]

NewDistance(t, val) ==
  LET rate    == ratePerMile(t)
      newDist == AtLeast(val, 100)
      fare    == AtLeast(Rounded(newDist * rate.num, 10 * rate.den), 250)
      ratio   == tipRatio(t.tip, fare)
      tip     == Rounded(fare * ratio.num, ratio.den)
  IN  [t EXCEPT !.distance = Rounded(newDist, 10),
                !.fare = fare,
                !.tip = tip,
                !.total = Total(fare, tip, fixedSurcharges(t))]

NewFare(t, val) ==
  LET rate    == ratePerMile(t)
      newFare == AtLeast(val, 2500)
      fare    == Rounded(newFare, 10)
  IN  [t EXCEPT !.fare = fare,
                !.distance = AtLeast(Rounded(newFare * rate.den, 10 * rate.num),
                                     10),
                !.total = Total(fare, t.tip, fixedSurcharges(t))]

NewTip(t, val) ==
  LET tip == Rounded(AtLeast(val, 0), 10)
  IN  [t EXCEPT !.tip = tip, !.total = Total(t.fare, tip, fixedSurcharges(t))]

\* What the total leaves for the fare; the tip gives way to the least fare.
NewTotal(t, val) ==
  LET rate  == ratePerMile(t)
      total == Rounded(AtLeast(val, 3300), 10)
      rest  == total - (t.tip + fixedSurcharges(t))
      fare  == Rounded(AtLeast(rest, 250), 1)
  IN  [t EXCEPT !.total = total,
                !.tip = IF rest < 250
                        THEN AtLeast(total - 250 - fixedSurcharges(t), 0)
                        ELSE @,
                !.fare = fare,
                !.distance = Rounded(fare * rate.den, rate.num)]

\* Both locations known: the distance is estimated from them.
NewLocations(t) ==
  LET rate      == ratePerMile(t)
      diff      == IF t.pickup < t.dropoff THEN t.dropoff - t.pickup
                   ELSE t.pickup - t.dropoff
      estimated == Rounded(6 * diff + 120000, 1000)
      fare      == Rounded(estimated * rate.num, rate.den)
  IN  IF Nil \in {t.pickup, t.dropoff} THEN t
      ELSE [t EXCEPT !.distance = estimated,
                     !.fare = fare,
                     !.total = Total(fare, t.tip, fixedSurcharges(t))]

CalculateTripCascade(t, field, val) ==
  CASE field = "trip_distance"   -> NewDistance(t, val)
    [] field = "fare_amount"     -> NewFare(t, val)
    [] field = "tip_amount"      -> NewTip(t, val)
    [] field = "total_amount"    -> NewTotal(t, val)
    [] field = "passenger_count" ->
         [t EXCEPT !.passengers = IF val > 6000 THEN 6000
                                  ELSE AtLeast(val, 1000)]
    [] field = "pu_location_id"  -> NewLocations([t EXCEPT !.pickup = val])
    [] field = "do_location_id"  -> NewLocations([t EXCEPT !.dropoff = val])
    [] field = "unknown"         -> t

=============================================================================
