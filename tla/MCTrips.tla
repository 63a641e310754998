------------------------------ MODULE MCTrips ------------------------------
(***************************************************************************)
(* Instances of Trips for TLC: rows and updates at the edges of the        *)
(* cascade's conditions.                                                   *)
(***************************************************************************)
EXTENDS Trips

T(distance, fare, tip, total, pickup, dropoff) ==
  [distance |-> distance, fare |-> fare, tip |-> tip, total |-> total,
   passengers |-> Nil, pickup |-> pickup, dropoff |-> dropoff,
   details |-> Own]

\* An ordinary trip, one without distance, a refund, a trip with a tip of more
\* than half its fare and high fees, and no row.
MCRows == {T(150, 700, 165, 995, 151000, 239000),
           T(0, 5200, 0, 5280, 193000, Nil),
           T(40, -250, 0, -380, 79000, 68000),
           T(9000, 400, 300, 2500, Nil, 68000),
           NoRow}

\* Values on both sides of the clamps and between two hundredths.
MCUpdates == [field : {"trip_distance"}, val : {0, 2345}]
        \cup [field : {"fare_amount"}, val : {-1000, 12996}]
        \cup [field : {"tip_amount"}, val : {-1, 1005}]
        \cup [field : {"total_amount"}, val : {0, 21300}]
        \cup [field : {"passenger_count"}, val : {0, 7000}]
        \cup [field : LocationFields, val : {263000}]
        \cup [field : {"unknown"}, val : {0}]

FewRows == {T(150, 700, 165, 995, 151000, 239000)}
FewUpdates == [field : {"fare_amount"}, val : {12996}]
         \cup [field : {"pu_location_id"}, val : {263000}]

=============================================================================
