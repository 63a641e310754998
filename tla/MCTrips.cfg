SPECIFICATION Spec
CONSTANTS
  Nil = Nil
  Keys = {trip, prod}
  TripKey = trip
  Rows <- MCRows
  Updates <- MCUpdates
  NoRow = NoRow
  NoEntry = NoEntry
  None = None
  MaxOps = 2
  MaxFaults = 2
INVARIANTS
  TypeOK
  RowAddsUp
  CachedTripWasPersisted
  CalmCoherence
CHECK_DEADLOCK FALSE
