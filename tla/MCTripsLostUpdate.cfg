SPECIFICATION Spec
CONSTANTS
  Nil = Nil
  Keys = {trip, prod}
  TripKey = trip
  Rows <- FewRows
  Updates <- FewUpdates
  NoRow = NoRow
  NoEntry = NoEntry
  None = None
  MaxOps = 2
  MaxFaults = 0
PROPERTY
  PriceUpdatesKeepPlaces
CHECK_DEADLOCK FALSE
