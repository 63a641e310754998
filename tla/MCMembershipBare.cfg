SPECIFICATION Spec
CONSTANTS
  a = a
  b = b
  c = c
  new = new
  atA = atA
  atB = atB
  atC = atC
  atNew = atNew
  key = key
  Members = {a, b, c}
  Joiner = new
  AddrOf <- MCAddrOf
  Keys = {key}
  Environments <- BareOutage
  MaxWrites = 1
INVARIANT
  RejoinRestores
CHECK_DEADLOCK FALSE
