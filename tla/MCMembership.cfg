SPECIFICATION Spec
CONSTANTS
  a = a
  b = b
  c = c
  new = new
  atA = atA
  atB = atB
  atC = atC
  atNew = atNew
  key = key
  Members = {a, b, c}
  Joiner = new
  AddrOf <- MCAddrOf
  Keys = {key}
  Environments <- Both
  MaxWrites = 2
INVARIANTS
  TypeOK
  JoinIsInvisible
  MovedKeysHaveTwoCopies
  NamedRejoinRestores
CHECK_DEADLOCK FALSE
