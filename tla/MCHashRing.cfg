SPECIFICATION Spec
CONSTANTS
  n1 = n1
  n2 = n2
  n3 = n3
  a1 = a1
  a2 = a2
  Nodes = {n1, n2, n3}
  Addrs = {a1, a2}
  VNodes = 2
  MaxHash = 10
  HashFuncs <- MCHashFuncs
  MaxRing = 12
  NoNode = NoNode
  NoAddr = NoAddr
INVARIANTS
  TypeOK
  LookupDependsOnMembersOnly
  CollisionIsContained
PROPERTIES
  SurvivorsKeepTheirOrder
  PlaceholderGivesWay
