SPECIFICATION Spec
CONSTANTS
  Primary = primary
  Replica = replica
  Third = third
  NoItem = NoItem
  None = None
  MaxOps = 3
  Environments <- AllEnvironments
INVARIANTS
  TypeOK
  CalmAgreement
  SettledSurvives
  RedundancyRestored
PROPERTIES
  AckedWritesAreRead
  ImplementsRegister
  PrimaryVersionsIncrease
  SettledReads
CHECK_DEADLOCK FALSE
