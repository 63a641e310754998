SPECIFICATION Spec
CONSTANTS
  Primary = primary
  Replica = replica
  Third = third
  NoItem = NoItem
  None = None
  MaxOps = 2
  Environments <- OnlyTwoWrites
INVARIANT
  Agreement
CHECK_DEADLOCK FALSE
