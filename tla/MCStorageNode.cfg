SPECIFICATION Spec
CONSTANTS
  Readers = {r1}
  TTLs = {0, 2}
  TicksPerSecond = 2
  CleanupInterval = 2
  MaxLag = 1
  WindowDuration = 2
  ThresholdCount = 2
  MaxDelay = 2
  MaxBuckets = 2
  MaxMessages = 1
  Never = Never
  NoItem = NoItem
INVARIANTS
  TypeOK
  CopyLifetime
  WindowIsExact
  RemovedInTime
PROPERTY
  NoLiveEviction
