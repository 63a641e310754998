SPECIFICATION FairSpec
CONSTANTS
  Self = gw
  Peers = {p1, p2}
  InitialPeers = {p1}
  HeartbeatInterval = 1
  SuspectTimeout = 2
  FailTimeout = 4
  StartDelay = 2
  MaxElapsed = 4
  MaxMissed = 0
  MaxCommands = 1
INVARIANTS
  TypeOK
  NoFalseFailure
  DetectionLatency
PROPERTIES
  SuspectedBeforeFailed
  ImplementsDetector
  RecoveryIsNoticed
  CrashIsNoticed
  StopEndsLoop
