SPECIFICATION Spec
CONSTANTS
  Self = gw
  Peers = {p1}
  InitialPeers = {p1}
  HeartbeatInterval = 1
  SuspectTimeout = 2
  FailTimeout = 4
  StartDelay = 1
  MaxElapsed = 4
  MaxMissed = 0
  MaxCommands = 1
PROPERTY
  ManualFailSticks
