SPECIFICATION FairSpec
CONSTANTS
  w1 = w1
  w2 = w2
  Workers = {w1, w2}
  TotalRequests = 3
  Scenarios <- ScenarioNames
  Latencies = {1, 2}
INVARIANTS
  TypeOK
  VerdictCountsEveryItem
  PercentilesCoverSamples
  TimelineExplainsOutage
PROPERTY
  ExperimentEnds
CHECK_DEADLOCK FALSE
