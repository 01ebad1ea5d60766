CONSTANTS
  NumThreads = 1
  ThreadConfigs <- MCWaits
  Faults = {}
  MaxIO = 2
SPECIFICATION Spec
INVARIANTS
  LatencyIsAverage
