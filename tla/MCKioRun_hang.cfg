CONSTANTS
  NumThreads = 1
  ThreadConfigs <- MCWaits
  Faults = {"submit"}
  MaxIO = 2
SPECIFICATION FairSpec
PROPERTIES
  RunEnds
CHECK_DEADLOCK FALSE
