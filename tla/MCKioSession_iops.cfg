SPECIFICATION SessionSpec
CONSTANTS
  u1 = u1
  u2 = u2
  Users = {u1}
  Cpus = 2
  DevSize <- MCDevSize
  Values <- MCValues
  SecondsArgs = {0, 5, 3600}
  NumThreadsArgs = {2}
  BiosetPointer = TRUE
  Faults = {}
  Calls <- MCTwoThreads
  LogSize = 7
  NoiseLines = {2, 5}
  Measured <- MCMeasured
  MaxSessions = 1
  MaxNoise = 0
  U32 = 65536
  U64 = 1073741824
  NSEC_PER_SEC = 1000
INVARIANTS
  SummaryIopsIsAverage
CHECK_DEADLOCK FALSE
