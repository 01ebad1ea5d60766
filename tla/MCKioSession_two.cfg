SPECIFICATION SessionSpec
CONSTANTS
  u1 = u1
  u2 = u2
  Users = {u1, u2}
  Cpus = 2
  DevSize <- MCDevSize
  Values <- MCValues
  SecondsArgs = {0, 5, 3600}
  NumThreadsArgs = {1, 2, 3}
  BiosetPointer = FALSE
  Faults = {"kobj", "file", "name", "open", "queue", "size", "bio_set",
            "array", "setup", "run", "submit", "stop"}
  Calls <- MCCalls
  LogSize = 7
  NoiseLines = {2, 5}
  Measured <- MCMeasured
  MaxSessions = 2
  MaxNoise = 1
  U32 = 65536
  U64 = 1073741824
  NSEC_PER_SEC = 1000
SYMMETRY MCSymmetry
INVARIANTS
  SessionTypeOK
  UnloadedIsClean
  RunHasDevice
  MisuseOnlyIfRaced
  ReportIsOwn
  RunsAsAsked
  ReportShowsAverages
  NoDeadlock
PROPERTIES
  FailsForAReason
CHECK_DEADLOCK FALSE
