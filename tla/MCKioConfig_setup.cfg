CONSTANTS
  Writers = {p1, p2, p3}
  Cpus = 2
  U32 = 1073741824
  DevSize <- MCDevSize
  NumThreadsArgs = {0, 1, 2, 3}
  SecondsArgs = {0, 5}
  Stores <- MCAnyStore
  Faults = {"array", "kobj", "file", "number", "run"}
SPECIFICATION Spec
INVARIANTS
  TypeOK
  MemorySafe
PROPERTIES
  NumThreadsSetOnce
