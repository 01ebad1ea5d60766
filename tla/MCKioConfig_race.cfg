CONSTANTS
  Writers = {p1, p2}
  Cpus = 1
  U32 = 1073741824
  DevSize <- MCDevSize
  NumThreadsArgs = {1}
  SecondsArgs = {5}
  Stores <- MCRunStores
  Faults = {}
SPECIFICATION Spec
INVARIANTS
  RunsSupportedSize
