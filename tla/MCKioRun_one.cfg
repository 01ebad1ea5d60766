CONSTANTS
  NumThreads = 1
  ThreadConfigs <- MCOneThread
  Faults = {"ths", "kthread", "page", "signal"}
  MaxIO = 4
SPECIFICATION FairSpec
INVARIANTS
  TypeOK
  QueueDepthRespected
  BurstFinishSeparates
  NoLostWakeup
  DrainedAtExit
  FlagClearedUnlessSetupFails
PROPERTIES
  RunEnds
  QdWaitEnds
  ImplementsBench
