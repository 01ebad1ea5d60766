CONSTANTS
  NumThreads = 2
  ThreadConfigs <- MCTwoThreads
  Faults = {"ths", "kthread", "page", "submit"}
  MaxIO = 2
SPECIFICATION Spec
INVARIANTS
  DispatchedCountsInFlight
  PagesAccounted
  RunningCoversThreads
  OopsOnlyAfterFailure
  SummaryCounts
CHECK_DEADLOCK FALSE
