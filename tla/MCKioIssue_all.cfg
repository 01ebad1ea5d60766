CONSTANTS
  Configs <- MCWorkloads
  DevSize <- MCDevSize
  DevBlockSize = 512
  PartStart = 2048
  BdevHasBdPart = FALSE
  Draws <- MCDraws
SPECIFICATION Spec
INVARIANTS
  TypeOK
  OffsetsAccepted
  StaysInPartition
  OffsetsBelowHigh
  OffsetsNearWindow
  OneDelayPerBurst
PROPERTIES
  BurstsComplete
