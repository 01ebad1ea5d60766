CONSTANTS
  Configs <- MCOffsets
  DevSize <- MCDevSize
  DevBlockSize = 512
  PartStart = 2048
  BdevHasBdPart = FALSE
  Draws <- MCDraws
SPECIFICATION Spec
INVARIANTS
  OffsetsAboveLow
