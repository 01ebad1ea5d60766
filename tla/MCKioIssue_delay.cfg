CONSTANTS
  Configs <- MCBursts
  DevSize <- MCDevSize
  DevBlockSize = 512
  PartStart = 2048
  BdevHasBdPart = FALSE
  Draws <- MCDraws
SPECIFICATION Spec
PROPERTIES
  DelayPerBurst
