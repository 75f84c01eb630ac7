SPECIFICATION NodeSpec
CONSTANTS
  Modes <- ModePairs
  InitialMode = "IDLE"
  Confs <- SomeConfs
  Apart = FALSE
  PromptNode = TRUE
  MaxTrouble = 0
PROPERTIES BufferStaysWhileSwitching
