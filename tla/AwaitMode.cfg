SPECIFICATION NodeSpec
CONSTANTS
  Modes <- ModePairs
  InitialMode = "IDLE"
  Confs <- CyclicOnly
  Apart = TRUE
  PromptNode = TRUE
  MaxTrouble = 0
INVARIANTS AwaitMeansMode
