SPECIFICATION AllSpec
CONSTANTS
  ArmJoints = {0, 1}
  Clients = {c1, c2}
  Lists <- ArmLists
  Refs = {0, 2}
  Top = 2
  MaxCalls = 2
  Callers = {c1}
  Targets = {1}
  MoveOrders = {"absolute", "relative", "stop"}
  Prompt = TRUE
  Refusing = TRUE
  MaxMoves = 2
  MaxFrames = 1
  Modes = {"VELOCITY"}
  InitialMode = "IDLE"
  Confs <- OneWay
  Apart = TRUE
  PromptNode = TRUE
  MaxTrouble = 1
INVARIANTS TypesOK PointsInOrder TroubleOnlyAfterLoss MovesAreTaken UnaskedStays ModeIsShown SuccessMeansSelected
PROPERTIES StartsFull WhatBeginsEnds
