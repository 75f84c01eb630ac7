SPECIFICATION MovesSpec
CONSTANTS
  Callers = {"c1"}
  Targets = {1}
  MoveOrders = {"absolute", "stop"}
  Prompt = TRUE
  Refusing = FALSE
  MaxMoves = 2
  MaxFrames = 1
INVARIANTS StopIsKept
