SPECIFICATION CuiFairSpec
CONSTANTS
  Clients = {"c1"}
  Modes = {"push"}
  Readings = {90, 270}
  MaxRetries = 2
  Timely = TRUE
  MaxUnderWay = 2
INVARIANTS AcknowledgedReturns
