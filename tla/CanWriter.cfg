SPECIFICATION AllSpec
CONSTANTS
  BufferSize = 3
  Messages = {"pdo"}
  MaxAccepted = 6
  Buses = {"b1", "b2"}
  Nodes = {"n1", "n2", "n3"}
  BusOf <- BusOfThree
  Fake = {"n2"}
  Monitored = {"n1", "n3"}
  WithSync = TRUE
  Confs <- TransferConfs
  Size = 2
  MaxFrames = 3
  MaxErrors = 1
  Ids = {1, 2, 3, 5, 6}
  Bits = {0, 1, 2}
  Drivers = {"disabled", "noRange", "maskAndRange", "peak"}
  MaxFilters = 2
  Clients = {"c1"}
  Modes = {"push", "pull"}
  Readings = {90, 270}
  MaxRetries = 2
  Timely = TRUE
  MaxUnderWay = 2
INVARIANTS TypesOK WireInOrder Conservation NothingDangling LastWordIsReset EveryFrameCounts NeighboursAreHeard PollIsRecent MovesAndReadsAreTrue
PROPERTIES EveryMessageLeaves WaitsEnd
