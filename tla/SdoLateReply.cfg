SPECIFICATION SdoSpec
CONSTANTS
  Clients = {c1}
  Expedited = {"6040", "6060"}
  Segmented = {"1008"}
  Segments = 2
  Values = {1}
  Timely = FALSE
  Lossy = FALSE
  MaxFrames = 2
INVARIANTS SuccessMeansOwnReply
