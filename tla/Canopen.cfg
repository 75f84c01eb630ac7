SPECIFICATION AllSpec
CONSTANTS
  Waiters = {w1, w2}
  Notifiers = {n1, n2}
  Payloads = {a, b}
  NoPayload = NoPayload
  NoWaiter = NoWaiter
  MaxCount = 2
  Thread = c1
  Configurations <- PdoConfigurations
  MaxSlots = 3
  Clients = {c1}
  Expedited = {"6040", "6060"}
  Segmented = {"1008"}
  Segments = 3
  Values = {1, 2}
  Timely = TRUE
  Lossy = TRUE
  MaxFrames = 2
INVARIANTS TypesOK OneWindow WakeupBalance DriveIsKnown ValidMeansWhole SuccessMeansConfigured SuccessTellsTheDictionary
PROPERTIES WritesOnlyInWindow ImplementsObserverSpec GrantedCallReturns CallsEnd
