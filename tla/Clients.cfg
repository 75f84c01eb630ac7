SPECIFICATION AllSpec
CONSTANTS
  Clients = {c1}
  Refs = {0, 2}
  Users = {c1}
  MonitorThread = monitor
  Positions = {0, 1}
  Speeds = {1, 2}
  Scales = {1, 3}
  MaxCalls = 2
  MaxReboots = 1
  Fingers = {0, 1}
  Movers = {c1, c2}
  Links = {"serial", "can"}
  JointLists <- TwoLists
  Angles = {1}
  Top = 1
  Pieces = 2
  MaxPieces = 2
  MaxVel = 1
  MaxStep = 1
  MaxRefused = 1
  Controllers = {c1}
  ModeThreads = {m1}
  Goals = {"OPERATION_ENABLED"}
  Singles = {}
  Timely = FALSE
  MaxFrames = 1
  Handles <- TwoHandles
  BufferSize = 3
  MaxAccepted = 5
  MaxCycles = 2
INVARIANTS TypesOK NeverEnabledUnasked TablesMatchDrive SettingsSurvive ModesAreTrue CyclesAreWhole AnswersAreTrue StepsAreBounded MemoryIsHand
