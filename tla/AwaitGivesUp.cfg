SPECIFICATION Spec
CONSTANTS
  Controllers = {c1}
  ModeThreads = {}
  Goals <- AllGoals
  Singles <- AllSingles
  Timely = TRUE
  MaxFrames = 2
INVARIANTS NoWaitForWhatIsThere
