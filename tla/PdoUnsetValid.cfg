SPECIFICATION PdoSpec
CONSTANTS
  Configurations <- AllConfigurations
  MaxSlots = 3
INVARIANTS UnsetValidIsUntouched
