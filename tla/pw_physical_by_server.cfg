SPECIFICATION Spec
CONSTANTS
  PadCommands = {0, 1}
  Budget <- LiveBudget
PROPERTY PhysicalNotChangedByServer
CHECK_DEADLOCK FALSE
