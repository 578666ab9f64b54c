SPECIFICATION FairSpec
CONSTANTS
  PadCommands = {0, 1}
  Budget <- CommandBudget
PROPERTY LastCommandFollowed
CHECK_DEADLOCK FALSE
