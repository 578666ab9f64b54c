SPECIFICATION FairSpec
CONSTANTS
  PadCommands = {0, 1, 255}
  Budget <- SafetyBudget
INVARIANTS TypeOK CopiesCurrent
PROPERTIES LostOnlyWhenOvertaken Convergence UnopposedCommandApplied
CHECK_DEADLOCK FALSE
