SPECIFICATION FairSpec
CONSTANTS
  DAYS = 2
  HOURS = 2
  MINS = 2
  Weeks <- MCWeeks
  PadTimes <- MCPadTimes
  Garbage <- MCGarbage
  Budgets <- Disturbed
INVARIANTS TypeOK ActsOnScheduleInForce OverrideUsedOnce HourlyUntilJump
PROPERTIES SwitchesForEver OverrideEnds
