SPECIFICATION Spec
CONSTANTS
  DAYS = 2
  HOURS = 3
  MINS = 2
  Weeks <- MCWeeks
  PadTimes <- MCPadTimes
  Garbage <- MCGarbage
  Budgets <- JumpOnly
INVARIANT HourlyUpdate
