SPECIFICATION Spec
CONSTANTS
  DAYS = 2
  HOURS = 2
  MINS = 2
  Weeks <- MCWeeks
  PadTimes <- MCPadTimes
  Garbage <- MCGarbage
  Budgets <- Undisturbed
PROPERTY DisabledNotRun
