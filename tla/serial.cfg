SPECIFICATION FairSpec
CONSTANTS
  DATA = 2
  Data <- MCData
  Damaged <- MCDamaged
  Budgets <- SerialBudgets
INVARIANT TypeOK
PROPERTIES AcceptsOnlySent WholeReportAccepted
CHECK_DEADLOCK FALSE
