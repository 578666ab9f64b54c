SPECIFICATION FairSpec
CONSTANTS
  Clients = {c1, c2}
  Values = {0, 1}
  None = None
  Sent <- MCSent
  Garbage <- MCGarbage
  LISTEN_BACKLOG = 2
  MaxFds = 2
  Budgets <- ServiceBudgets
INVARIANT TypeOK
PROPERTIES ServiceSpec Served
CHECK_DEADLOCK FALSE
