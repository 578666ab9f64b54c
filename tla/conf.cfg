SPECIFICATION FairSpec
CONSTANTS
  MAX_MUSIC_LIST = 3
  Directories <- MCDirectories
  Echoed <- MCEchoed
  DAYS = 2
  SchConfs <- MCSchConfs
  Stacks <- MCStacks
  Tails <- MCTails
  Budgets <- ConfBudgets
INVARIANTS TypeOK ListsSorted ShownNumbersValid ChoiceSurvives FirstFileShown LastLineCounts
PROPERTY StartCompletes
CHECK_DEADLOCK FALSE
