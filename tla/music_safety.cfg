SPECIFICATION Spec
CONSTANTS
  LISTS = 2
  FileCount <- MCFileCount
  MAX_MUSIC_FILE_IN_LIST = 3
  MaxPlayers = 3
  Budgets <- SafetyBudgets
INVARIANTS TypeOK RoundCopyCurrent SongOfList NowPlaying SecondPlayerExplained NeverWaitsForNothing StopSilences SavedListIsCurrent
