CONSTANTS
  NumFemb = 2
  Settings <- MCSettings
  Boards <- MCBoards
SPECIFICATION FairSpec
INVARIANTS TypeOK QuietWhileConfiguring DataPathDown ClockReady SettingsDone ScrapDone
PROPERTIES CommandEnds
CHECK_DEADLOCK TRUE
