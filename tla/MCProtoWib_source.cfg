CONSTANTS
  NumFemb = 2
  Settings <- SourceSettings
  Boards <- MCBoards
SPECIFICATION FairSpec
INVARIANTS SourceOfTiming
CHECK_DEADLOCK TRUE
