CONSTANTS
  NumFemb = 2
  Settings <- LocalSettings
  Boards <- MCBoards
SPECIFICATION FairSpec
INVARIANTS NamesKnown
CHECK_DEADLOCK TRUE
