CONSTANTS
  NumFemb = 2
  Settings <- GroupSettings
  Boards <- MCBoards
SPECIFICATION FairSpec
INVARIANTS GroupAsAsked
CHECK_DEADLOCK TRUE
