CONSTANTS
  NumFemb = 2
  Settings <- ReadoutSettings
  Boards <- MCBoards
SPECIFICATION FairSpec
INVARIANTS OnlyEnabledReadOut
CHECK_DEADLOCK TRUE
