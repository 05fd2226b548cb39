SPECIFICATION FairSpec
CONSTANTS
  Byte = {0, 1, 2}
  PageReg = 1
  Lists <- MCLists
  PostAmble <- MCPost
  Tries = 2
  RetryCount = 2
INVARIANTS TypeOK Loaded
PROPERTIES OnlyWhatIsDue EndsIfI2cDoes
