SPECIFICATION FairSpec
CONSTANTS
  NumAsic = 2
  PhaseTries = 2
  Lists <- MCLists
INVARIANTS TypeOK FirstThatWorks HuntFinds SyncedForReal
PROPERTY SearchEnds
