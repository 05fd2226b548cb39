SPECIFICATION FairSpec
CONSTANTS
  Page = 2
  Capacity = 4
  A = A
  B = B
  Val = {A, B}
  Erased = Erased
  Junk = Junk
  Images <- MCImages
  FlashTimeout = 2
  RetryCount = 2
INVARIANTS TypeOK ChecksOut ReadsAll
PROPERTIES BufferHeld EndsUnlessShort
