CONSTANTS
  Addr = {a1, a2}
  Val = {v1, v2}
  RetryCount = 2
  Late = FALSE
  Capacity = 2
SPECIFICATION FairSpec
PROPERTIES KeepsPromise CallsEnd
CHECK_DEADLOCK TRUE
