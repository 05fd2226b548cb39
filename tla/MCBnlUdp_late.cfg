CONSTANTS
  Addr = {a1, a2}
  Val = {v1, v2}
  RetryCount = 2
  Late = TRUE
  Capacity = 2
SPECIFICATION Spec
SYMMETRY Symmetric
INVARIANTS TypeOK ReadWasHeld
CHECK_DEADLOCK TRUE
