SPECIFICATION Spec
CONSTANTS
  WibValue = {0, 1}
  FembValue = {0, 1}
  Sockets = 1
  Settings <- OneSettings
INVARIANT GainMatchAsAsked
