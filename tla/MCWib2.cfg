SPECIFICATION FairSpec
CONSTANTS
  WibValue = {0, 1}
  FembValue = {0, 1}
  Sockets = 3
  Settings <- MCSettings
INVARIANTS TypeOK SettingsTaken LockedAround OwnReply
PROPERTIES EndsIfAnswered
