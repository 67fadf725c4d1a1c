SPECIFICATION Spec
CONSTANTS
  Peers = {desk, phone}
  Leader = desk
  MaxLinks = 1
  MaxCommands = 2
  MaxNow = 1
  MaxQueue = 0
  AllowedDifference = 1
  SaveMayFail = FALSE
  MayExpire = TRUE
  LinkMayFail = FALSE
INVARIANTS
  CrossingIsCompared
CHECK_DEADLOCK FALSE
