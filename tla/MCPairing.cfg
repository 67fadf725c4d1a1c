SPECIFICATION Spec
CONSTANTS
  Peers = {desk, phone}
  Leader = desk
  MaxLinks = 2
  MaxCommands = 2
  MaxNow = 2
  MaxQueue = 0
  AllowedDifference = 0
  SaveMayFail = FALSE
  MayExpire = FALSE
  LinkMayFail = TRUE
INVARIANTS
  TypeOK
  NoSilentPairing
  OneKey
  AcceptedOnItsLink
CHECK_DEADLOCK FALSE
