SPECIFICATION FairSpec
CONSTANTS
  Peers = {desk, phone}
  Leader = desk
  MaxLinks = 1
  MaxCommands = 2
  MaxNow = 1
  MaxQueue = 1
  AllowedDifference = 1
  SaveMayFail = TRUE
  MayExpire = TRUE
  LinkMayFail = FALSE
INVARIANTS
  PairedIsTrusted
PROPERTIES
  PairingConverges
CHECK_DEADLOCK FALSE
