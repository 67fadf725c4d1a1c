SPECIFICATION PairedFairSpec
CONSTANTS
  Sockets = {s1, s2, s3, s4}
  Relay = {s3}
  Qr = {s2}
  DialedByUs = {s1}
  LocalIsLower = TRUE
  Instance <- MCInstance
  Cert <- MCCert
  Monitors = {}
  MaxAttempts = 1
  MaxGen = 2
  NoSocket = NoSocket
CONSTRAINT TwoConnections
PROPERTIES DeadSocketNoticed LosersAreShut
CHECK_DEADLOCK FALSE
