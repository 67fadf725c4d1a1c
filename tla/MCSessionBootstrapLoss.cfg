SPECIFICATION Spec
CONSTANTS
  Sockets = {s1, s2}
  Relay = {}
  Qr = {}
  DialedByUs = {s1}
  LocalIsLower = TRUE
  Instance <- MCInstance
  Cert <- MCCert
  Monitors = {}
  MaxAttempts = 1
  MaxGen = 2
  NoSocket = NoSocket
PROPERTIES BootstrapLossKeepsPeer
CHECK_DEADLOCK FALSE
