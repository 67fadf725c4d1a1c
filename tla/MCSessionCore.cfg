SPECIFICATION Spec
CONSTANTS
  Sockets = {s1, s2}
  Relay = {}
  Qr = {}
  DialedByUs = {s1}
  LocalIsLower = TRUE
  Instance <- MCInstance
  Cert <- MCCert
  Monitors = {m1}
  MaxAttempts = 1
  MaxGen = 2
  NoSocket = NoSocket
INVARIANTS TypeOK GenerationsAgree PeerWithHandover ReaderOwnsStream OpenLinkHasReader NoSocketLeaked
CHECK_DEADLOCK FALSE
