SPECIFICATION MCSpec
CONSTANTS
  Users = {"initiator"}
  MaxPackets = 2
  PendingLimit = 1
  Breakers = {"responder"}
  MayTear = TRUE
  t1 = t1
  net1 = net1
  net2 = net2
  wide = wide
  WideCap = 3
  Threads = {t1, t2}
  Pairs = {p1, p2}
  TiersOf <- TurnTiers
  NetworkCap <- Caps
  Networks = {net1, net2, wide}
  PairCap = 1
  MaxDay = 1
  MaxGrants = 2
  MaxRestarts = 1
  None = None
  desk = desk
  phone = phone
  c1 = c1
  c2 = c2
  c3 = c3
  Devices = {desk, phone}
  Conns = {c1, c2, c3}
  GlobalCap = 3
  UnauthCap = 2
  MaxQueued = 1
  Headroom = 1
  Views = {"page", "dialog"}
  NewLinks = {"first", "second"}
  Known = "session"
  Casts <- QrCasts
  MaxQrLinks = 1
  MaxFailures = 2
  MaxTotalFailures = 3
  MaxGen = 3
  MaxCommands = 2
  Rungs = 1
  Retries = 1
  MaxPeers = 9
  MaxThreads = 3
  Plans = {{"sign", "break"}, {"network"}, {"restart", "close"}, {"offer", "again", "close"},
           {"link", "offer"}, {"healthy", "unbuilt"}}
  MaxLate = 2
  MaxGenerations = 2
  NoPeer = NoPeer
CONSTRAINTS OnlyPresence FewLate
INVARIANTS ReadyIsMutual NothingStranded FeaturesAccounted HandoverNeverStalls QuotaCounts
  NewestIsOnline PresenceIsTrue OneWinner CodeFollowsViews
  NoOrphanPeer NothingLeftBehind RestIsHonest LadderEnds
CHECK_DEADLOCK FALSE
