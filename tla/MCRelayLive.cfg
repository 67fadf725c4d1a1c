SPECIFICATION FairSpec
CONSTANTS
  desk = desk
  phone = phone
  c1 = c1
  c2 = c2
  c3 = c3
  net1 = net1
  net2 = net2
  wide = wide
  WideCap = 2
  Devices = {desk, phone}
  Conns = {c1, c2, c3}
  Tiers = {net1, net2, wide}
  TiersOf <- MCTiersOf
  TierCap <- MCTierCap
  GlobalCap = 3
  UnauthCap = 1
  MaxQueued = 0
  Headroom = 1
  None = None
INVARIANTS SlotsBalance HubHoldsLive
PROPERTIES VanishedGoesOffline ClosedLeaves
CHECK_DEADLOCK FALSE
