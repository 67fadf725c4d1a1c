SPECIFICATION Spec
CONSTANTS
  desk = desk
  p1 = p1
  p2 = p2
  Desk = desk
  Phones = {p1, p2}
  Shared = 9
  MaxAncestors = 2
  MaxPeers = 2
  MaxTidied = 1
  Plans <- MCPlans
  Gap <- MCGap
INVARIANTS TextsKept Agree HeldIsRecognised
PROPERTY ExchangeEnds
CHECK_DEADLOCK FALSE
