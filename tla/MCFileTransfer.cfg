SPECIFICATION FairSpec
CONSTANTS
  Total = 5
  BlockFrames = 2
  Window = 3
  MaxRewinds = 2
  MaxRestarts = 1
  MaxLaneFailures = 2
  Lanes = 2
  Scenarios <- MCScenarios
INVARIANTS CheckpointHonest NoneLeftOpen
PROPERTIES OrderKept Delivers TransferEnds
CHECK_DEADLOCK FALSE
