SPECIFICATION FairSpec
CONSTANTS
  Values = {1, 2}
  PlayerCounts = {4}
  Modes = {"TRADITIONAL"}
  InitialTokens = 1
  CopiesPerValue = 3
  HandSize <- OneCard
  MarketSize = 1
  MaxPlateIndices = 2
  MaxLeaves = 1
INVARIANTS NeverStuck
CHECK_DEADLOCK FALSE
