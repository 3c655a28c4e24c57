SPECIFICATION FairSpec
CONSTANTS
  Values = {1, 2}
  PlayerCounts = {2, 3}
  Modes = {"TRADITIONAL"}
  InitialTokens = 2
  CopiesPerValue = 3
  HandSize <- OneCard
  MarketSize = 1
  MaxPlateIndices = 1
  MaxLeaves = 0
INVARIANTS TypeOK InRoundHasCards TurnHolderCanAct BotPlaysBest
PROPERTIES LoserOpensNextRound EveryGameEnds
CHECK_DEADLOCK FALSE
