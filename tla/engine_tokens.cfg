SPECIFICATION Spec
CONSTANTS
  Values = {1, 2}
  PlayerCounts = {3}
  Modes = {"RODIZIO", "MERCADO"}
  InitialTokens = 2
  CopiesPerValue = 3
  HandSize <- OneCard
  MarketSize = 1
  MaxPlateIndices = 2
  MaxLeaves = 1
INVARIANTS OnlyPlatesDuplicate
PROPERTIES ImplementsTokenGame GatewaySeesEngine
CHECK_DEADLOCK FALSE
