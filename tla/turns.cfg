SPECIFICATION FairSpec
CONSTANTS
  Humans = {h1, h2, h3}
  Bots = {b1}
  None = None
  MaxGames = 2
  MaxFaults = 1
  MaxBotMoves = 2
INVARIANTS TypeOK TurnIsWatched BotNeverIdle TurnInRound NothingLeftOver
PROPERTIES AfkMovesOn
CHECK_DEADLOCK FALSE
