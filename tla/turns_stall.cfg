SPECIFICATION FairSpec
CONSTANTS
  Humans = {h1, h2}
  Bots = {b1}
  None = None
  MaxGames = 2
  MaxFaults = 1
  MaxBotMoves = 2
PROPERTIES AfkNeverStalls
CHECK_DEADLOCK FALSE
