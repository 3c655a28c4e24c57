------------------------------ MODULE TurnsProps ------------------------------
EXTENDS RoomTurns

\* While players only play, or stop playing, the timer is armed for the player
\* whose turn it is, or the gate is open whose end arms it: "arma timer para AFK
\* nao travar o jogo" (1355).
TurnIsWatched ==
  Running /\ faults = 0 => IF gate.open THEN gate.turn = turn ELSE timer = turn

\* Whatever else happens: when it is a bot's turn, a move of that bot is on its way.
BotNeverIdle ==
  Running /\ ~gate.open /\ turn \in roomBots \intersect inRound => botMoves[turn] > 0

\* Outside of a choice the turn is never left with a player out of the round, also
\* when someone left (847-871).
TurnInRound == Running /\ ~picking => turn \in inRound

\* Nothing outlives a game: when it is over and when its room is back in the lobby no
\* timer and no gate is left that would act on the next game.
NothingLeftOver ==
  faults = 0 /\ ((alive /\ over) \/ waiting) => timer = None /\ ~gate.open

\* A game that nobody leaves never stops, even when every human is away.
AfkMovesOn ==
  \A m \in BOOLEAN :
    (Running /\ moved = m) ~> (moved # m \/ ~Running \/ faults > 0)

\* "arma timer para AFK nao travar o jogo" (1355), without excepting the games that
\* someone left or was removed from.
AfkNeverStalls ==
  \A m \in BOOLEAN : (Running /\ moved = m) ~> (moved # m \/ ~Running)
===============================================================================
