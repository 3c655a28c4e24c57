----------------------------- MODULE EngineTurns -----------------------------
(***************************************************************************)
(* The engine that notifications.gateway.ts sees is the one that            *)
(* GameEngine.ts is: RoomTurns abstracts a game to whose turn it is, who is *)
(* in the round and what a move can make of these, and here the abstraction *)
(* is held against every step of the detailed engine.                       *)
(***************************************************************************)
EXTENDS AutoPlay

Choosing == phase \in {"PASS_PICK", "TRICK_PICK", "DUEL_PASS_PICK"}
Leavers  == (eliminated' \ eliminated) \ {gameLoser'}

\* Only the engine's part of RoomTurns is looked at.
Gateway == INSTANCE RoomTurns
  WITH Humans <- 1..6, Bots <- {}, MaxGames <- 1, MaxFaults <- MaxLeaves, MaxBotMoves <- 1,
       alive <- InPlay, over <- phase = "GAME_OVER", turn <- CurrentPlayer, picking <- Choosing,
       playing <- ActivePlayers, inRound <- PlayersInRound,
       timer <- None, gate <- [open |-> FALSE, turn |-> None, missing |-> {}], botMoves <- << >>,
       roomBots <- {}, destroyers <- {}, members <- {}, waiting <- FALSE,
       game <- 1, moved <- FALSE, faults <- Cardinality(eliminated)

\* What a step that goes on with the game makes of it, as the events say it.
After(kind) == Gateway!Outcome(kind, CurrentPlayer', PlayersInRound')
MoveKind    == IF round' # round THEN "round" ELSE IF Choosing' THEN "offer" ELSE "turn"
LeaveKind(p) ==
  IF round' # round THEN "round"
  ELSE IF p = CurrentPlayer /\ ~Choosing THEN "turn" ELSE "silent"

\* Every handler of the engine has one of the outcomes that RoomTurns lets the gateway
\* act upon: nobody out of the round is named in a turn_started, an offer stays with
\* its player, a departure during another's choice leaves the choice and moves the
\* turn without an event.
GatewaySeesEngine ==
  [][InPlay /\ phase' # "GAME_OVER"
     /\ ~UNCHANGED <<phase, round, currentTurnIndex, outOfRound, eliminated>>
     => IF Leavers = {} THEN After(MoveKind) \in Gateway!MoveOutcomes(CurrentPlayer)
        ELSE \A p \in Leavers :
               /\ After(LeaveKind(p)) \in Gateway!LeaveOutcomes(p)
               /\ LeaveKind(p) = "silent" => Choosing' = Choosing]_vars
===============================================================================
