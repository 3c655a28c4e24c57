------------------------------- MODULE RoomTurns -------------------------------
(***************************************************************************)
(* One room whose games notifications.gateway.ts drives: the turn timer,   *)
(* the moves of bots, the gate between two rounds, and what players do     *)
(* that is not a move: leave, be removed by an admin, disconnect, play     *)
(* again.  The engine is abstracted to what the gateway reads of it: whose *)
(* turn it is, whether that player is out of the round or choosing a card, *)
(* and whether the game is over.  What a move can make of these is what    *)
(* the handlers of GameEngine do.                                          *)
(*                                                                         *)
(* Messages to clients are left out, and so is applyMarketSwap, which      *)
(* changes none of this.  A handler is one step: between its awaits it     *)
(* reads only the database, and the engine it holds does not change turn   *)
(* without one of the other handlers.                                      *)
(***************************************************************************)
EXTENDS Naturals, FiniteSets

CONSTANTS
  Humans, Bots,  \* the users of the room, bots being a set of their own
  None,          \* no user
  MaxGames,      \* bound: games played in the room
  MaxFaults,     \* bound: departures from a game that is only played
  MaxBotMoves    \* bound: pending moves of a bot that are told apart

ASSUME TurnsAssumption ==
  /\ None \notin Humans \union Bots
  /\ Humans \intersect Bots = {}
  /\ MaxGames \in Nat \ {0} /\ MaxFaults \in Nat /\ MaxBotMoves \in Nat \ {0}

Users == Humans \union Bots

VARIABLES
  \* the game, as the engine in roomManager has it
  alive,      \* roomManager has an engine for the room
  over,       \* isGameOver()
  turn,       \* currentTurnUserId()
  picking,    \* the phase is one of a choice: TRICK_PICK, PASS_PICK, DUEL_PASS_PICK
  playing,    \* players not eliminated
  inRound,    \* those of them with cards
  \* the gateway
  timer,      \* turnTimers: the user the pending timer was armed for
  gate,       \* pendingRoundStarts
  botMoves,   \* the pending timeouts of scheduleBotMoveWithDelay, by bot
  roomBots,   \* roomBots: the bots the gateway plays for
  destroyers, \* the pending 300 s timeouts, by the game that armed them
  \* the room in the database
  members,    \* humans of the room
  waiting,    \* status WAITING
  \* bookkeeping
  game,       \* how many games were started
  moved,      \* changes with every move of the game
  faults      \* how many departures there were

engine == <<alive, over, turn, picking, playing, inRound>>
room   == <<members, waiting>>
vars   == <<alive, over, turn, picking, playing, inRound, timer, gate, botMoves, roomBots,
            destroyers, members, waiting, game, moved, faults>>

NoGate     == [open |-> FALSE, turn |-> None, missing |-> {}]
Running    == alive /\ ~over
AddTo(n)   == IF n < MaxBotMoves THEN n + 1 ELSE n
Fault      == faults < MaxFaults /\ faults' = faults + 1
NotAFault  == faults' = faults

-------------------------------------------------------------------------------
(* What the engine's handlers make of a game.  An outcome says which events  *)
(* come back: a turn_started, an offer to choose, a round_ended with the     *)
(* start of the next round, the end of the game, or nothing about the turn.  *)

Outcome(kind, t, r) == [kind |-> kind, turn |-> t, inRound |-> r]
Turns(r)  == IF Cardinality(r) < 2 THEN {} ELSE {Outcome("turn", q, r) : q \in r}
Rounds(a) == {Outcome("round", q, a) : q \in a}

\* A move of player p, whose turn it is.  Emptying the hand takes p out of the
\* round; only a move of the normal phase can end in an offer.
MoveOutcomes(p) ==
  Turns(inRound)
    \union Rounds(playing)
    \union {Outcome("over", p, inRound)}
    \union (IF picking THEN {}
            ELSE Turns(inRound \ {p}) \union {Outcome("offer", p, inRound)})

\* Mutant: who leaves the game is still counted in the round.
RoundWith(p) == inRound

\* The players of the round when p has left the game.
RoundWithout(p) == inRound \ {p}

\* removePlayerFromGame: a turn_started only for who leaves during its own turn;
\* otherwise the turn stays with a seat number, which may now be someone else's.
LeaveOutcomes(p) ==
  LET active == playing \ {p}
      rest   == RoundWithout(p)
  IN  IF Cardinality(active) < 2 THEN {Outcome("over", p, rest)}
      ELSE IF Cardinality(rest) < 2 THEN Rounds(active) \union {Outcome("over", p, rest)}
      ELSE IF p = turn /\ ~picking THEN Turns(rest)
      ELSE {Outcome("silent", q, rest) : q \in active}

\* What the engine is after outcome o; dispatchEvents and what follows it may
\* still move the turn.
Becomes(o) ==
  /\ over' = (o.kind = "over")
  /\ picking' = CASE o.kind = "offer" -> TRUE
                  [] o.kind = "silent" -> picking
                  [] OTHER -> FALSE
  /\ inRound' = o.inRound
  /\ moved' = ~moved

-------------------------------------------------------------------------------
(* The common parts of the gateway. *)

\* Mutant: no recovery of a turn that is of a player out of the round.
Unrecovered(t, choosing, r) == {t}

\* scheduleBotMoveIfNeeded, first part: recoverStuckTurn outside of a choice.
Recovered(t, choosing, r) == IF ~choosing /\ t \notin r THEN r ELSE {t}

\* Mutant: only the start of a round schedules bots.
Unscheduled(moves, t, r, bots) == moves

\* scheduleBotMoveIfNeeded, second part: a bot in the round gets a move.
Scheduled(moves, t, r, bots) ==
  IF t \in bots \intersect r THEN [moves EXCEPT ![t] = AddTo(@)] ELSE moves

\* dispatchEvents of a turn_started or an offer armed the timer for `armed`; then
\* scheduleBotMoveIfNeeded recovers the turn t if it has to, which re-arms it.
Proceed(t, choosing, r, armed, moves, bots) ==
  \E q \in Recovered(t, choosing, r) :
    /\ turn' = q
    /\ timer' = IF q # t THEN q ELSE armed
    /\ botMoves' = Scheduled(moves, q, r, bots)

\* Mutant: a game that ends with a bot's move leaves the timer armed.
LeftAtGameOver(left) == left

\* The handlers that end a game clear its timer.
TimerAtGameOver(left) == None

\* dispatchEventsGated of outcome o, with `left` the timer that the handler left.  A
\* gate is only held for humans, and not kept when the handler then closes the room.
DispatchGated(o, left, moves, closes) ==
  LET humans == playing' \intersect Humans
      held   == o.kind = "round" /\ humans # {}
  IN  /\ Becomes(o)
      /\ gate' = IF held /\ ~closes THEN [open |-> TRUE, turn |-> o.turn, missing |-> humans]
                 ELSE IF closes \/ o.kind = "round" THEN NoGate
                 ELSE gate
      /\ CASE held ->
               turn' = o.turn /\ timer' = left /\ botMoves' = moves
           [] o.kind = "over" ->
               turn' = o.turn /\ timer' = TimerAtGameOver(left) /\ botMoves' = moves
           [] o.kind = "silent" ->
               Proceed(o.turn, picking, o.inRound, left, moves, roomBots)
           [] OTHER ->
               Proceed(o.turn, o.kind = "offer", o.inRound, o.turn, moves, roomBots)

\* Mutant: the turn_started that the gate held back is not replayed.
SkippedTurn == timer

\* The timer after a flush: for the player the held back turn_started names.
ReplayedTurn == gate.turn

\* flushPendingRoundStart.
Flush ==
  /\ gate' = NoGate
  /\ IF Running THEN Proceed(turn, picking, inRound, ReplayedTurn, botMoves, roomBots)
     ELSE timer' = ReplayedTurn /\ UNCHANGED <<turn, botMoves>>
  /\ moved' = ~moved
  /\ UNCHANGED <<alive, over, picking, playing, inRound, roomBots, room, game, destroyers>>

\* The game over that a handler notices: a destruction in 300 s, and markFinished, which
\* Lobby has.
Finish(o) == destroyers' = IF o.kind = "over" THEN destroyers \union {game} ELSE destroyers

-------------------------------------------------------------------------------
(* The moves of a game. *)

\* A human may move in its turn; while the gate holds the round back the client
\* does not let it, though the server would.
HumanMay(p) ==
  /\ Running
  /\ p \in Humans /\ p = turn /\ p \in inRound
  /\ IF gate.open THEN Fault ELSE NotAFault

\* handlePlayCards: the only move of a human that looks for the end of the game.
HumanPlays(p) ==
  /\ HumanMay(p) /\ ~picking
  /\ UNCHANGED <<alive, playing, roomBots, room, game>>
  /\ \E o \in MoveOutcomes(p) : DispatchGated(o, None, botMoves, FALSE) /\ Finish(o)

\* handlePassTurn, handleDrawCard, handleInsertDrawnCard, handleDuelPassPick,
\* handleTrickPick.
HumanChooses(p) ==
  /\ HumanMay(p)
  /\ UNCHANGED <<alive, playing, roomBots, room, game, destroyers>>
  /\ \E o \in MoveOutcomes(p) : DispatchGated(o, None, botMoves, FALSE)

\* The timeout of scheduleBotMoveWithDelay; the turn timer stays as it is.
BotMoves(b) ==
  LET rest == [botMoves EXCEPT ![b] = @ - 1]
  IN  /\ botMoves[b] > 0
      /\ IF Running /\ turn = b /\ b \in inRound
         THEN /\ UNCHANGED <<alive, playing, roomBots, room, game>>
              /\ \E o \in MoveOutcomes(b) : DispatchGated(o, timer, rest, FALSE) /\ Finish(o)
         ELSE /\ botMoves' = rest
              /\ UNCHANGED <<engine, timer, gate, roomBots, room, game,
                             destroyers, moved>>
      /\ NotAFault

\* Mutant: the timer leaves choices alone.
TimerActsOnTurnsOnly == Running /\ turn = timer /\ ~picking

\* The timer plays for its player if it is still that player's turn; a player out of
\* the round can only be skipped, and only outside of a choice.
TimerActs == Running /\ turn = timer /\ (turn \in inRound \/ ~picking)

\* The callback of armTurnTimer.  It comes after a bot's move, which takes two
\* seconds at most, and after the gate's, which has twelve.
TimerFires ==
  /\ timer # None
  /\ ~gate.open /\ \A b \in Bots : botMoves[b] = 0
  /\ IF ~TimerActs
     THEN /\ timer' = None
          /\ UNCHANGED <<engine, gate, botMoves, roomBots, room, game,
                         destroyers, moved>>
     ELSE /\ UNCHANGED <<alive, playing, roomBots, room, game>>
          /\ IF turn \notin inRound
             THEN /\ DispatchGated(Outcome("silent", turn, inRound), None, botMoves, FALSE)
                  /\ UNCHANGED destroyers
             ELSE \E o \in MoveOutcomes(turn) :
                    DispatchGated(o, None, botMoves, FALSE) /\ Finish(o)
  /\ NotAFault

-------------------------------------------------------------------------------
(* Between two rounds. *)

\* handleContinueRound, and what handleDisconnect does for a player of a game.
Confirm(p) ==
  /\ gate.open
  /\ IF gate.missing \subseteq {p} THEN Flush
     ELSE /\ gate' = [gate EXCEPT !.missing = @ \ {p}]
          /\ UNCHANGED <<engine, timer, botMoves, roomBots, room, game,
                         destroyers, moved>>
  /\ NotAFault

ContinueRound(p) == p \in gate.missing /\ Confirm(p)

\* handleDisconnect, during a game: a game without an engine has no gate to confirm.
Disconnect(p) == alive /\ p \in gate.missing /\ Confirm(p)

\* The 12 s timeout of the gate.
GateTimeout == gate.open /\ Flush /\ NotAFault

-------------------------------------------------------------------------------
(* What is not a move. *)

\* handleLeaveRoom: the timer is cleared first, the engine removes the player, the
\* database deletes a room that no human is left in, and with it goes the engine.
LeaveRoom(p) ==
  LET last    == members = {p}
      inGame  == Running /\ p \in playing
  IN  /\ p \in members
      /\ IF alive THEN Fault ELSE NotAFault
      /\ members' = members \ {p}
      /\ waiting' = (waiting /\ ~last)
      /\ alive' = (alive /\ ~last)
      /\ roomBots' = IF last THEN {} ELSE roomBots
      /\ playing' = IF inGame THEN playing \ {p} ELSE playing
      /\ IF ~inGame
         THEN /\ timer' = None
              /\ gate' = IF last THEN NoGate ELSE gate
              /\ UNCHANGED <<over, turn, picking, inRound, botMoves, destroyers,
                             moved>>
         ELSE \E o \in LeaveOutcomes(p) :
                DispatchGated(o, None, botMoves, last) /\ Finish(o)
      /\ UNCHANGED game

\* handleAdminKicked: the room forgets the player, the engine keeps it, and the
\* timer is cleared.  The closed socket is a Disconnect.
Kick(p) ==
  /\ p \in members
  /\ Fault
  /\ members' = members \ {p}
  /\ waiting' = (waiting /\ members # {p})
  /\ timer' = None
  /\ UNCHANGED <<engine, gate, botMoves, roomBots, game, destroyers, moved>>

\* handleResetRoom, by the host.
ResetRoom ==
  /\ members # {}
  /\ ~waiting
  /\ IF Running THEN Fault ELSE NotAFault
  /\ alive' = FALSE
  /\ timer' = None
  /\ roomBots' = {}
  /\ waiting' = TRUE
  /\ UNCHANGED <<over, turn, picking, playing, inRound, gate, botMoves, destroyers, members,
                 game, moved>>

\* The end of handleStartGame, with the bots in `bots` in the room.
StartGame(bots) ==
  LET seats == members \union bots
  IN  /\ waiting /\ game < MaxGames
      /\ Cardinality(seats) >= 2
      /\ alive' = TRUE /\ over' = FALSE /\ picking' = FALSE
      /\ playing' = seats /\ inRound' = seats
      /\ game' = game + 1
      /\ roomBots' = bots
      /\ waiting' = FALSE
      /\ moved' = ~moved
      /\ \E t \in seats : Proceed(t, FALSE, seats, t, botMoves, bots)
      /\ UNCHANGED <<gate, destroyers, members, faults>>

\* The 300 s timeout of a finished game, which destroys what the room has now.
DestroyFires(g) ==
  /\ g \in destroyers
  /\ destroyers' = destroyers \ {g}
  /\ alive' = FALSE
  /\ roomBots' = {}
  /\ IF Running THEN Fault ELSE NotAFault
  /\ UNCHANGED <<over, turn, picking, playing, inRound, timer, gate, botMoves, room,
                 game, moved>>

-------------------------------------------------------------------------------
Init ==
  /\ alive = FALSE /\ over = FALSE /\ picking = FALSE
  /\ turn = None /\ playing = {} /\ inRound = {}
  /\ timer = None /\ gate = NoGate
  /\ botMoves = [b \in Bots |-> 0] /\ roomBots = {}
  /\ destroyers = {}
  /\ members = Humans /\ waiting = TRUE
  /\ game = 0 /\ moved = FALSE /\ faults = 0

Next ==
  \/ \E bots \in SUBSET Bots : StartGame(bots)
  \/ \E p \in Humans :
       \/ HumanPlays(p) \/ HumanChooses(p)
       \/ ContinueRound(p) \/ Disconnect(p)
       \/ LeaveRoom(p) \/ Kick(p)
  \/ \E b \in Bots : BotMoves(b)
  \/ TimerFires \/ GateTimeout \/ ResetRoom
  \/ \E g \in 1..MaxGames : DestroyFires(g)

Spec == Init /\ [][Next]_vars

\* Node's event loop runs every timeout; nothing is assumed of the users.
FairSpec ==
  /\ Spec
  /\ WF_vars(TimerFires) /\ WF_vars(GateTimeout)
  /\ \A b \in Bots : WF_vars(BotMoves(b))

-------------------------------------------------------------------------------
TypeOK ==
  /\ alive \in BOOLEAN /\ over \in BOOLEAN /\ picking \in BOOLEAN
  /\ waiting \in BOOLEAN /\ moved \in BOOLEAN
  /\ turn \in Users \union {None} /\ timer \in Users \union {None}
  /\ inRound \subseteq playing /\ playing \subseteq Users
  /\ gate \in [open : BOOLEAN, turn : Users \union {None}, missing : SUBSET Humans]
  /\ botMoves \in [Bots -> 0..MaxBotMoves] /\ roomBots \subseteq Bots
  /\ members \subseteq Humans
  /\ game \in 0..MaxGames /\ faults \in 0..MaxFaults
  /\ destroyers \subseteq 1..game
===============================================================================
