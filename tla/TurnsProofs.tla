----------------------------- MODULE TurnsProofs -----------------------------
(***************************************************************************)
(* The turn of a room and whoever watches it: the type invariant and the    *)
(* four safety invariants of TurnsProps, for every number of players, bots, *)
(* games and departures.                                                   *)
(*                                                                         *)
(* TurnInRound and BotNeverIdle are about games that people leave, and are  *)
(* inductive once the types are known.  TurnIsWatched and NothingLeftOver   *)
(* are about games that are only played; they need to know that a bot's     *)
(* move is pending only while it is that bot's turn (Played).               *)
(***************************************************************************)
EXTENDS TurnsProps, TLAPS

USE TurnsAssumption

\* A game that nobody left: the turn is in the round, also during a choice; a pending
\* move of a bot is the only one and for its turn; and a game that is over, or gone,
\* has neither a timer nor a gate.
Played ==
    faults = 0 =>
        /\ Running => turn \in inRound
        /\ ~Running => timer = None /\ ~gate.open
        /\ \A b \in Bots : botMoves[b] > 0 =>
               botMoves[b] = 1 /\ Running /\ ~gate.open /\ turn = b

\* An engine is one of a game that was started, and its room does not wait.
Started == (alive => game >= 1) /\ (waiting => ~alive)

TurnInv ==
    /\ TypeOK
    /\ Started
    /\ TurnInRound
    /\ BotNeverIdle
    /\ TurnIsWatched
    /\ Played

----------------------------------------------------------------------------
(* What the engine may answer.                                             *)

\* A turn, an offer or a round is for a player of the round it leaves.
LEMMA MoveOutcome ==
    ASSUME TypeOK, NEW p \in inRound, NEW o \in MoveOutcomes(p)
    PROVE  /\ o.kind \in {"turn", "round", "over", "offer"}
           /\ o.turn \in Users
           /\ o.inRound \subseteq playing
           /\ o.kind # "over" => o.turn \in o.inRound
  <1>1. inRound \subseteq playing /\ playing \subseteq Users
    BY DEF TypeOK
  <1>2. CASE o \in Turns(inRound) \cup Turns(inRound \ {p})
    BY <1>1, <1>2 DEF Turns, Outcome
  <1>3. CASE o \in Rounds(playing)
    BY <1>1, <1>3 DEF Rounds, Outcome
  <1>4. CASE o \in {Outcome("over", p, inRound), Outcome("offer", p, inRound)}
    BY <1>1, <1>4 DEF Outcome
  <1> QED BY <1>2, <1>3, <1>4 DEF MoveOutcomes

\* After a departure the turn may be left to someone who is out of the round.
LEMMA LeaveOutcome ==
    ASSUME TypeOK, NEW p \in playing, NEW o \in LeaveOutcomes(p)
    PROVE  /\ o.kind \in {"turn", "round", "over", "silent"}
           /\ o.turn \in Users
           /\ o.inRound \subseteq playing \ {p}
           /\ o.kind \in {"turn", "round"} => o.turn \in o.inRound
  <1> DEFINE active == playing \ {p}
             rest == inRound \ {p}
  <1>1. rest \subseteq active /\ active \subseteq Users /\ p \in Users
    BY DEF TypeOK
  <1>2. o \in {Outcome("over", p, rest)} \cup Rounds(active) \cup Turns(rest)
                \cup {Outcome("silent", q, rest) : q \in active}
    BY DEF LeaveOutcomes, RoundWithout
  <1> HIDE DEF active, rest
  <1> SUFFICES /\ o.kind \in {"turn", "round", "over", "silent"}
               /\ o.turn \in Users
               /\ o.inRound \subseteq active
               /\ o.kind \in {"turn", "round"} => o.turn \in o.inRound
    BY DEF active
  <1>3. CASE o = Outcome("over", p, rest)
    BY <1>1, <1>3 DEF Outcome
  <1>4. CASE o \in Rounds(active)
    BY <1>1, <1>4 DEF Rounds, Outcome
  <1>5. CASE o \in Turns(rest)
    BY <1>1, <1>5 DEF Turns, Outcome
  <1>6. CASE o \in {Outcome("silent", q, rest) : q \in active}
    BY <1>1, <1>6 DEF Outcome
  <1> QED BY <1>2, <1>3, <1>4, <1>5, <1>6

----------------------------------------------------------------------------
(* What the gateway makes of it.                                           *)

\* The timers of the bots.
BotMovesType(m) == m \in [Bots -> 0 .. MaxBotMoves]

\* Proceed settles the turn: in the round unless a choice is open, with the timer on
\* whoever it moved it to, and with a pending move if that is a bot.
LEMMA ProceedSettles ==
    ASSUME NEW t, NEW c, NEW r, NEW armed, NEW moves, NEW bots \in SUBSET Bots,
           BotMovesType(moves), Proceed(t, c, r, armed, moves, bots)
    PROVE  /\ turn' \in r \cup {t}
           /\ ~c => turn' \in r
           /\ t \in r => turn' = t
           /\ timer' = IF turn' = t THEN armed ELSE turn'
           /\ BotMovesType(botMoves')
           /\ turn' \in bots \cap r => botMoves'[turn'] > 0
           /\ \A b \in Bots : b # turn' => botMoves'[b] = moves[b]
           /\ \A b \in Bots : moves[b] = 0 => botMoves'[b] \in {0, 1}
  <1>1. PICK q \in Recovered(t, c, r) : /\ turn' = q
                                        /\ timer' = IF q # t THEN q ELSE armed
                                        /\ botMoves' = Scheduled(moves, q, r, bots)
    BY DEF Proceed
  <1>2. q \in r \cup {t} /\ (~c => q \in r) /\ (t \in r => q = t)
    BY DEF Recovered
  <1>3. /\ BotMovesType(botMoves')
        /\ q \in bots \cap r => botMoves'[q] > 0
        /\ \A b \in Bots : b # q => botMoves'[b] = moves[b]
        /\ \A b \in Bots : moves[b] = 0 => botMoves'[b] \in {0, 1}
    <2>1. CASE q \in bots \cap r
      <3>1. botMoves' = [moves EXCEPT ![q] = AddTo(@)] /\ q \in Bots
        BY <1>1, <2>1 DEF Scheduled
      <3>2. moves[q] \in 0 .. MaxBotMoves
        BY <3>1 DEF BotMovesType
      <3>3. /\ AddTo(moves[q]) \in 0 .. MaxBotMoves
            /\ AddTo(moves[q]) > 0
            /\ moves[q] = 0 => AddTo(moves[q]) = 1
        BY <3>2 DEF AddTo
      <3> HIDE DEF AddTo
      <3> QED BY <3>1, <3>3 DEF BotMovesType
    <2>2. CASE q \notin bots \cap r
      BY <1>1, <2>2 DEF Scheduled
    <2> QED BY <2>1, <2>2
  <1> QED BY <1>1, <1>2, <1>3

\* What the engine may answer, whoever acted, and in which form the handlers use it.
Answer(o) ==
    /\ o.kind \in {"turn", "round", "over", "offer", "silent"}
    /\ o.turn \in Users
    /\ o.inRound \subseteq playing'
    /\ o.kind \in {"turn", "round", "offer"} => o.turn \in o.inRound

\* The three ways in which a dispatch ends: with a gate for the humans, with the end
\* of the game, or with a turn that is settled.
LEMMA DispatchEnds ==
    ASSUME TypeOK, playing' \subseteq Users,
           NEW o, Answer(o), NEW left \in Users \cup {None},
           NEW moves, BotMovesType(moves), NEW closes,
           DispatchGated(o, left, moves, closes)
    PROVE  \/ /\ o.kind = "round" /\ turn' = o.turn /\ timer' = left /\ botMoves' = moves
              /\ gate' = IF closes THEN NoGate
                         ELSE [open |-> TRUE, turn |-> o.turn, missing |-> playing' \cap Humans]
           \/ /\ o.kind = "over" /\ turn' = o.turn /\ timer' = None /\ botMoves' = moves
              /\ gate' = IF closes THEN NoGate ELSE gate
           \/ /\ o.kind # "over"
              /\ gate' = IF closes \/ o.kind = "round" THEN NoGate ELSE gate
              /\ \/ /\ o.kind = "silent"
                    /\ Proceed(o.turn, picking, o.inRound, left, moves, roomBots)
                 \/ /\ o.kind \in {"turn", "round", "offer"}
                    /\ \E c : Proceed(o.turn, c, o.inRound, o.turn, moves, roomBots)
  <1> DEFINE humans == playing' \cap Humans
             held == o.kind = "round" /\ humans # {}
  <1>1. /\ gate' = IF held /\ ~closes THEN [open |-> TRUE, turn |-> o.turn, missing |-> humans]
                   ELSE IF closes \/ o.kind = "round" THEN NoGate
                   ELSE gate
        /\ CASE held ->
                 turn' = o.turn /\ timer' = left /\ botMoves' = moves
             [] o.kind = "over" ->
                 turn' = o.turn /\ timer' = None /\ botMoves' = moves
             [] o.kind = "silent" ->
                 Proceed(o.turn, picking, o.inRound, left, moves, roomBots)
             [] OTHER ->
                 Proceed(o.turn, o.kind = "offer", o.inRound, o.turn, moves, roomBots)
    BY DEF DispatchGated, TimerAtGameOver
  <1>2. /\ held => o.kind = "round"
        /\ o.kind \in {"turn", "round", "over", "offer", "silent"}
    BY DEF Answer
  <1>3. CASE held
    BY <1>1, <1>2, <1>3
  <1> HIDE DEF held, humans
  <1>4. CASE ~held /\ o.kind = "over"
    BY <1>1, <1>2, <1>4
  <1>5. CASE ~held /\ o.kind = "silent"
    BY <1>1, <1>2, <1>5
  <1>6. CASE ~held /\ o.kind \in {"turn", "round", "offer"}
    <2>1. Proceed(o.turn, o.kind = "offer", o.inRound, o.turn, moves, roomBots)
      BY <1>1, <1>6
    <2>2. CASE o.kind = "offer"
      <3>1. Proceed(o.turn, TRUE, o.inRound, o.turn, moves, roomBots)
        BY <2>1, <2>2 DEF Proceed, Recovered
      <3> QED BY <1>1, <1>6, <3>1
    <2>3. CASE o.kind # "offer"
      <3>1. Proceed(o.turn, FALSE, o.inRound, o.turn, moves, roomBots)
        BY <2>1, <2>3 DEF Proceed, Recovered
      <3> QED BY <1>1, <1>6, <3>1
    <2> QED BY <2>2, <2>3
  <1> QED BY <1>2, <1>3, <1>4, <1>5, <1>6

\* The types of what a dispatch writes.
LEMMA DispatchTypes ==
    ASSUME TypeOK, playing' \subseteq Users,
           NEW o, Answer(o), NEW left \in Users \cup {None},
           NEW moves, BotMovesType(moves), NEW closes,
           DispatchGated(o, left, moves, closes)
    PROVE  /\ over' \in BOOLEAN /\ picking' \in BOOLEAN /\ moved' \in BOOLEAN
           /\ turn' \in Users \cup {None} /\ timer' \in Users \cup {None}
           /\ inRound' \subseteq playing'
           /\ gate' \in [open : BOOLEAN, turn : Users \cup {None}, missing : SUBSET Humans]
           /\ BotMovesType(botMoves')
  <1>1. /\ over' = (o.kind = "over") /\ inRound' = o.inRound /\ moved' = ~moved
        /\ picking' = CASE o.kind = "offer" -> TRUE
                        [] o.kind = "silent" -> picking
                        [] OTHER -> FALSE
    BY DEF DispatchGated, Becomes
  <1>2. picking' \in BOOLEAN
    <2>1. CASE o.kind = "offer"  BY <1>1, <2>1
    <2>2. CASE o.kind = "silent"  BY <1>1, <2>2 DEF TypeOK
    <2>3. CASE o.kind \notin {"offer", "silent"}  BY <1>1, <2>3
    <2> QED BY <2>1, <2>2, <2>3
  <1>3. inRound' \subseteq Users /\ o.turn \in Users
    BY <1>1 DEF Answer
  <1>4. NoGate \in [open : BOOLEAN, turn : Users \cup {None}, missing : SUBSET Humans]
    BY DEF NoGate
  <1>5. roomBots \in SUBSET Bots /\ picking \in BOOLEAN
    BY DEF TypeOK
  <1>6. /\ turn' \in Users /\ timer' \in Users \cup {None}
        /\ gate' \in [open : BOOLEAN, turn : Users \cup {None}, missing : SUBSET Humans]
        /\ BotMovesType(botMoves')
    <2>1. CASE /\ o.kind = "round" /\ turn' = o.turn /\ timer' = left /\ botMoves' = moves
               /\ gate' = IF closes THEN NoGate
                          ELSE [open |-> TRUE, turn |-> o.turn, missing |-> playing' \cap Humans]
      BY <1>3, <1>4, <2>1
    <2>2. CASE /\ o.kind = "over" /\ turn' = o.turn /\ timer' = None /\ botMoves' = moves
               /\ gate' = IF closes THEN NoGate ELSE gate
      BY <1>3, <1>4, <2>2 DEF TypeOK
    <2>3. CASE /\ turn' \in o.inRound \cup {o.turn} /\ timer' \in {turn', left, o.turn}
               /\ BotMovesType(botMoves')
      <3>1. turn' \in Users /\ timer' \in Users \cup {None}
        BY <1>1, <1>3, <2>3
      <3>2. gate' \in {gate, NoGate, [open |-> TRUE, turn |-> o.turn, missing |-> playing' \cap Humans]}
        BY DispatchEnds
      <3>3. [open |-> TRUE, turn |-> o.turn, missing |-> playing' \cap Humans]
               \in [open : BOOLEAN, turn : Users \cup {None}, missing : SUBSET Humans]
        BY <1>3
      <3>4. gate \in [open : BOOLEAN, turn : Users \cup {None}, missing : SUBSET Humans]
        BY DEF TypeOK
      <3>5. gate' \in [open : BOOLEAN, turn : Users \cup {None}, missing : SUBSET Humans]
        BY <1>4, <3>2, <3>3, <3>4
      <3> QED BY <2>3, <3>1, <3>5
    <2>4. CASE Proceed(o.turn, picking, o.inRound, left, moves, roomBots)
      <3>1. /\ turn' \in o.inRound \cup {o.turn} /\ timer' \in {turn', left}
            /\ BotMovesType(botMoves')
        BY <1>5, <2>4, ProceedSettles
      <3> QED BY <2>3, <3>1
    <2>5. CASE \E c : Proceed(o.turn, c, o.inRound, o.turn, moves, roomBots)
      <3>1. /\ turn' \in o.inRound \cup {o.turn} /\ timer' \in {turn', o.turn}
            /\ BotMovesType(botMoves')
        BY <1>5, <2>5, ProceedSettles
      <3> QED BY <2>3, <3>1
    <2> QED BY <2>1, <2>2, <2>4, <2>5, DispatchEnds
  <1> QED BY <1>1, <1>2, <1>3, <1>6 DEF TypeOK, Answer

\* Unless the room closes, a game that goes on has its turn in the round, and a bot
\* whose turn it is has a move pending.
LEMMA DispatchSettles ==
    ASSUME TypeOK, playing' \subseteq Users,
           NEW o, Answer(o), NEW left \in Users \cup {None},
           NEW moves, BotMovesType(moves), NEW closes,
           DispatchGated(o, left, moves, closes), ~over'
    PROVE  /\ ~picking' => turn' \in inRound'
           /\ ~closes /\ ~gate'.open /\ turn' \in roomBots \cap inRound' => botMoves'[turn'] > 0
  <1>1. /\ o.kind # "over" /\ inRound' = o.inRound
        /\ o.kind = "silent" => picking' = picking
        /\ roomBots \in SUBSET Bots /\ picking \in BOOLEAN
    <2>1. /\ over' = (o.kind = "over") /\ inRound' = o.inRound
          /\ picking' = CASE o.kind = "offer" -> TRUE
                          [] o.kind = "silent" -> picking
                          [] OTHER -> FALSE
      BY DEF DispatchGated, Becomes
    <2> QED BY <2>1 DEF TypeOK
  <1>2. CASE /\ o.kind = "round" /\ turn' = o.turn
             /\ gate' = IF closes THEN NoGate
                        ELSE [open |-> TRUE, turn |-> o.turn, missing |-> playing' \cap Humans]
    BY <1>1, <1>2 DEF Answer
  <1>3. CASE /\ o.kind = "silent"
             /\ Proceed(o.turn, picking, o.inRound, left, moves, roomBots)
    <2>1. /\ ~picking => turn' \in o.inRound
          /\ turn' \in roomBots \cap o.inRound => botMoves'[turn'] > 0
      BY <1>1, <1>3, ProceedSettles
    <2> QED BY <1>1, <1>3, <2>1
  <1>4. CASE /\ o.kind \in {"turn", "round", "offer"}
             /\ \E c : Proceed(o.turn, c, o.inRound, o.turn, moves, roomBots)
    <2>1. o.turn \in o.inRound
      BY <1>4 DEF Answer
    <2>2. PICK c : Proceed(o.turn, c, o.inRound, o.turn, moves, roomBots)
      BY <1>4
    <2>3. /\ o.turn \in o.inRound => turn' = o.turn
          /\ turn' \in roomBots \cap o.inRound => botMoves'[turn'] > 0
      BY <1>1, <1>4, <2>2, ProceedSettles
    <2> QED BY <1>1, <2>1, <2>3
  <1> QED BY <1>1, <1>2, <1>3, <1>4, DispatchEnds

\* In a game that nobody left, who has the turn is watched, and no other move of a bot
\* is pending than one for the turn.
LEMMA DispatchWatches ==
    ASSUME TypeOK, playing' \subseteq Users, ~gate.open,
           NEW o, Answer(o), o.kind # "silent", NEW left \in Users \cup {None},
           NEW moves, BotMovesType(moves), \A b \in Bots : moves[b] = 0,
           DispatchGated(o, left, moves, FALSE)
    PROVE  /\ ~over' => turn' \in inRound'
           /\ ~over' => IF gate'.open THEN gate'.turn = turn' ELSE timer' = turn'
           /\ over' => timer' = None /\ ~gate'.open
           /\ \A b \in Bots : botMoves'[b] > 0 =>
                  botMoves'[b] = 1 /\ ~over' /\ ~gate'.open /\ turn' = b
  <1>1. inRound' = o.inRound /\ (over' <=> o.kind = "over") /\ roomBots \in SUBSET Bots
    BY DEF DispatchGated, Becomes, TypeOK
  <1>2. CASE /\ o.kind = "round" /\ turn' = o.turn /\ timer' = left /\ botMoves' = moves
             /\ gate' = [open |-> TRUE, turn |-> o.turn, missing |-> playing' \cap Humans]
    BY <1>1, <1>2 DEF Answer
  <1>3. CASE /\ o.kind = "over" /\ timer' = None /\ botMoves' = moves /\ gate' = gate
    BY <1>1, <1>3
  <1>4. CASE /\ o.kind \in {"turn", "round", "offer"}
             /\ gate' = IF o.kind = "round" THEN NoGate ELSE gate
             /\ \E c : Proceed(o.turn, c, o.inRound, o.turn, moves, roomBots)
    <2>1. o.turn \in o.inRound /\ o.turn \in Users
      BY <1>4 DEF Answer
    <2>2. PICK c : Proceed(o.turn, c, o.inRound, o.turn, moves, roomBots)
      BY <1>4
    <2>3. /\ o.turn \in o.inRound => turn' = o.turn
          /\ timer' = IF turn' = o.turn THEN o.turn ELSE turn'
          /\ \A b \in Bots : b # turn' => botMoves'[b] = moves[b]
          /\ \A b \in Bots : moves[b] = 0 => botMoves'[b] \in {0, 1}
      BY <1>1, <1>4, <2>2, ProceedSettles
    <2>4. ~gate'.open
      BY <1>4 DEF NoGate
    <2>5. \A b \in Bots : botMoves'[b] > 0 => botMoves'[b] = 1 /\ turn' = b
      BY <2>3
    <2> QED BY <1>1, <1>4, <2>1, <2>3, <2>4, <2>5
  <1> QED BY <1>2, <1>3, <1>4, DispatchEnds

----------------------------------------------------------------------------
(* The steps.                                                              *)

\* A move, of whoever has the turn: the player, the bot, or the timer for them.  In a
\* game that nobody left there is no gate and no other pending move of a bot.
LEMMA MoveKeeps ==
    ASSUME TurnInv, Running, turn \in inRound,
           UNCHANGED <<alive, playing, roomBots, room, game>>,
           NEW left \in Users \cup {None}, NEW moves, BotMovesType(moves),
           NEW o \in MoveOutcomes(turn), DispatchGated(o, left, moves, FALSE),
           destroyers' \subseteq destroyers \cup {game},
           faults' \in 0 .. MaxFaults,
           faults' = 0 => faults = 0 /\ ~gate.open /\ \A b \in Bots : moves[b] = 0
    PROVE  TurnInv'
  <1>1. TypeOK /\ playing' = playing /\ playing' \subseteq Users
    BY DEF TurnInv, TypeOK
  <1>2. Answer(o) /\ o.kind # "silent"
    BY <1>1, MoveOutcome DEF Answer
  <1>3. game \in 1 .. MaxGames
    BY DEF TurnInv, TypeOK, Started, Running
  <1>4. TypeOK'
    <2>1. /\ over' \in BOOLEAN /\ picking' \in BOOLEAN /\ moved' \in BOOLEAN
          /\ turn' \in Users \cup {None} /\ timer' \in Users \cup {None}
          /\ inRound' \subseteq playing'
          /\ gate' \in [open : BOOLEAN, turn : Users \cup {None}, missing : SUBSET Humans]
          /\ BotMovesType(botMoves')
      BY <1>1, <1>2, DispatchTypes
    <2>2. destroyers' \subseteq 1 .. game'
      BY <1>1, <1>3 DEF TypeOK
    <2> QED BY <1>1, <1>3, <2>1, <2>2 DEF TypeOK, BotMovesType, room
  <1>5. Started'
    BY DEF TurnInv, Started, room
  <1>6. TurnInRound' /\ BotNeverIdle'
    <2> SUFFICES ASSUME ~over'
                 PROVE  /\ ~picking' => turn' \in inRound'
                        /\ ~gate'.open /\ turn' \in roomBots \cap inRound' => botMoves'[turn'] > 0
      BY DEF TurnInRound, BotNeverIdle, Running
    <2> QED BY <1>1, <1>2, DispatchSettles
  <1>7. TurnIsWatched' /\ Played'
    <2> SUFFICES ASSUME faults' = 0
                 PROVE  TurnIsWatched' /\ Played'
      BY DEF TurnIsWatched, Played
    <2>1. /\ ~over' => turn' \in inRound'
          /\ ~over' => IF gate'.open THEN gate'.turn = turn' ELSE timer' = turn'
          /\ over' => timer' = None /\ ~gate'.open
          /\ \A b \in Bots : botMoves'[b] > 0 =>
                 botMoves'[b] = 1 /\ ~over' /\ ~gate'.open /\ turn' = b
      BY <1>1, <1>2, DispatchWatches
    <2> QED BY <2>1 DEF TurnIsWatched, Played, Running
  <1> QED BY <1>4, <1>5, <1>6, <1>7 DEF TurnInv

\* A step that neither moves the game nor touches its timers and gates.
LEMMA StillKeeps ==
    ASSUME TurnInv, UNCHANGED <<engine, timer, gate, botMoves, roomBots, room, game,
                                destroyers, moved, faults>>
    PROVE  TurnInv'
  BY DEF TurnInv, TypeOK, Started, TurnInRound, BotNeverIdle, TurnIsWatched, Played, Running,
         engine, room

LEMMA FlushKeeps ==
    ASSUME TurnInv, gate.open, Flush, NotAFault
    PROVE  TurnInv'
  <1>1. /\ ~gate'.open
        /\ gate' \in [open : BOOLEAN, turn : Users \cup {None}, missing : SUBSET Humans]
        /\ moved' = ~moved /\ faults' = faults
        /\ UNCHANGED <<alive, over, picking, playing, inRound, roomBots, members, waiting, game,
                       destroyers>>
    BY DEF Flush, NoGate, NotAFault, room
  <1>2. TypeOK /\ gate.turn \in Users \cup {None} /\ BotMovesType(botMoves) /\ roomBots \in SUBSET Bots
    BY DEF TurnInv, TypeOK, BotMovesType
  <1>3. CASE Running
    <2>1. Proceed(turn, picking, inRound, gate.turn, botMoves, roomBots)
      BY <1>3 DEF Flush, ReplayedTurn
    <2>2. /\ turn' \in inRound \cup {turn}
          /\ ~picking => turn' \in inRound
          /\ turn \in inRound => turn' = turn
          /\ timer' = IF turn' = turn THEN gate.turn ELSE turn'
          /\ BotMovesType(botMoves')
          /\ turn' \in roomBots \cap inRound => botMoves'[turn'] > 0
          /\ \A b \in Bots : b # turn' => botMoves'[b] = botMoves[b]
          /\ \A b \in Bots : botMoves[b] = 0 => botMoves'[b] \in {0, 1}
      BY <1>2, <2>1, ProceedSettles
    <2>3. turn' \in Users \cup {None} /\ timer' \in Users \cup {None}
      BY <1>2, <2>2 DEF TypeOK
    <2>4. TypeOK'
      BY <1>1, <1>2, <2>2, <2>3 DEF TypeOK, BotMovesType
    <2>5. Started' /\ TurnInRound' /\ BotNeverIdle'
      BY <1>1, <2>2 DEF TurnInv, Started, TurnInRound, BotNeverIdle, Running
    <2>6. TurnIsWatched' /\ Played'
      <3> SUFFICES ASSUME faults = 0
                   PROVE  TurnIsWatched' /\ Played'
        BY <1>1 DEF TurnIsWatched, Played
      <3>1. turn \in inRound /\ gate.turn = turn
        BY <1>3 DEF TurnInv, Played, TurnIsWatched
      <3>2. \A b \in Bots : botMoves[b] = 0
        BY <1>2 DEF TurnInv, Played, BotMovesType
      <3>3. \A b \in Bots : botMoves'[b] > 0 => botMoves'[b] = 1 /\ turn' = b
        BY <2>2, <3>2
      <3> QED BY <1>1, <1>3, <2>2, <3>1, <3>3 DEF TurnIsWatched, Played, Running
    <2> QED BY <2>4, <2>5, <2>6 DEF TurnInv
  <1>4. CASE ~Running
    <2>1. timer' = gate.turn /\ UNCHANGED <<turn, botMoves>>
      BY <1>4 DEF Flush, ReplayedTurn
    <2>2. faults # 0
      BY <1>4 DEF TurnInv, Played
    <2>3. TypeOK'
      BY <1>1, <1>2, <2>1 DEF TypeOK
    <2> QED BY <1>1, <1>4, <2>1, <2>2, <2>3
            DEF TurnInv, Started, TurnInRound, BotNeverIdle, TurnIsWatched, Played, Running
  <1> QED BY <1>3, <1>4

\* The two forms of a move's answer that the handlers have.
LEMMA Destroyers ==
    ASSUME NEW o, Finish(o) \/ destroyers' = destroyers
    PROVE  destroyers' \subseteq destroyers \cup {game}
  BY DEF Finish

LEMMA HumanMoves ==
    ASSUME TurnInv, NEW p \in Humans, HumanPlays(p) \/ HumanChooses(p)
    PROVE  TurnInv'
  <1>1. /\ Running /\ p = turn /\ p \in inRound
        /\ IF gate.open THEN Fault ELSE NotAFault
        /\ UNCHANGED <<alive, playing, roomBots, room, game>>
    BY DEF HumanPlays, HumanChooses, HumanMay
  <1>2. PICK o \in MoveOutcomes(turn) :
            /\ DispatchGated(o, None, botMoves, FALSE)
            /\ Finish(o) \/ destroyers' = destroyers
    BY <1>1 DEF HumanPlays, HumanChooses
  <1>3. BotMovesType(botMoves) /\ faults \in 0 .. MaxFaults
    BY DEF TurnInv, TypeOK, BotMovesType
  <1>4. faults' \in 0 .. MaxFaults /\ (faults' = 0 => faults = 0 /\ ~gate.open)
    BY <1>1, <1>3 DEF Fault, NotAFault
  <1>5. p \notin Bots
    OBVIOUS
  <1>6. faults = 0 => \A b \in Bots : botMoves[b] = 0
    BY <1>1, <1>3, <1>5 DEF TurnInv, Played, BotMovesType
  <1>7. destroyers' \subseteq destroyers \cup {game}
    BY <1>2, Destroyers
  <1> QED BY <1>1, <1>2, <1>3, <1>4, <1>6, <1>7, MoveKeeps

LEMMA BotMovesKeep ==
    ASSUME TurnInv, NEW b \in Bots, BotMoves(b)
    PROVE  TurnInv'
  <1> DEFINE rest == [botMoves EXCEPT ![b] = @ - 1]
  <1>1. /\ botMoves \in [Bots -> 0 .. MaxBotMoves] /\ botMoves[b] > 0 /\ NotAFault
        /\ timer \in Users \cup {None} /\ faults' = faults /\ faults \in 0 .. MaxFaults
    BY DEF TurnInv, TypeOK, BotMoves, NotAFault
  <1>2. BotMovesType(rest) /\ (\A c \in Bots \ {b} : rest[c] = botMoves[c]) /\ rest[b] = botMoves[b] - 1
    BY <1>1 DEF BotMovesType
  <1>3. CASE Running /\ turn = b /\ b \in inRound
    <2>1. UNCHANGED <<alive, playing, roomBots, room, game>>
      BY <1>3 DEF BotMoves
    <2>2. PICK o \in MoveOutcomes(turn) :
              DispatchGated(o, timer, rest, FALSE) /\ Finish(o)
      BY <1>3 DEF BotMoves
    <2>3. faults' = 0 => faults = 0 /\ ~gate.open /\ \A c \in Bots : rest[c] = 0
      BY <1>1, <1>2, <1>3 DEF TurnInv, Played
    <2>4. destroyers' \subseteq destroyers \cup {game}
      BY <2>2, Destroyers
    <2> HIDE DEF rest
    <2> QED BY <1>1, <1>2, <1>3, <2>1, <2>2, <2>3, <2>4, MoveKeeps
  <1>4. CASE ~(Running /\ turn = b /\ b \in inRound)
    <2>1. /\ botMoves' = rest
          /\ UNCHANGED <<engine, timer, gate, roomBots, room, game, destroyers, moved>>
      BY <1>4 DEF BotMoves
    <2> HIDE DEF rest
    <2>2. TypeOK' /\ Started' /\ TurnInRound' /\ TurnIsWatched'
      BY <1>1, <1>2, <2>1 DEF TurnInv, TypeOK, Started, TurnInRound, TurnIsWatched, Running,
                              BotMovesType, engine, room
    <2>3. BotNeverIdle'
      <3> SUFFICES ASSUME Running, ~gate.open, turn \in roomBots \cap inRound
                   PROVE  rest[turn] > 0
        BY <2>1 DEF BotNeverIdle, Running, engine
      <3>1. turn # b /\ turn \in Bots
        BY <1>4 DEF TurnInv, TypeOK
      <3> QED BY <1>2, <3>1 DEF TurnInv, BotNeverIdle
    <2>4. Played'
      <3> SUFFICES ASSUME faults = 0
                   PROVE  Played'
        BY <1>1 DEF Played
      <3>1. \A c \in Bots : rest[c] > 0 => rest[c] = 1 /\ Running /\ ~gate.open /\ turn = c
        BY <1>1, <1>2 DEF TurnInv, Played
      <3> QED BY <2>1, <3>1 DEF TurnInv, Played, Running, engine
    <2> QED BY <2>2, <2>3, <2>4 DEF TurnInv
  <1> QED BY <1>3, <1>4

\* The timer acts for a player in the round: who is out of it had no turn to begin with.
LEMMA TimerKeeps ==
    ASSUME TurnInv, TimerFires
    PROVE  TurnInv'
  <1>1. /\ timer # None /\ ~gate.open /\ (\A b \in Bots : botMoves[b] = 0) /\ faults' = faults
        /\ BotMovesType(botMoves) /\ faults \in 0 .. MaxFaults
    BY DEF TurnInv, TypeOK, TimerFires, NotAFault, BotMovesType
  <1>2. CASE ~TimerActs
    <2>1. timer' = None /\ UNCHANGED <<engine, gate, botMoves, roomBots, room, game, destroyers, moved>>
      BY <1>2 DEF TimerFires
    <2>2. faults = 0 => ~Running
      BY <1>1, <1>2 DEF TurnInv, TimerActs, TurnIsWatched, Played
    <2> QED BY <1>1, <2>1, <2>2
            DEF TurnInv, TypeOK, Started, TurnInRound, BotNeverIdle, TurnIsWatched, Played, Running,
                engine, room
  <1>3. CASE TimerActs
    <2>1. Running /\ turn \in inRound
      BY <1>3 DEF TurnInv, TimerActs, TurnInRound
    <2>2. UNCHANGED <<alive, playing, roomBots, room, game>>
      BY <1>3 DEF TimerFires
    <2>3. PICK o \in MoveOutcomes(turn) :
              DispatchGated(o, None, botMoves, FALSE) /\ Finish(o)
      BY <1>3, <2>1 DEF TimerFires
    <2>4. destroyers' \subseteq destroyers \cup {game}
      BY <2>3, Destroyers
    <2> QED BY <1>1, <2>1, <2>2, <2>3, <2>4, MoveKeeps
  <1> QED BY <1>2, <1>3

LEMMA ConfirmKeeps ==
    ASSUME TurnInv, NEW p \in Humans, Confirm(p)
    PROVE  TurnInv'
  <1>1. gate.open /\ NotAFault
    BY DEF Confirm
  <1>2. CASE gate.missing \subseteq {p}
    BY <1>1, <1>2, FlushKeeps DEF Confirm
  <1>3. CASE ~(gate.missing \subseteq {p})
    <2>1. /\ gate' = [gate EXCEPT !.missing = @ \ {p}] /\ faults' = faults
          /\ UNCHANGED <<engine, timer, botMoves, roomBots, room, game, destroyers, moved>>
      BY <1>3 DEF Confirm, NotAFault
    <2>2. /\ gate' \in [open : BOOLEAN, turn : Users \cup {None}, missing : SUBSET Humans]
          /\ gate'.open = gate.open /\ gate'.turn = gate.turn
      BY <2>1 DEF TurnInv, TypeOK
    <2> QED BY <2>1, <2>2
            DEF TurnInv, TypeOK, Started, TurnInRound, BotNeverIdle, TurnIsWatched, Played, Running,
                engine, room
  <1> QED BY <1>2, <1>3

\* A departure is a fault of a game under way; what Played says is said of the others.
LEMMA LeaveKeeps ==
    ASSUME TurnInv, NEW p \in Humans, LeaveRoom(p)
    PROVE  TurnInv'
  <1> DEFINE last == members = {p}
             inGame == Running /\ p \in playing
  <1>1. /\ members' = members \ {p} /\ waiting' = (waiting /\ ~last) /\ alive' = (alive /\ ~last)
        /\ roomBots' = (IF last THEN {} ELSE roomBots)
        /\ playing' = (IF inGame THEN playing \ {p} ELSE playing)
        /\ game' = game
        /\ IF alive THEN Fault ELSE NotAFault
    BY DEF LeaveRoom
  <1>2. TypeOK /\ BotMovesType(botMoves) /\ faults \in 0 .. MaxFaults
    BY DEF TurnInv, TypeOK, BotMovesType
  <1>3. faults' \in 0 .. MaxFaults /\ (faults' = 0 => faults = 0 /\ ~alive)
    BY <1>1, <1>2 DEF Fault, NotAFault
  <1>4. alive' \in BOOLEAN /\ waiting' \in BOOLEAN /\ members' \subseteq Humans /\ roomBots' \subseteq Bots
    BY <1>1, <1>2 DEF TypeOK
  <1>5. Started'
    BY <1>1 DEF TurnInv, Started
  <1>6. CASE inGame
    <2>1. PICK o \in LeaveOutcomes(p) : DispatchGated(o, None, botMoves, last) /\ Finish(o)
      BY <1>6 DEF LeaveRoom
    <2>2. playing' = playing \ {p} /\ playing' \subseteq Users
      BY <1>1, <1>2, <1>6 DEF TypeOK
    <2>3. Answer(o)
      BY <1>2, <1>6, <2>2, LeaveOutcome DEF Answer
    <2>4. /\ over' \in BOOLEAN /\ picking' \in BOOLEAN /\ moved' \in BOOLEAN
          /\ turn' \in Users \cup {None} /\ timer' \in Users \cup {None}
          /\ inRound' \subseteq playing'
          /\ gate' \in [open : BOOLEAN, turn : Users \cup {None}, missing : SUBSET Humans]
          /\ BotMovesType(botMoves')
      BY <1>2, <2>1, <2>2, <2>3, DispatchTypes
    <2>5. destroyers' \subseteq 1 .. game' /\ game \in 1 .. MaxGames
      <3>1. game \in 1 .. MaxGames
        BY <1>2, <1>6 DEF TurnInv, TypeOK, Started, Running
      <3>2. destroyers' \subseteq destroyers \cup {game}
        BY <2>1, Destroyers
      <3> QED BY <1>1, <1>2, <3>1, <3>2 DEF TypeOK
    <2>6. TypeOK'
      BY <1>1, <1>3, <1>4, <2>2, <2>4, <2>5 DEF TypeOK, BotMovesType
    <2>7. TurnInRound' /\ BotNeverIdle'
      <3> SUFFICES ASSUME ~over', ~last
                   PROVE  /\ ~picking' => turn' \in inRound'
                          /\ ~gate'.open /\ turn' \in roomBots \cap inRound' => botMoves'[turn'] > 0
        BY <1>1 DEF TurnInRound, BotNeverIdle, Running
      <3> QED BY <1>2, <2>1, <2>2, <2>3, DispatchSettles
    <2>8. TurnIsWatched' /\ Played'
      BY <1>3, <1>6 DEF TurnIsWatched, Played, Running
    <2> QED BY <1>5, <2>6, <2>7, <2>8 DEF TurnInv
  <1>7. CASE ~inGame
    <2>1. /\ timer' = None /\ gate' = (IF last THEN NoGate ELSE gate) /\ playing' = playing
          /\ UNCHANGED <<over, turn, picking, inRound, botMoves, destroyers, moved>>
      BY <1>1, <1>7 DEF LeaveRoom
    <2>2. gate' \in [open : BOOLEAN, turn : Users \cup {None}, missing : SUBSET Humans]
      BY <1>2, <2>1 DEF TypeOK, NoGate
    <2>3. TypeOK'
      BY <1>1, <1>2, <1>3, <1>4, <2>1, <2>2 DEF TypeOK
    <2>4. TurnInRound' /\ BotNeverIdle'
      BY <1>1, <2>1 DEF TurnInv, TurnInRound, BotNeverIdle, Running
    <2>5. TurnIsWatched' /\ Played'
      <3> SUFFICES ASSUME faults = 0, ~alive, ~alive'
                   PROVE  TurnIsWatched' /\ Played'
        BY <1>1, <1>3 DEF TurnIsWatched, Played
      <3>1. ~gate'.open /\ \A b \in Bots : ~(botMoves[b] > 0)
        BY <2>1 DEF TurnInv, Played, Running, NoGate
      <3> QED BY <2>1, <3>1 DEF TurnIsWatched, Played, Running
    <2> QED BY <1>5, <2>3, <2>4, <2>5 DEF TurnInv
  <1> QED BY <1>6, <1>7

LEMMA KickKeeps ==
    ASSUME TurnInv, NEW p \in Humans, Kick(p)
    PROVE  TurnInv'
  <1>1. /\ members' = members \ {p} /\ waiting' = (waiting /\ members # {p}) /\ timer' = None
        /\ faults' = faults + 1 /\ faults < MaxFaults
        /\ UNCHANGED <<engine, gate, botMoves, roomBots, game, destroyers, moved>>
    BY DEF Kick, Fault
  <1>2. faults' \in 0 .. MaxFaults /\ faults' # 0
    BY <1>1 DEF TurnInv, TypeOK
  <1> QED BY <1>1, <1>2
          DEF TurnInv, TypeOK, Started, TurnInRound, BotNeverIdle, TurnIsWatched, Played, Running,
              engine

\* The engine is dropped: by a reset, or five minutes after the end of a game.
LEMMA DropKeeps ==
    ASSUME TurnInv, ~alive', roomBots' = {}, timer' \in {None, timer}, waiting' \in BOOLEAN,
           destroyers' \subseteq destroyers,
           IF Running THEN Fault ELSE NotAFault,
           UNCHANGED <<over, turn, picking, playing, inRound, gate, botMoves, members, game, moved>>,
           alive' \in BOOLEAN
    PROVE  TurnInv'
  <1>1. faults' \in 0 .. MaxFaults /\ (faults' = 0 => faults = 0 /\ ~Running)
    BY DEF TurnInv, TypeOK, Fault, NotAFault
  <1>2. TypeOK'
    BY <1>1 DEF TurnInv, TypeOK
  <1>3. TurnIsWatched' /\ Played'
    <2> SUFFICES ASSUME faults = 0, ~Running
                 PROVE  TurnIsWatched' /\ Played'
      BY <1>1 DEF TurnIsWatched, Played
    <2>1. timer = None /\ ~gate.open /\ \A b \in Bots : ~(botMoves[b] > 0)
      BY DEF TurnInv, Played
    <2> QED BY <2>1 DEF TurnIsWatched, Played, Running
  <1> QED BY <1>2, <1>3 DEF TurnInv, Started, TurnInRound, BotNeverIdle, Running

LEMMA StartKeeps ==
    ASSUME TurnInv, NEW bots \in SUBSET Bots, StartGame(bots)
    PROVE  TurnInv'
  <1> DEFINE seats == members \cup bots
  <1>1. /\ waiting /\ game < MaxGames
        /\ alive' = TRUE /\ over' = FALSE /\ picking' = FALSE
        /\ playing' = seats /\ inRound' = seats /\ game' = game + 1
        /\ roomBots' = bots /\ waiting' = FALSE /\ moved' = ~moved
        /\ UNCHANGED <<gate, destroyers, members, faults>>
    BY DEF StartGame
  <1>2. PICK t \in seats : Proceed(t, FALSE, seats, t, botMoves, bots)
    BY DEF StartGame
  <1>3. /\ seats \subseteq Users /\ BotMovesType(botMoves)
        /\ \E c : Proceed(t, c, seats, t, botMoves, bots)
    BY <1>2 DEF TurnInv, TypeOK, BotMovesType, Users
  <1> HIDE DEF seats
  <1>4. /\ turn' = t /\ timer' = t
        /\ BotMovesType(botMoves')
        /\ turn' \in bots \cap seats => botMoves'[turn'] > 0
        /\ \A b \in Bots : b # turn' => botMoves'[b] = botMoves[b]
        /\ \A b \in Bots : botMoves[b] = 0 => botMoves'[b] \in {0, 1}
    BY <1>2, <1>3, ProceedSettles
  <1>5. game' \in 1 .. MaxGames /\ destroyers' \subseteq 1 .. game'
    BY <1>1 DEF TurnInv, TypeOK
  <1>6. TypeOK'
    <2>1. turn' \in Users \cup {None} /\ timer' \in Users \cup {None} /\ playing' \subseteq Users
      BY <1>1, <1>2, <1>3, <1>4
    <2>2. game' \in 0 .. MaxGames /\ faults' \in 0 .. MaxFaults /\ moved' \in BOOLEAN
      BY <1>1, <1>5 DEF TurnInv, TypeOK
    <2>3. /\ gate' \in [open : BOOLEAN, turn : Users \cup {None}, missing : SUBSET Humans]
          /\ members' \subseteq Humans
      BY <1>1 DEF TurnInv, TypeOK
    <2> QED BY <1>1, <1>4, <1>5, <2>1, <2>2, <2>3 DEF TypeOK, BotMovesType
  <1>7. Started' /\ TurnInRound' /\ BotNeverIdle'
    BY <1>1, <1>2, <1>4, <1>5 DEF Started, TurnInRound, BotNeverIdle, Running
  <1>8. TurnIsWatched' /\ Played'
    <2> SUFFICES ASSUME faults = 0
                 PROVE  TurnIsWatched' /\ Played'
      BY <1>1 DEF TurnIsWatched, Played
    <2>1. ~gate.open /\ \A b \in Bots : botMoves[b] = 0
      BY <1>1, <1>3 DEF TurnInv, Started, Played, Running, BotMovesType
    <2>2. \A b \in Bots : botMoves'[b] > 0 => botMoves'[b] = 1 /\ turn' = b
      BY <1>4, <2>1
    <2> QED BY <1>1, <1>2, <1>4, <2>1, <2>2 DEF TurnIsWatched, Played, Running
  <1> QED BY <1>6, <1>7, <1>8 DEF TurnInv

----------------------------------------------------------------------------
(* The theorems.                                                           *)

LEMMA TurnInvInit == Init => TurnInv
  <1> SUFFICES ASSUME Init
               PROVE  TurnInv
    OBVIOUS
  <1>1. gate \in [open : BOOLEAN, turn : Users \cup {None}, missing : SUBSET Humans] /\ ~gate.open
    BY DEF Init, NoGate
  <1>2. botMoves \in [Bots -> 0 .. MaxBotMoves] /\ faults \in 0 .. MaxFaults /\ game \in 0 .. MaxGames
    BY DEF Init
  <1>3. TypeOK
    BY <1>1, <1>2 DEF Init, TypeOK
  <1> QED BY <1>1, <1>3
          DEF Init, TurnInv, Started, TurnInRound, BotNeverIdle, TurnIsWatched, Played, Running

LEMMA TurnInvNext == TurnInv /\ [Next]_vars => TurnInv'
  <1> SUFFICES ASSUME TurnInv, [Next]_vars
               PROVE  TurnInv'
    OBVIOUS
  <1>1. ASSUME NEW bots \in SUBSET Bots, StartGame(bots)  PROVE TurnInv'
    BY <1>1, StartKeeps
  <1>2. ASSUME NEW p \in Humans, HumanPlays(p) \/ HumanChooses(p)  PROVE TurnInv'
    BY <1>2, HumanMoves
  <1>3. ASSUME NEW p \in Humans, ContinueRound(p) \/ Disconnect(p)  PROVE TurnInv'
    BY <1>3, ConfirmKeeps DEF ContinueRound, Disconnect
  <1>4. ASSUME NEW p \in Humans, LeaveRoom(p)  PROVE TurnInv'
    BY <1>4, LeaveKeeps
  <1>5. ASSUME NEW p \in Humans, Kick(p)  PROVE TurnInv'
    BY <1>5, KickKeeps
  <1>6. ASSUME NEW b \in Bots, BotMoves(b)  PROVE TurnInv'
    BY <1>6, BotMovesKeep
  <1>7. CASE TimerFires
    BY <1>7, TimerKeeps
  <1>8. CASE GateTimeout
    BY <1>8, FlushKeeps DEF GateTimeout
  <1>9. CASE ResetRoom
    BY <1>9, DropKeeps DEF ResetRoom
  <1>10. ASSUME NEW g \in 1 .. MaxGames, DestroyFires(g)  PROVE TurnInv'
    <2>1. waiting \in BOOLEAN
      BY DEF TurnInv, TypeOK
    <2> QED BY <1>10, <2>1, DropKeeps DEF DestroyFires, room
  <1>11. CASE UNCHANGED vars
    BY <1>11, StillKeeps DEF vars, engine, room
  <1> QED BY <1>1, <1>2, <1>3, <1>4, <1>5, <1>6, <1>7, <1>8, <1>9, <1>10, <1>11 DEF Next

LEMMA TurnInvAlways == Spec => []TurnInv
  BY TurnInvInit, TurnInvNext, PTL DEF Spec

\* The types of the gateway's state.
THEOREM TurnsTyped == Spec => []TypeOK
  BY TurnInvAlways, PTL DEF TurnInv

\* Outside of a choice the turn is with a player of the round, whoever leaves, is
\* removed, or comes late: recoverStuckTurn finds every other turn.
THEOREM TurnStaysInRound == Spec => []TurnInRound
  BY TurnInvAlways, PTL DEF TurnInv

\* A bot whose turn it is always has a move pending, so that a game with bots waits for
\* a human or for a timeout, and never for nothing.
THEOREM BotsAreNeverIdle == Spec => []BotNeverIdle
  BY TurnInvAlways, PTL DEF TurnInv

\* In a game that is only played, the timer is armed for the player whose turn it is, or
\* the gate is open whose end will arm it.
THEOREM TurnsAreWatched == Spec => []TurnIsWatched
  BY TurnInvAlways, PTL DEF TurnInv

\* Nothing that could act on the next game outlives a game that nobody left.
THEOREM NothingIsLeftOver == Spec => []NothingLeftOver
  <1>1. TurnInv => NothingLeftOver
    BY DEF TurnInv, Started, Played, NothingLeftOver, Running
  <1> QED BY <1>1, TurnInvAlways, PTL

=============================================================================
