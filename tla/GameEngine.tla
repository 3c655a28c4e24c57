------------------------------ MODULE GameEngine ------------------------------
(***************************************************************************)
(* The rules engine of one game: src/src/game/engine/GameEngine.ts, with   *)
(* the deal of deck.ts and the legality rules of Rules.tla.                *)
(*                                                                         *)
(* Players are named by their seat: every list the engine builds is sorted *)
(* by seat and nothing else about a player matters to the rules.  A card   *)
(* is its value.  The order of a hand matters (selections are adjacent),   *)
(* so a hand is a sequence; the draw pile is shuffled and only read from   *)
(* its front, so it is a bag from which a draw takes any card; the discard *)
(* pile, the market and the duel plates are bags too.  turnTimer, the      *)
(* statistics (tricksWon, saborTriggersThisGame) and the display fields of *)
(* a player are left out.                                                  *)
(***************************************************************************)
EXTENDS Rules, Integers, FiniteSets

CONSTANTS
  PlayerCounts,      \* how many players a game may have
  Modes,             \* the game modes a room may be created with
  InitialTokens,     \* pratos of every player at the start
  CopiesPerValue,    \* CARDS_PER_VALUE: copies of each value in the deck
  HandSize,          \* HAND_SIZE: hand dealt, by number of active players
  MarketSize,        \* MARKET_SIZE: open cards of the MERCADO mode
  MaxPlateIndices,   \* bound: how many plate indices a play lists
  MaxLeaves          \* bound: players who abandon one game

AllModes == {"TRADITIONAL", "MERCADO", "RODIZIO", "DEGUSTACAO"}

ASSUME EngineAssumption ==
  /\ PlayerCounts \subseteq 2..6
  /\ Modes \subseteq AllModes
  /\ InitialTokens \in Nat \ {0}
  /\ CopiesPerValue \in Nat \ {0}
  /\ HandSize \in [2..6 -> Nat \ {0}]
  /\ MarketSize \in Nat
  /\ MaxPlateIndices \in Nat
  /\ MaxLeaves \in Nat

PlatesPerPlayer == 2      \* splice(0, 2) in startRound
DuelPassLimit   == 3      \* passCount >= 3 in applyDuelPassPick

VARIABLES
  mode, players,          \* set by the constructor and addPlayer
  phase, round, currentTurnIndex,
  tokensLeft,             \* pratos left, by seat
  eliminated, outOfRound, \* the seats whose flag is set
  hand, pile, drawPile, discardPile, trickPileForPick, market,
  pendingDraws,           \* the card a seat drew and has not placed yet
  duelPlates, duelPassCount, pendingDuelPick,
  saborActive, saborMinRequired,
  consecutivePasses, lastPlayerId, lastWiperId, lastRoundWinnerId,
  isFirstTurn,
  gameLoser,              \* the loserId of the game:game_over event
  copied                  \* history: what repeated plates have added to the deck

config    == <<mode, players>>
tableVars == <<hand, drawPile, discardPile, pendingDraws, duelPlates, duelPassCount, copied>>
saborVars == <<saborActive, saborMinRequired>>
trickVars == <<pile, saborActive, saborMinRequired, consecutivePasses,
               lastPlayerId, isFirstTurn>>
gameVars  == <<round, tokensLeft, eliminated, market, lastRoundWinnerId, gameLoser>>
vars == <<mode, players, phase, round, currentTurnIndex, tokensLeft, eliminated,
          outOfRound, hand, pile, drawPile, discardPile, trickPileForPick, market,
          pendingDraws, duelPlates, duelPassCount, pendingDuelPick, saborActive,
          saborMinRequired, consecutivePasses, lastPlayerId, lastWiperId,
          lastRoundWinnerId, isFirstTurn, gameLoser, copied>>

None == 0                 \* no seat, and no card: seats and values start at 1

Phases == {"DEALING", "PLAYER_TURN", "PASS_PICK", "TRICK_PICK",
           "DUEL_PASS_PICK", "GAME_OVER"}
InPlay == phase \in Phases \ {"DEALING", "GAME_OVER"}

-------------------------------------------------------------------------------
(* Bags of cards: how many of each value. *)

NoCards        == [v \in Values |-> 0]
Cards          == [Values -> Nat]
CountOf(s, v)  == Cardinality({i \in DOMAIN s : s[i] = v})
Plus(b, s)     == [v \in Values |-> b[v] + CountOf(s, v)]
Minus(b, c)    == [v \in Values |-> b[v] - c[v]]
SizeOf(b)      == Cardinality(UNION {{x} \X (1..b[x]) : x \in DOMAIN b})
IsEmptyBag(b)  == \A v \in Values : b[v] = 0

\* Mutant: a deal that does not stop at the end of the pile.
SpliceUnchecked(b, k) == {c \in [Values -> 0..k] : SizeOf(c) = k}

\* drawPile.splice(0, k): any k cards, or all of them when there are fewer.
Splice(b, k) ==
  {c \in [Values -> 0..k] :
     /\ \A v \in Values : c[v] <= b[v]
     /\ SizeOf(c) = IF SizeOf(b) < k THEN SizeOf(b) ELSE k}

\* Mutant: splice(i, 1, ...cards), which overwrites a card.
InsertOver(h, i, cards) == SubSeq(h, 1, i) \o cards \o SubSeq(h, i + 2, Len(h))

\* hand.splice(i, 0, ...cards), the hand keeping its first i cards in front.
InsertAt(h, i, cards) == SubSeq(h, 1, i) \o cards \o SubSeq(h, i + 1, Len(h))

-------------------------------------------------------------------------------
(* Seats and turns. *)

\* Mutant: a round that goes on with one player.
RoundIsOverWhenEmpty(inRound) == inRound = {}

\* The round ends when one player, or none, is left in it.
RoundIsOver(inRound) == Cardinality(inRound) <= 1

\* Mutant: a player without cards stays in the round.
NeverLeaves(left) == FALSE

\* A player whose hand is empty leaves the round.
LeavesRound(left) == left = << >>


ActivePlayers  == players \ eliminated
PlayersInRound == ActivePlayers \ outOfRound
IsDuel         == Cardinality(ActivePlayers) = 2

\* Position of a seat in activePlayers(), which is sorted by seat, and back.
IndexOf(active, s) == Cardinality({t \in active : t < s})
SeatAt(active, i)  ==
  CHOOSE s \in active : IndexOf(active, s) = i % Cardinality(active)

CurrentPlayer == SeatAt(ActivePlayers, currentTurnIndex)

\* Mutant: advanceTurn before it skipped the players out of the round.
NextIndexUnskipped(active, out) == (currentTurnIndex + 1) % Cardinality(active)

\* advanceTurn: the next index, in a circle, whose player is not out of the round.
NextIndex(active, out) ==
  LET n     == Cardinality(active)
      hops  == {k \in 1..n : SeatAt(active, currentTurnIndex + k) \notin out}
      first == IF hops = {} THEN n
               ELSE CHOOSE k \in hops : \A j \in hops : k <= j
  IN  (currentTurnIndex + first) % n

\* The cards that startRound keeps from one round to the next in RODIZIO.
Table == [hand |-> hand, drawPile |-> drawPile, discardPile |-> discardPile,
          pendingDraws |-> pendingDraws, duelPlates |-> duelPlates,
          duelPassCount |-> duelPassCount, copied |-> copied]

SetTable(t) ==
  /\ hand' = t.hand
  /\ drawPile' = t.drawPile
  /\ discardPile' = t.discardPile
  /\ pendingDraws' = t.pendingDraws
  /\ duelPlates' = t.duelPlates
  /\ duelPassCount' = t.duelPassCount
  /\ copied' = t.copied

\* dealCards: every way the shuffled deck can fall, with all the left-over
\* collections emptied.
Deals(t, active) ==
  LET size        == HandSize[Cardinality(active)]
      dealt(h, v) == SizeOf([s \in active |-> CountOf(h[s], v)])
  IN  {[hand          |-> [s \in players |-> IF s \in active THEN h[s] ELSE t.hand[s]],
        drawPile      |-> [v \in Values |-> CopiesPerValue - dealt(h, v)],
        discardPile   |-> NoCards,
        pendingDraws  |-> [s \in players |-> None],
        duelPlates    |-> [s \in players |-> NoCards],
        duelPassCount |-> [s \in players |-> 0],
        copied        |-> NoCards] :
       h \in {g \in [active -> [1..size -> Values]] :
                \A v \in Values : dealt(g, v) <= CopiesPerValue}}

\* The last lines of startRound: with two active players each gets two plates.
DealPlates(active, t) ==
  IF Cardinality(active) = 2
  THEN \E first \in Splice(t.drawPile, PlatesPerPlayer) :
       \E second \in Splice(Minus(t.drawPile, first), PlatesPerPlayer) :
         SetTable([t EXCEPT
           !.drawPile = Minus(Minus(t.drawPile, first), second),
           !.duelPlates = [s \in players |-> IF s \notin active THEN NoCards
                                             ELSE IF s = SeatAt(active, 0) THEN first
                                             ELSE second],
           !.duelPassCount = [s \in players |-> 0]])
  ELSE SetTable(t)

\* Mutant: every round starts with a random player.
StartingAtRandom(active, winner, wiper) == 0..(Cardinality(active) - 1)

\* Whom a round starts with: the loser of the last one, or anyone.
StartingIndices(active, winner, wiper) ==
  IF winner # None THEN {IF winner \in active THEN IndexOf(active, winner) ELSE 0}
  ELSE IF wiper # None THEN {IF wiper \in active THEN IndexOf(active, wiper) ELSE 0}
  ELSE 0..(Cardinality(active) - 1)

\* startRound, with the players in elim eliminated (they are the only ones that
\* stay out of the round) and the cards of t on the table.
StartRound(t, elim, winner, wiper) ==
  LET active == players \ elim
      redeal == ~(mode = "RODIZIO" /\ round + 1 > 1)
  IN  /\ phase' = "PLAYER_TURN"
      /\ round' = round + 1
      /\ pile' = << >>
      /\ trickPileForPick' = << >>
      /\ saborActive' = FALSE
      /\ saborMinRequired' = 0
      /\ consecutivePasses' = 0
      /\ lastPlayerId' = None
      /\ outOfRound' = elim
      /\ isFirstTurn' = TRUE
      /\ lastRoundWinnerId' = winner
      /\ lastWiperId' = wiper
      /\ currentTurnIndex' \in StartingIndices(active, winner, wiper)
      /\ \E d \in IF redeal THEN Deals(t, active) ELSE {t} :
         \E m \in IF mode = "MERCADO" THEN Splice(d.drawPile, MarketSize) ELSE {NoCards} :
           /\ market' = m
           /\ DealPlates(active, [d EXCEPT !.drawPile = Minus(d.drawPile, m)])

\* resolveGameOver.
GameOver(t, elim, tokens, loser) ==
  /\ phase' = "GAME_OVER"
  /\ gameLoser' = loser
  /\ eliminated' = elim
  /\ tokensLeft' = tokens
  /\ SetTable(t)
  /\ UNCHANGED <<round, currentTurnIndex, market, lastRoundWinnerId, lastWiperId>>

\* rotateHands: every active player takes the hand of the next one.
RotateHands(h, active) ==
  [s \in players |->
     IF s \in active THEN h[SeatAt(active, IndexOf(active, s) + 1)] ELSE h[s]]

\* Mutant: the round ends and nobody pays.
KeepToken(tokens, loser) == tokens

\* The loser of a round pays one token, down to none.
PayToken(tokens, loser) ==
  [tokens EXCEPT ![loser] = IF @ > 0 THEN @ - 1 ELSE 0]

\* resolveRoundEnd: the loser pays a token; without one left the game is over
\* and what the handler did to the other fields (rest) stays, otherwise
\* startRound resets them.
ResolveRoundEnd(t, elim, tokens, loser, rest) ==
  LET paid   == PayToken(tokens, loser)
      active == players \ elim
  IN  IF paid[loser] = 0
      THEN GameOver(t, elim \union {loser}, paid, loser) /\ rest
      ELSE /\ tokensLeft' = paid
           /\ eliminated' = elim
           /\ gameLoser' = gameLoser
           /\ StartRound(IF mode = "RODIZIO"
                         THEN [t EXCEPT !.hand = RotateHands(t.hand, active)] ELSE t,
                         elim, loser, None)

\* Mutant: the turn moves on and the phase stays.
AdvanceIndexOnly(elim, out) ==
  /\ phase' = phase
  /\ currentTurnIndex' = NextIndex(players \ elim, out)

\* advanceTurn, at the end of a handler that leaves the round going.
AdvanceTurn(elim, out) ==
  /\ phase' = "PLAYER_TURN"
  /\ currentTurnIndex' = NextIndex(players \ elim, out)

\* Whoever has most cards loses a stalemate, the highest seat among equals.
StalemateLoser(h) ==
  CHOOSE s \in PlayersInRound :
    \A r \in PlayersInRound \ {s} :
      \/ Len(h[r]) < Len(h[s])
      \/ Len(h[r]) = Len(h[s]) /\ r < s

\* resolveWipe: the pile is discarded and the wiper, or the next player still
\* in the round after a wiper who left it, starts the next trick.
ResolveWipe(t, wiper) ==
  LET n       == Cardinality(ActivePlayers)
      from    == IF wiper \in ActivePlayers THEN IndexOf(ActivePlayers, wiper) ELSE 0
      hops    == {k \in 1..n : SeatAt(ActivePlayers, from + k) \notin outOfRound}
      starter == IF wiper \in PlayersInRound \/ hops = {} THEN wiper
                 ELSE SeatAt(ActivePlayers,
                             from + (CHOOSE k \in hops : \A j \in hops : k <= j))
  IN  /\ phase' = "PLAYER_TURN"
      /\ currentTurnIndex' = IF starter \in ActivePlayers
                             THEN IndexOf(ActivePlayers, starter) ELSE 0
      /\ lastWiperId' = starter
      /\ pile' = << >>
      /\ saborActive' = FALSE
      /\ saborMinRequired' = 0
      /\ consecutivePasses' = 0
      /\ SetTable([t EXCEPT !.discardPile = Plus(@, pile)])
      /\ UNCHANGED <<lastPlayerId, isFirstTurn, outOfRound, trickPileForPick>>
      /\ UNCHANGED gameVars

\* The common end of applyPassTurn and applyInsertDrawn: one pass less than
\* there are players in the round ends the trick, or the round when no pile lies.
AfterPass(t, p) ==
  LET passes == consecutivePasses + 1
      counted == /\ consecutivePasses' = passes
                 /\ UNCHANGED <<pile, saborVars, lastPlayerId, isFirstTurn,
                                outOfRound, trickPileForPick>>
  IN  IF passes < Cardinality(PlayersInRound) - 1
      THEN /\ counted
           /\ AdvanceTurn(eliminated, outOfRound)
           /\ SetTable(t)
           /\ UNCHANGED lastWiperId
           /\ UNCHANGED gameVars
      ELSE IF pile = << >>
           THEN ResolveRoundEnd(t, eliminated, tokensLeft, StalemateLoser(t.hand), counted)
           ELSE ResolveWipe(t, IF lastPlayerId = None THEN p ELSE lastPlayerId)

-------------------------------------------------------------------------------
(* The handlers. *)

\* The guards every turn handler starts with.
HasTurn(p, ph) ==
  /\ phase = ph
  /\ p = CurrentPlayer
  /\ p \notin outOfRound

Start ==
  /\ phase = "DEALING"
  /\ StartRound(Table, {}, None, None)
  /\ UNCHANGED <<config, tokensLeft, eliminated, gameLoser, pendingDuelPick>>

\* applyPlayCards: adjacent hand cards, with plates added to them in a duel.  plateCards
\* is what plateIndices.map makes of the indices, taken the plates that the filter then
\* removes: an index that is listed again adds its card again and removes nothing more.
PlayCards(p, indices, plateCards, taken) ==
  LET played     == Selected(hand[p], indices) \o plateCards
      left       == Unselected(hand[p], indices)
      empties    == LeavesRound(left)
      t          == [Table EXCEPT
                       !.hand[p] = left,
                       !.duelPlates[p] = [v \in Values |-> @[v] - CountOf(taken, v)],
                       !.copied = [v \in Values |-> @[v] + CountOf(plateCards, v) - CountOf(taken, v)],
                       !.discardPile = IF empties THEN Plus(@, pile) ELSE @]
      out        == IF empties THEN outOfRound \union {p} ELSE outOfRound
      remaining  == ActivePlayers \ out
      trick      == /\ pile' = played
                    /\ consecutivePasses' = 0
                    /\ lastPlayerId' = p
                    /\ isFirstTurn' = FALSE
                    /\ outOfRound' = out
                    /\ IF isSabor(played)
                       THEN saborActive' = TRUE /\ saborMinRequired' = Len(played)
                       ELSE IF saborActive /\ ~isSameCategory(played)
                       THEN saborActive' = FALSE /\ saborMinRequired' = 0
                       ELSE UNCHANGED saborVars
      goesOn     == /\ trick
                    /\ SetTable(t)
                    /\ UNCHANGED lastWiperId
                    /\ UNCHANGED gameVars
  IN  /\ HasTurn(p, "PLAYER_TURN")
      /\ plateCards # << >> => IsDuel
      /\ \A v \in Values : CountOf(taken, v) <= duelPlates[p][v]
      /\ validatePlayIndices(hand[p], indices, pile, saborActive, saborMinRequired, plateCards)
      /\ \/ /\ empties                                   \* the last but one leaves the round
            /\ RoundIsOver(remaining)
            /\ ResolveRoundEnd(t, eliminated, tokensLeft, CHOOSE s \in remaining : TRUE,
                               trick /\ UNCHANGED trickPileForPick)
         \/ /\ empties                                   \* one leaves, others go on
            /\ ~RoundIsOver(remaining)
            /\ AdvanceTurn(eliminated, out)
            /\ goesOn /\ UNCHANGED trickPileForPick
         \/ /\ ~empties /\ pile # << >>                   \* the beaten pile is offered
            /\ phase' = "TRICK_PICK"
            /\ trickPileForPick' = pile
            /\ goesOn /\ UNCHANGED currentTurnIndex
         \/ /\ ~empties /\ pile = << >>
            /\ AdvanceTurn(eliminated, out)
            /\ goesOn /\ UNCHANGED trickPileForPick
      /\ UNCHANGED <<config, pendingDuelPick>>

\* applyPassTurn: a card drawn straight into the hand at position i, then a pass.
PassTurn(p, i) ==
  /\ HasTurn(p, "PLAYER_TURN")
  /\ LET t == [Table EXCEPT !.pendingDraws[p] = None]
     IN  IF IsEmptyBag(drawPile)
         THEN AfterPass(t, p)
         ELSE \E c \in Values :
                /\ drawPile[c] > 0
                /\ AfterPass([t EXCEPT !.drawPile[c] = @ - 1,
                                       !.hand[p] = InsertAt(@, i, <<c>>)], p)
  /\ UNCHANGED <<config, pendingDuelPick>>

\* applyDrawCard outside a duel: the drawn card waits for the player's choice.
DrawCard(p) ==
  /\ HasTurn(p, "PLAYER_TURN")
  /\ ~isFirstTurn /\ ~IsDuel
  /\ \E c \in Values :
       /\ drawPile[c] > 0
       /\ drawPile' = [drawPile EXCEPT ![c] = @ - 1]
       /\ pendingDraws' = [pendingDraws EXCEPT ![p] = c]
  /\ phase' = "PASS_PICK"
  /\ UNCHANGED <<config, gameVars, trickVars, currentTurnIndex, outOfRound, hand,
                 discardPile, duelPlates, duelPassCount, copied, trickPileForPick,
                 lastWiperId, pendingDuelPick>>

\* applyDrawCard with the draw pile exhausted is a pass.
DrawFromEmptyPile(p) ==
  /\ ~isFirstTurn /\ ~IsDuel
  /\ IsEmptyBag(drawPile)
  /\ PassTurn(p, 0)

\* applyDrawCard in a duel: choose a plate, or lose the round without any.
DuelPass(p) ==
  /\ HasTurn(p, "PLAYER_TURN")
  /\ ~isFirstTurn /\ IsDuel
  /\ IF IsEmptyBag(duelPlates[p])
     THEN /\ ResolveRoundEnd(Table, eliminated, tokensLeft, p,
                             UNCHANGED <<trickVars, outOfRound, trickPileForPick>>)
          /\ UNCHANGED <<config, pendingDuelPick>>
     ELSE /\ phase' = "DUEL_PASS_PICK"
          /\ pendingDuelPick' = p
          /\ UNCHANGED <<config, gameVars, trickVars, tableVars, currentTurnIndex,
                         outOfRound, trickPileForPick, lastWiperId>>

\* The player's choice for a card it got: into the hand at position i, or discarded.
PutCards(t, p, action, i, cards) ==
  IF action = "insert" THEN [t EXCEPT !.hand[p] = InsertAt(@, i, cards)]
  ELSE [t EXCEPT !.discardPile = Plus(@, cards)]

\* A duel pass takes one of the player's plates and is counted.
TakePlate(t, p, v) == [t EXCEPT !.duelPlates[p][v] = @ - 1, !.duelPassCount[p] = @ + 1]

\* applyDuelPassPick: plate of value v to position i of the hand, or discarded.
DuelPassPick(p, v, action, i) ==
  LET t    == PutCards(TakePlate(Table, p, v), p, action, i, <<v>>)
      same == UNCHANGED <<trickVars, outOfRound, trickPileForPick>>
  IN  /\ phase = "DUEL_PASS_PICK"
      /\ pendingDuelPick = p
      /\ duelPlates[p][v] > 0
      /\ pendingDuelPick' = None
      /\ IF t.duelPassCount[p] >= DuelPassLimit
         THEN ResolveRoundEnd(t, eliminated, tokensLeft, p, same)
         ELSE /\ AdvanceTurn(eliminated, outOfRound)
              /\ SetTable(t)
              /\ same
              /\ UNCHANGED lastWiperId
              /\ UNCHANGED gameVars
      /\ UNCHANGED config

\* applyInsertDrawn: the waiting card to position i of the hand, or discarded.
InsertDrawn(p, action, i) ==
  LET drawn == IF pendingDraws[p] = None THEN << >> ELSE <<pendingDraws[p]>>
  IN  /\ HasTurn(p, "PASS_PICK")
      /\ AfterPass(PutCards([Table EXCEPT !.pendingDraws[p] = None], p, action, i, drawn), p)
      /\ UNCHANGED <<config, pendingDuelPick>>

\* applyInsertDrawn outside PASS_PICK fails, but forgets the waiting card first.
LateInsertDrawn(p) ==
  /\ InPlay /\ phase # "PASS_PICK"
  /\ pendingDraws[p] # None
  /\ pendingDraws' = [pendingDraws EXCEPT ![p] = None]
  /\ UNCHANGED <<config, gameVars, trickVars, phase, currentTurnIndex, outOfRound, hand,
                 drawPile, discardPile, duelPlates, duelPassCount, copied, trickPileForPick,
                 lastWiperId, pendingDuelPick>>

\* applyTrickPick: the beaten pile into the hand at position i, or discarded.
TrickPick(p, action, i) ==
  /\ HasTurn(p, "TRICK_PICK")
  /\ IF action = "take"
     THEN /\ hand' = [hand EXCEPT ![p] = InsertAt(@, i, trickPileForPick)]
          /\ UNCHANGED discardPile
     ELSE /\ discardPile' = Plus(discardPile, trickPileForPick)
          /\ UNCHANGED hand
  /\ trickPileForPick' = << >>
  /\ AdvanceTurn(eliminated, outOfRound)
  /\ UNCHANGED <<config, gameVars, trickVars, outOfRound, drawPile, pendingDraws,
                 duelPlates, duelPassCount, copied, lastWiperId, pendingDuelPick>>

\* applyMarketSwap: the last wiper changes hand card i for a market card, at any
\* moment of the game.
MarketSwap(p, i, v) ==
  /\ mode = "MERCADO"
  /\ lastWiperId = p
  /\ market[v] > 0
  /\ hand' = [hand EXCEPT ![p][i] = v]
  /\ market' = Plus([market EXCEPT ![v] = @ - 1], <<hand[p][i]>>)
  /\ UNCHANGED <<config, trickVars, phase, round, currentTurnIndex, tokensLeft,
                 eliminated, outOfRound, drawPile, discardPile, trickPileForPick,
                 pendingDraws, duelPlates, duelPassCount, copied, pendingDuelPick,
                 lastWiperId, lastRoundWinnerId, gameLoser>>

\* Mutant: the cards of a leaver are discarded and also kept.
CopyHand(t, p) == [t EXCEPT !.discardPile = Plus(@, t.hand[p]), !.pendingDraws[p] = None]

\* The hand of a leaver goes to the discard pile, the card it drew is forgotten.
GiveUpHand(t, p) == [CopyHand(t, p) EXCEPT !.hand[p] = << >>]

\* removePlayerFromGame, which the gateway calls while the game is not over.
RemovePlayerFromGame(p) ==
  LET t       == GiveUpHand(Table, p)
      elim    == eliminated \union {p}
      out     == outOfRound \union {p}
      tokens  == [tokensLeft EXCEPT ![p] = 0]
      active  == players \ elim
      inRound == active \ out
      gone    == /\ outOfRound' = out
                 /\ UNCHANGED <<trickVars, trickPileForPick>>
  IN  /\ InPlay
      /\ p \notin eliminated
      /\ Cardinality(eliminated) < MaxLeaves
      /\ \/ /\ Cardinality(active) <= 1
            /\ GameOver(t, elim, tokens, p) /\ gone
         \/ /\ Cardinality(active) > 1 /\ RoundIsOver(inRound)
            /\ ResolveRoundEnd(t, elim, tokens, CHOOSE s \in inRound : TRUE, gone)
         \/ /\ ~RoundIsOver(inRound)
            /\ IF phase = "PLAYER_TURN" /\ CurrentPlayer = p
               THEN AdvanceTurn(elim, out)
               ELSE UNCHANGED <<phase, currentTurnIndex>>
            /\ eliminated' = elim
            /\ tokensLeft' = tokens
            /\ SetTable(t)
            /\ gone
            /\ UNCHANGED <<round, market, lastRoundWinnerId, gameLoser, lastWiperId>>
      /\ UNCHANGED <<config, pendingDuelPick>>

\* recoverStuckTurn, called by the gateway when the turn is of a player out of
\* the round.
RecoverStuckTurn ==
  /\ phase = "PLAYER_TURN"
  /\ CurrentPlayer \in outOfRound
  /\ AdvanceTurn(eliminated, outOfRound)
  /\ UNCHANGED <<config, gameVars, trickVars, tableVars, outOfRound, trickPileForPick,
                 lastWiperId, pendingDuelPick>>

-------------------------------------------------------------------------------
Init ==
  /\ mode \in Modes
  /\ players \in {1..n : n \in PlayerCounts}
  /\ phase = "DEALING"
  /\ round = 0
  /\ currentTurnIndex = 0
  /\ tokensLeft = [s \in players |-> InitialTokens]
  /\ eliminated = {} /\ outOfRound = {}
  /\ hand = [s \in players |-> << >>]
  /\ pile = << >> /\ trickPileForPick = << >>
  /\ drawPile = NoCards /\ discardPile = NoCards /\ market = NoCards
  /\ pendingDraws = [s \in players |-> None]
  /\ duelPlates = [s \in players |-> NoCards]
  /\ duelPassCount = [s \in players |-> 0]
  /\ pendingDuelPick = None
  /\ saborActive = FALSE /\ saborMinRequired = 0
  /\ consecutivePasses = 0
  /\ lastPlayerId = None /\ lastWiperId = None /\ lastRoundWinnerId = None
  /\ isFirstTurn = FALSE
  /\ gameLoser = None
  /\ copied = NoCards

\* What a client can ask for: adjacent cards of its hand, a list of plates of one
\* value, a place of the hand where a card is put in.  Other selections are refused.
Selections(p)  == {i..j : i, j \in DOMAIN hand[p]} \union {{}}
Copies(v, n)   == [i \in 1..n |-> v]
PlateLists     == UNION {{Copies(v, n) : n \in 0..MaxPlateIndices} : v \in Values}

\* The plates that a list of indices can stand for: one at least, and as many as there
\* are, since nothing asks the indices to differ.
PlatesOf(plateCards) ==
  IF plateCards = << >> THEN {<< >>}
  ELSE {Copies(plateCards[1], n) : n \in 1..Len(plateCards)}
Places(p)      == 0..Len(hand[p])

Play(p) ==
  \E indices \in Selections(p), plateCards \in PlateLists :
    \E taken \in PlatesOf(plateCards) : PlayCards(p, indices, plateCards, taken)
Pass(p) == \E i \in Places(p) : PassTurn(p, i)
PickPlate(p) ==
  \E v \in Values : \/ \E i \in Places(p) : DuelPassPick(p, v, "insert", i)
                    \/ DuelPassPick(p, v, "discard", 0)
Insert(p) ==
  \/ \E i \in Places(p) : InsertDrawn(p, "insert", i)
  \/ InsertDrawn(p, "discard", 0)
PickTrick(p) ==
  \/ \E i \in Places(p) : TrickPick(p, "take", i)
  \/ TrickPick(p, "discard", 0)
Swap(p) == \E i \in DOMAIN hand[p], v \in Values : MarketSwap(p, i, v)

\* What a player does in its turn.
Move(p) ==
  \/ Play(p) \/ Pass(p) \/ DrawCard(p) \/ DrawFromEmptyPile(p)
  \/ DuelPass(p) \/ PickPlate(p) \/ Insert(p) \/ PickTrick(p)

Next ==
  \/ Start
  \/ RecoverStuckTurn
  \/ \E p \in players : Move(p) \/ Swap(p) \/ LateInsertDrawn(p) \/ RemovePlayerFromGame(p)

Spec == Init /\ [][Next]_vars
===============================================================================
