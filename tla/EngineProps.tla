------------------------------ MODULE EngineProps ------------------------------
(***************************************************************************)
(* What GameEngine must keep true, and the abstract game it implements.    *)
(***************************************************************************)
EXTENDS GameEngine

ConfigType ==
  /\ mode \in Modes
  /\ players \in {1..n : n \in PlayerCounts}

TableType ==
  /\ hand \in [players -> Seq(Values)]
  /\ drawPile \in Cards
  /\ discardPile \in Cards
  /\ pendingDraws \in [players -> Values \union {None}]
  /\ duelPlates \in [players -> Cards]
  /\ duelPassCount \in [players -> Nat]
  /\ copied \in Cards

TrickType ==
  /\ pile \in Seq(Values)
  /\ trickPileForPick \in Seq(Values)
  /\ saborActive \in BOOLEAN
  /\ saborMinRequired \in Nat
  /\ consecutivePasses \in Nat
  /\ lastPlayerId \in players \union {None}
  /\ isFirstTurn \in BOOLEAN
  /\ outOfRound \in SUBSET players

TurnType ==
  /\ phase \in Phases
  /\ round \in Nat
  /\ currentTurnIndex \in Nat
  /\ market \in Cards
  /\ lastWiperId \in players \union {None}
  /\ lastRoundWinnerId \in players \union {None}

GameType ==
  /\ tokensLeft \in [players -> 0..InitialTokens]
  /\ eliminated \in SUBSET players
  /\ gameLoser \in players \union {None}

\* The types of the engine's fields.
TypeOK ==
  /\ ConfigType /\ TableType /\ TrickType /\ TurnType /\ GameType
  /\ pendingDuelPick \in players \union {None}

-------------------------------------------------------------------------------
(* The cards, as assertCardIntegrity counts them. *)

InHands(v)  == SizeOf([s \in players |-> CountOf(hand[s], v)])
OnPlates(v) == SizeOf([s \in players |-> duelPlates[s][v]])
Pending(v)  == CountOf(pendingDraws, v)
CountsByValue(v) ==
  CountOf(pile, v) + drawPile[v] + discardPile[v] + CountOf(trickPileForPick, v)
    + InHands(v) + market[v] + OnPlates(v) + Pending(v)

\* assertCardIntegrity: "o deck tem exatamente 63 cartas, 9 de cada valor": when every
\* round is dealt anew and until the first player abandons the game (or when the
\* abandoned one is the loser it ends with), every copy of every card is in exactly one
\* of the places the engine keeps, but for the cards that a plate listed more than once
\* has added (the finding at applyPlayCards); these are accounted for.
CardIntegrity ==
  phase # "DEALING" /\ mode # "RODIZIO" /\ eliminated \subseteq {gameLoser}
    => \A v \in Values : CountsByValue(v) = CopiesPerValue + copied[v]

\* No more copies of a card than the deck has and repeated plates have added.
CopiesAccounted == \A v \in Values : CountsByValue(v) <= CopiesPerValue + copied[v]

CopiesOnlyInDuel == Cardinality(ActivePlayers) > 2 => copied = NoCards

\* Whatever the mode and whoever leaves, a card comes into being only by a plate that a
\* play lists twice, and never while more than two players are left.
OnlyPlatesDuplicate == CopiesAccounted /\ CopiesOnlyInDuel

\* The sabor of applyPlayCards says nothing the pile does not.
SaborMirrorsPile ==
  /\ saborActive <=> Len(pile) >= 2
  /\ saborMinRequired = IF saborActive THEN Len(pile) ELSE 0

-------------------------------------------------------------------------------
(* The round. *)

\* A round that goes on has two players in it: the branches for nobody left
\* (345-349, 699-701, 1080-1081) are never taken and advanceTurn finds someone.
AtLeastTwoInRound == InPlay => Cardinality(PlayersInRound) >= 2

\* "Rodada acaba quando sobra 1 jogador com cartas" (338): whoever is still in
\* the round has cards, so that holding cards and being in the round are the same.
InRoundHasCards == InPlay => \A s \in PlayersInRound : hand[s] # << >>

\* The turn is with a player still in the round.
CurrentInRound == InPlay => CurrentPlayer \in PlayersInRound

\* A choice is offered to the player whose turn it is.
PhaseOwner ==
  /\ phase = "PASS_PICK" => pendingDraws[CurrentPlayer] # None
  /\ phase = "TRICK_PICK" => trickPileForPick # << >> /\ lastPlayerId = CurrentPlayer
  /\ phase = "DUEL_PASS_PICK" =>
       pendingDuelPick = CurrentPlayer /\ ~IsEmptyBag(duelPlates[CurrentPlayer])

\* The engine never waits for a player who is out of the round, of whom every
\* handler refuses a move (248, 384, 437, 567, 807), nor for a choice of a player who
\* has nothing to choose: a drawn card, the beaten pile, a plate.
TurnHolderCanAct == CurrentInRound /\ PhaseOwner

\* Every duel pass has used up a plate.
DuelPassesUsePlates ==
  \A s \in players : duelPassCount[s] + SizeOf(duelPlates[s]) <= PlatesPerPlayer

\* What the engine keeps twice agrees, though different handlers write the two: sabor is
\* active exactly when the pile has two cards or more and then asks for as many, so
\* game:sabor_broken (303-307) is never sent; and a player's plates run out before the
\* third duel pass of "passCount >= 3" (524), so applyDrawCard ends the round instead.
FieldsAgree == SaborMirrorsPile /\ DuelPassesUsePlates

\* resolveRoundEnd: who lost the round opens the next one, also when the list of
\* active players shrank in the same step.
LoserOpensNextRound ==
  [][round > 0 /\ round' = round + 1
       => /\ tokensLeft[CurrentPlayer'] = tokensLeft'[CurrentPlayer'] + 1
          /\ CurrentPlayer' \in PlayersInRound']_vars

-------------------------------------------------------------------------------
(* The refinement. *)

Stage == IF phase = "DEALING" THEN "dealing"
         ELSE IF phase = "GAME_OVER" THEN "over" ELSE "round"

Abstract == INSTANCE TokenGame
  WITH stage <- Stage, tokens <- tokensLeft, gone <- eliminated,
       out <- outOfRound, loser <- gameLoser

\* Whatever is played, the tokens follow the promise of TokenGame.
ImplementsTokenGame == Abstract!Spec
================================================================================
