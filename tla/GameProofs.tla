------------------------------ MODULE GameProofs ------------------------------
(***************************************************************************)
(* The invariants of a game, one lemma per handler each time: IInv (types,  *)
(* two players in a round that goes on), then GameInv with the steps of     *)
(* TokenGame (Advances), then what the gateway sees of a step (Seen); last, *)
(* what a bot plays.                                                        *)
(***************************************************************************)
EXTENDS EngineLemmas, EngineTurns

\* A handler that leaves the game running, and the configuration alone.
LEMMA RunningIsEnough ==
  ASSUME ConfigType, UNCHANGED config, Running', pendingDuelPick' \in players \union {None}
  PROVE  IInv'
BY DEF IInv, TypeOK, ConfigType, config, Running, FreshBeforeDeal

\* The facts every handler starts from.
LEMMA InPlayFacts ==
  ASSUME IInv, InPlay
  PROVE  /\ ConfigType /\ TableType /\ TrickType /\ TurnType /\ GameType
         /\ TypeOK /\ AtLeastTwoInRound
         /\ Cardinality(PlayersInRound) >= 2
         /\ eliminated \in SUBSET players /\ Cardinality(players \ eliminated) >= 2
         /\ tokensLeft \in [players -> 0..InitialTokens]
         /\ Table \in Tables
<1>1. ConfigType /\ TableType /\ TrickType /\ TurnType /\ GameType /\ TypeOK /\ AtLeastTwoInRound
  BY DEF IInv, TypeOK
<1>2. Cardinality(PlayersInRound) >= 2 /\ Cardinality(players \ eliminated) >= 2
  BY <1>1, InRoundFinite DEF AtLeastTwoInRound, ActivePlayers
<1> QED  BY <1>1, <1>2, TableTyped DEF GameType

\* The first deal.
LEMMA StartKeepsIInv ==
  ASSUME IInv, Start
  PROVE  IInv'
<1>1. ConfigType /\ TableType /\ TurnType /\ GameType /\ eliminated = {}
  BY DEF IInv, TypeOK, Start, FreshBeforeDeal
<1>2. Cardinality(players \ {}) >= 2
  BY <1>1, Seats
<1>3. round \in Nat
  BY <1>1 DEF TurnType
<1>4. /\ StartRound(Table, {}, None, None)
      /\ UNCHANGED <<config, tokensLeft, eliminated, gameLoser, pendingDuelPick>>
  BY DEF Start
<1>5. /\ TableType' /\ TrickType' /\ TurnType'
      /\ phase' = "PLAYER_TURN" /\ outOfRound' = {}
  BY <1>1, <1>2, <1>3, <1>4, TableTyped, StartRoundTyped DEF config
<1>6. GameType'
  BY <1>1, <1>4 DEF GameType, config
<1>7. PlayersInRound' = players \ {}
  BY <1>1, <1>4, <1>5 DEF PlayersInRound, ActivePlayers, config
<1>8. AtLeastTwoInRound'
  BY <1>2, <1>7 DEF AtLeastTwoInRound
<1>9. pendingDuelPick' \in players \union {None}
  BY <1>4 DEF IInv, TypeOK
<1> QED  BY <1>1, <1>4, <1>5, <1>6, <1>8, <1>9, RunningIsEnough DEF Running

\* Taking one away from those in the round leaves one at least.
LEMMA OneLess ==
  ASSUME NEW S, IsFiniteSet(S), Cardinality(S) >= 2, NEW x
  PROVE  /\ IsFiniteSet(S \ {x}) /\ Cardinality(S \ {x}) >= 1
         /\ (CHOOSE s \in S \ {x} : TRUE) \in S \ {x}
<1>1. IsFiniteSet(S \ {x}) /\ Cardinality(S) \in Nat /\ Cardinality(S \ {x}) \in Nat
      /\ Cardinality(S \ {x}) = IF x \in S THEN Cardinality(S) - 1 ELSE Cardinality(S)
  BY FS_RemoveElement, FS_CardinalityType
<1>2. S \ {x} # {}
  BY <1>1, FS_EmptySet
<1> QED  BY <1>1, <1>2

\* What applyPlayCards leaves on the table: the played cards out of the hand, the
\* plates off the player's plates, and the beaten pile discarded when the hand is empty.
LEMMA PlayedTableTyped ==
  ASSUME TableType, pile \in Seq(Values), NEW p \in players,
         NEW indices \in Selections(p),
         NEW plateCards \in PlateLists, NEW taken \in PlatesOf(plateCards),
         \A v \in Values : CountOf(taken, v) <= duelPlates[p][v]
  PROVE  /\ Selected(hand[p], indices) \o plateCards \in Seq(Values)
         /\ Unselected(hand[p], indices) \in Seq(Values)
         /\ [Table EXCEPT
               !.hand[p] = Unselected(hand[p], indices),
               !.duelPlates[p] = [v \in Values |-> @[v] - CountOf(taken, v)],
               !.copied = [v \in Values |-> @[v] + CountOf(plateCards, v)
                                                - CountOf(taken, v)],
               !.discardPile = IF LeavesRound(Unselected(hand[p], indices))
                               THEN Plus(@, pile) ELSE @] \in Tables
<1> DEFINE left       == Unselected(hand[p], indices)
           empties    == LeavesRound(left)
           plates     == [v \in Values |-> duelPlates[p][v] - CountOf(taken, v)]
           copies     == [v \in Values |-> copied[v] + CountOf(plateCards, v) - CountOf(taken, v)]
           pileOut    == IF empties THEN Plus(discardPile, pile) ELSE discardPile
           t          == [Table EXCEPT
                            !.hand[p] = left,
                            !.duelPlates[p] = [v \in Values |-> @[v] - CountOf(taken, v)],
                            !.copied = [v \in Values |-> @[v] + CountOf(plateCards, v)
                                                             - CountOf(taken, v)],
                            !.discardPile = IF empties THEN Plus(@, pile) ELSE @]
<1>1. hand[p] \in Seq(Values) /\ plateCards \in Seq(Values) /\ taken \in Seq(Values)
  BY PlatesTyped DEF TableType
<1>2. Selected(hand[p], indices) \in Seq(Values) /\ left \in Seq(Values)
  <2>1. indices = {} \/ \E i, j \in DOMAIN hand[p] : indices = i..j
    BY DEF Selections
  <2> QED  BY <1>1, <2>1, PlayType
<1>3. Selected(hand[p], indices) \o plateCards \in Seq(Values)
  BY <1>1, <1>2, ConcatProperties
<1>4. plates \in Cards
  <2>1. \A v \in Values : CountOf(taken, v) \in Nat /\ duelPlates[p][v] \in Nat
    BY <1>1, CountOfNat DEF TableType, Cards
  <2> QED  BY <2>1 DEF Cards
<1>7. copies \in Cards
  <2>1. \A v \in Values : /\ CountOf(plateCards, v) \in Nat /\ CountOf(taken, v) \in Nat
                           /\ CountOf(taken, v) <= CountOf(plateCards, v) /\ copied[v] \in Nat
    BY <1>1, CountOfNat, PlatesTyped DEF TableType, Cards
  <2> QED  BY <2>1 DEF Cards
<1>5. pileOut \in Cards
  BY PlusType DEF TableType
<1>6. t \in Tables
  <2>1. t = [Table EXCEPT !.hand = [hand EXCEPT ![p] = left],
                          !.duelPlates = [duelPlates EXCEPT ![p] = plates],
                          !.copied = copies, !.discardPile = pileOut]
    BY DEF Table
  <2>2. [hand EXCEPT ![p] = left] \in [players -> Seq(Values)]
    BY <1>2 DEF TableType
  <2>3. [duelPlates EXCEPT ![p] = plates] \in [players -> Cards]
    BY <1>4 DEF TableType
  <2>4. Table \in Tables
    BY TableTyped
  <2> HIDE DEF left, plates, copies, pileOut, t
  <2> QED  BY <1>5, <1>7, <2>1, <2>2, <2>3, <2>4 DEF Tables
<1> QED  BY <1>2, <1>3, <1>6

\* applyPlayCards.
LEMMA PlayKeepsIInv ==
  ASSUME IInv, NEW p \in players, Play(p)
  PROVE  IInv'
<1>0. PICK indices \in Selections(p), plateCards \in PlateLists :
        \E taken \in PlatesOf(plateCards) : PlayCards(p, indices, plateCards, taken)
  BY DEF Play
<1>1. PICK taken \in PlatesOf(plateCards) : PlayCards(p, indices, plateCards, taken)
  BY <1>0
<1>2. InPlay
  BY <1>1 DEF PlayCards, HasTurn, InPlay, Phases
<1>3. /\ ConfigType /\ TableType /\ TrickType /\ TurnType /\ GameType
      /\ TypeOK /\ AtLeastTwoInRound
      /\ Cardinality(PlayersInRound) >= 2
      /\ eliminated \in SUBSET players /\ Cardinality(players \ eliminated) >= 2
      /\ tokensLeft \in [players -> 0..InitialTokens]
      /\ Table \in Tables
  BY <1>2, InPlayFacts
<1> DEFINE played     == Selected(hand[p], indices) \o plateCards
           left       == Unselected(hand[p], indices)
           empties    == LeavesRound(left)
           t          == [Table EXCEPT
                            !.hand[p] = left,
                            !.duelPlates[p] = [v \in Values |-> @[v] - CountOf(taken, v)],
                            !.copied = [v \in Values |-> @[v] + CountOf(plateCards, v)
                                                             - CountOf(taken, v)],
                            !.discardPile = IF empties THEN Plus(@, pile) ELSE @]
           out        == IF empties THEN outOfRound \union {p} ELSE outOfRound
           remaining  == ActivePlayers \ out
           trick      == /\ pile' = played
                         /\ consecutivePasses' = 0
                         /\ lastPlayerId' = p
                         /\ isFirstTurn' = FALSE
                         /\ outOfRound' = out
                         /\ IF isSabor(played)
                            THEN saborActive' = TRUE /\ saborMinRequired' = Len(played)
                            ELSE IF saborActive /\ ~isSameCategory(played)
                            THEN saborActive' = FALSE /\ saborMinRequired' = 0
                            ELSE UNCHANGED saborVars
           goesOn     == /\ trick
                         /\ SetTable(t)
                         /\ UNCHANGED lastWiperId
                         /\ UNCHANGED gameVars
<1>4. played \in Seq(Values) /\ left \in Seq(Values) /\ t \in Tables
  <2>1. \A v \in Values : CountOf(taken, v) <= duelPlates[p][v]
    BY <1>1 DEF PlayCards
  <2>2. pile \in Seq(Values)
    BY <1>3 DEF TrickType
  <2> QED  BY <1>1, <1>3, <2>1, <2>2, PlayedTableTyped
<1>6. Len(played) \in Nat
  BY <1>4, LenProperties
<1>10. ASSUME trick, trickPileForPick' \in {trickPileForPick, pile}, UNCHANGED players
       PROVE  TrickType'
  <2>1. out \in SUBSET players
    BY <1>3 DEF TrickType
  <2>2. saborActive' \in BOOLEAN /\ saborMinRequired' \in Nat
    <3>1. \/ saborActive' = TRUE /\ saborMinRequired' = Len(played)
          \/ saborActive' = FALSE /\ saborMinRequired' = 0
          \/ saborActive' = saborActive /\ saborMinRequired' = saborMinRequired
      BY <1>10 DEF saborVars
    <3>2. saborActive \in BOOLEAN /\ saborMinRequired \in Nat
      BY <1>3 DEF TrickType
    <3>3. \/ saborMinRequired' = Len(played)
          \/ saborMinRequired' = 0
          \/ saborMinRequired' = saborMinRequired
      BY <3>1, Zenon
    <3>4. saborMinRequired' \in Nat
      <4> HIDE DEF played
      <4> QED  BY <1>6, <3>2, <3>3
    <3>5. saborActive' \in BOOLEAN
      BY <3>1, <3>2, Zenon
    <3> QED  BY <3>4, <3>5
  <2> HIDE DEF played, out
  <2> QED  BY <1>3, <1>4, <1>10, <2>1, <2>2 DEF TrickType
<1>11. pendingDuelPick' \in players \union {None} /\ UNCHANGED config /\ UNCHANGED players
  BY <1>1, <1>3 DEF PlayCards, TypeOK, config
<1>12. empties => remaining = PlayersInRound \ {p}
  BY DEF PlayersInRound
<1>13. ASSUME goesOn, trickPileForPick' \in {trickPileForPick, pile}, AtLeastTwoInRound', phase' \in Phases, phase' # "DEALING",
              currentTurnIndex' \in Nat
       PROVE  Running'
  <2>1. TableType'
    <3> HIDE DEF t
    <3> QED  BY <1>4, <1>11, <1>13, SetTableTyped
  <2>2. TrickType'
    BY <1>10, <1>11, <1>13
  <2>3. TurnType' /\ GameType'
    BY <1>3, <1>11, <1>13 DEF TurnType, GameType, gameVars
  <2> QED  BY <1>13, <2>1, <2>2, <2>3 DEF Running
<1>14. ASSUME AdvanceTurn(eliminated, out)
       PROVE  phase' = "PLAYER_TURN" /\ currentTurnIndex' \in Nat
  <2> HIDE DEF out
  <2> QED  BY <1>3, <1>14, NextIndexTyped DEF AdvanceTurn
<1>15. CASE /\ empties
            /\ RoundIsOver(remaining)
            /\ ResolveRoundEnd(t, eliminated, tokensLeft, CHOOSE s \in remaining : TRUE,
                               trick /\ UNCHANGED trickPileForPick)
  <2> DEFINE loser == CHOOSE s \in remaining : TRUE
             rest  == trick /\ UNCHANGED trickPileForPick
  <2>1. loser \in PlayersInRound \ {p}
    BY <1>3, <1>12, <1>15, InRoundFinite, OneLess
  <2>2. loser \in players
    BY <2>1 DEF PlayersInRound, ActivePlayers
  <2>3. rest => TrickType'
    BY <1>10, <1>11
  <2>4. ResolveRoundEnd(t, eliminated, tokensLeft, loser, rest)
    BY <1>15
  <2> HIDE DEF t, loser, rest
  <2>5. Running'
    BY <1>3, <1>4, <1>11, <2>2, <2>3, <2>4, RoundEndTyped
  <2> QED  BY <1>3, <1>11, <2>5, RunningIsEnough
<1>16. CASE /\ empties
            /\ ~RoundIsOver(remaining)
            /\ AdvanceTurn(eliminated, out)
            /\ goesOn /\ UNCHANGED trickPileForPick
  <2>1. PlayersInRound' = remaining
    BY <1>11, <1>16 DEF PlayersInRound, ActivePlayers, gameVars
  <2>2. Cardinality(remaining) \in Nat
    BY <1>3, <1>12, <1>16, InRoundFinite, OneLess, FS_CardinalityType
  <2>3. AtLeastTwoInRound'
    BY <1>16, <2>1, <2>2 DEF AtLeastTwoInRound, RoundIsOver
  <2>4. phase' \in Phases /\ phase' # "DEALING" /\ currentTurnIndex' \in Nat
    BY <1>14, <1>16 DEF Phases
  <2>5. Running'
    BY <1>13, <1>16, <2>3, <2>4
  <2> QED  BY <1>3, <1>11, <2>5, RunningIsEnough
<1>17. ASSUME ~empties, goesOn, trickPileForPick' \in {trickPileForPick, pile}, phase' \in {"PLAYER_TURN", "TRICK_PICK"},
              currentTurnIndex' \in Nat
       PROVE  IInv'
  <2>1. PlayersInRound' = PlayersInRound
    BY <1>11, <1>17 DEF PlayersInRound, ActivePlayers, gameVars
  <2>2. AtLeastTwoInRound'
    BY <1>3, <2>1 DEF AtLeastTwoInRound
  <2>3. phase' \in Phases /\ phase' # "DEALING"
    BY <1>17 DEF Phases
  <2>4. Running'
    BY <1>13, <1>17, <2>2, <2>3
  <2> QED  BY <1>3, <1>11, <2>4, RunningIsEnough
<1>18. CASE /\ ~empties /\ pile # << >>
            /\ phase' = "TRICK_PICK"
            /\ trickPileForPick' = pile
            /\ goesOn /\ UNCHANGED currentTurnIndex
  BY <1>3, <1>17, <1>18 DEF TurnType
<1>19. CASE /\ ~empties /\ pile = << >>
            /\ AdvanceTurn(eliminated, out)
            /\ goesOn /\ UNCHANGED trickPileForPick
  BY <1>14, <1>17, <1>19
<1> QED  BY <1>1, <1>15, <1>16, <1>18, <1>19 DEF PlayCards

\* applyPassTurn.
LEMMA PassKeepsIInv ==
  ASSUME IInv, NEW p \in players, NEW i \in Places(p), PassTurn(p, i)
  PROVE  IInv'
<1>1. InPlay
  BY DEF PassTurn, HasTurn, InPlay, Phases
<1>2. /\ ConfigType /\ TableType /\ TrickType /\ TurnType /\ GameType
      /\ TypeOK /\ AtLeastTwoInRound
      /\ Table \in Tables
  BY <1>1, InPlayFacts
<1>3. UNCHANGED config /\ UNCHANGED players /\ pendingDuelPick' \in players \union {None}
  BY <1>2 DEF PassTurn, config, TypeOK
<1> DEFINE t == [Table EXCEPT !.pendingDraws[p] = None]
<1>4. t \in Tables
  BY <1>2 DEF Tables
<1>5. CASE IsEmptyBag(drawPile)
  <2>1. AfterPass(t, p)
    BY <1>5 DEF PassTurn
  <2> HIDE DEF t
  <2> QED  BY <1>1, <1>2, <1>3, <1>4, <2>1, AfterPassTyped, RunningIsEnough
<1>6. CASE ~IsEmptyBag(drawPile)
  <2>1. PICK c \in Values :
          /\ drawPile[c] > 0
          /\ AfterPass([t EXCEPT !.drawPile[c] = @ - 1,
                                 !.hand[p] = InsertAt(@, i, <<c>>)], p)
    BY <1>6 DEF PassTurn
  <2> DEFINE u == [t EXCEPT !.drawPile[c] = @ - 1, !.hand[p] = InsertAt(@, i, <<c>>)]
  <2>2. [drawPile EXCEPT ![c] = @ - 1] \in Cards
    BY <1>2, <2>1 DEF TableType, Cards
  <2>3. hand[p] \in Seq(Values) /\ <<c>> \in Seq(Values)
    BY <1>2 DEF TableType
  <2>4. i \in 0..Len(hand[p])
    BY DEF Places
  <2>5. InsertAt(hand[p], i, <<c>>) \in Seq(Values)
    BY <2>3, <2>4, InsertAtType
  <2>6. [hand EXCEPT ![p] = InsertAt(hand[p], i, <<c>>)] \in [players -> Seq(Values)]
    BY <1>2, <2>5 DEF TableType
  <2>7. u = [t EXCEPT !.drawPile = [drawPile EXCEPT ![c] = @ - 1],
                      !.hand = [hand EXCEPT ![p] = InsertAt(hand[p], i, <<c>>)]]
    BY DEF Table
  <2>8. u \in Tables
    <3> HIDE DEF t, u
    <3> QED  BY <1>4, <2>2, <2>6, <2>7 DEF Tables
  <2>9. AfterPass(u, p)
    BY <2>1
  <2> HIDE DEF u
  <2> QED  BY <1>1, <1>2, <1>3, <2>8, <2>9, AfterPassTyped, RunningIsEnough
<1> QED  BY <1>5, <1>6

\* Handlers that change the cards or the turn, and leave the players in the
\* round and the tokens as they are.
LEMMA SamePlayersKeepIInv ==
  ASSUME IInv, InPlay, UNCHANGED config, UNCHANGED <<tokensLeft, eliminated, outOfRound, gameLoser>>,
         TableType', TrickType', TurnType', pendingDuelPick' \in players \union {None},
         phase' # "DEALING"
  PROVE  IInv'
<1>1. ConfigType /\ GameType /\ Cardinality(PlayersInRound) >= 2
  BY InPlayFacts
<1>2. UNCHANGED players
  BY DEF config
<1>3. PlayersInRound' = PlayersInRound
  BY <1>2 DEF PlayersInRound, ActivePlayers
<1>4. AtLeastTwoInRound' /\ GameType'
  BY <1>1, <1>2, <1>3 DEF AtLeastTwoInRound, GameType
<1> QED  BY <1>1, <1>4, RunningIsEnough DEF Running

\* applyDrawCard outside a duel.
LEMMA DrawKeepsIInv ==
  ASSUME IInv, NEW p \in players, DrawCard(p)
  PROVE  IInv'
<1>1. InPlay
  BY DEF DrawCard, HasTurn, InPlay, Phases
<1>2. ConfigType /\ TableType /\ TrickType /\ TurnType /\ TypeOK
  BY <1>1, InPlayFacts
<1>3. PICK c \in Values :
        /\ drawPile[c] > 0
        /\ drawPile' = [drawPile EXCEPT ![c] = @ - 1]
        /\ pendingDraws' = [pendingDraws EXCEPT ![p] = c]
  BY DEF DrawCard
<1>4. drawPile' \in Cards
  BY <1>2, <1>3 DEF TableType, Cards
<1>5. TableType'
  BY <1>2, <1>3, <1>4 DEF DrawCard, TableType, config
<1>6. TrickType' /\ TurnType'
  BY <1>2 DEF DrawCard, TrickType, TurnType, trickVars, gameVars, config, Phases
<1>7. pendingDuelPick' \in players \union {None}
  BY <1>2 DEF DrawCard, TypeOK
<1> QED  BY <1>1, <1>5, <1>6, <1>7, SamePlayersKeepIInv DEF DrawCard, gameVars

\* applyDrawCard in a duel.
LEMMA DuelPassKeepsIInv ==
  ASSUME IInv, NEW p \in players, DuelPass(p)
  PROVE  IInv'
<1>1. InPlay
  BY DEF DuelPass, HasTurn, InPlay, Phases
<1>2. /\ ConfigType /\ TableType /\ TrickType /\ TurnType /\ GameType /\ TypeOK
      /\ eliminated \in SUBSET players /\ Cardinality(players \ eliminated) >= 2
      /\ tokensLeft \in [players -> 0..InitialTokens]
      /\ Table \in Tables
  BY <1>1, InPlayFacts
<1> DEFINE rest == UNCHANGED <<trickVars, outOfRound, trickPileForPick>>
<1>3. CASE IsEmptyBag(duelPlates[p])
  <2>1. /\ ResolveRoundEnd(Table, eliminated, tokensLeft, p, rest)
        /\ UNCHANGED <<config, pendingDuelPick>>
    BY <1>3 DEF DuelPass
  <2>2. rest => TrickType'
    BY <1>2, <2>1 DEF TrickType, trickVars, config
  <2>3. UNCHANGED players /\ pendingDuelPick' \in players \union {None}
    BY <1>2, <2>1 DEF TypeOK, config
  <2> HIDE DEF rest
  <2> QED  BY <1>2, <2>1, <2>2, <2>3, RoundEndTyped, RunningIsEnough
<1>4. CASE ~IsEmptyBag(duelPlates[p])
  <2>1. /\ phase' = "DUEL_PASS_PICK"
        /\ pendingDuelPick' = p
        /\ UNCHANGED <<config, gameVars, trickVars, tableVars, currentTurnIndex,
                       outOfRound, trickPileForPick, lastWiperId>>
    BY <1>4 DEF DuelPass
  <2>2. TableType' /\ TrickType' /\ TurnType'
    BY <1>2, <2>1 DEF TableType, TrickType, TurnType, tableVars, trickVars, gameVars,
                      config, Phases
  <2> QED  BY <1>1, <2>1, <2>2, SamePlayersKeepIInv DEF gameVars
<1> QED  BY <1>3, <1>4

\* A card put into a hand, or on the discard pile.
LEMMA PutCardsTyped ==
  ASSUME NEW t \in Tables, NEW p \in players, NEW i \in 0..Len(t.hand[p]),
         NEW cards \in Seq(Values), NEW action
  PROVE  PutCards(t, p, action, i, cards) \in Tables
<1>1. t.hand[p] \in Seq(Values) /\ t.discardPile \in Cards
  BY DEF Tables
<1>2. InsertAt(t.hand[p], i, cards) \in Seq(Values) /\ Plus(t.discardPile, cards) \in Cards
  BY <1>1, InsertAtType, PlusType
<1>3. /\ [t EXCEPT !.hand[p] = InsertAt(@, i, cards)] \in Tables
      /\ [t EXCEPT !.discardPile = Plus(@, cards)] \in Tables
  BY <1>2 DEF Tables
<1> QED  BY <1>3 DEF PutCards

\* A plate taken off a player's plates.
LEMMA TakePlateTyped ==
  ASSUME TableType, NEW p \in players, NEW v \in Values, duelPlates[p][v] > 0
  PROVE  TakePlate(Table, p, v) \in Tables /\ TakePlate(Table, p, v).hand = hand
<1> DEFINE taken == TakePlate(Table, p, v)
<1>1. taken = [Table EXCEPT
                 !.duelPlates = [duelPlates EXCEPT ![p] = [duelPlates[p] EXCEPT ![v] = @ - 1]],
                 !.duelPassCount = [duelPassCount EXCEPT ![p] = @ + 1]]
  BY DEF TakePlate, Table
<1>2. [duelPlates[p] EXCEPT ![v] = @ - 1] \in Cards
  BY DEF TableType, Cards
<1>3. [duelPlates EXCEPT ![p] = [duelPlates[p] EXCEPT ![v] = @ - 1]] \in [players -> Cards]
  BY <1>2 DEF TableType
<1>4. [duelPassCount EXCEPT ![p] = @ + 1] \in [players -> Nat]
  BY DEF TableType
<1>5. Table \in Tables /\ Table.hand = hand
  BY TableTyped DEF Table
<1> HIDE DEF taken
<1>6. taken \in Tables /\ taken.hand = hand
  BY <1>1, <1>3, <1>4, <1>5 DEF Tables
<1> QED  BY <1>6 DEF taken

\* applyDuelPassPick.
LEMMA PickPlateKeepsIInv ==
  ASSUME IInv, NEW p \in players, PickPlate(p)
  PROVE  IInv'
<1>1. PICK v \in Values, action \in {"insert", "discard"}, i \in Places(p) :
        DuelPassPick(p, v, action, i)
  <2>1. PICK v \in Values : \/ \E i \in Places(p) : DuelPassPick(p, v, "insert", i)
                            \/ DuelPassPick(p, v, "discard", 0)
    BY DEF PickPlate
  <2>2. 0 \in Places(p)
    <3>1. hand[p] \in Seq(Values)
      BY DEF IInv, TypeOK, TableType
    <3>2. Len(hand[p]) \in Nat
      BY <3>1, LenProperties
    <3> QED  BY <3>2 DEF Places
  <2> QED  BY <2>1, <2>2
<1>2. InPlay
  BY <1>1 DEF DuelPassPick, InPlay, Phases
<1>3. /\ ConfigType /\ TableType /\ TrickType /\ TurnType /\ GameType /\ TypeOK
      /\ eliminated \in SUBSET players /\ Cardinality(players \ eliminated) >= 2
      /\ tokensLeft \in [players -> 0..InitialTokens]
      /\ Table \in Tables
  BY <1>2, InPlayFacts
<1> DEFINE same == UNCHANGED <<trickVars, outOfRound, trickPileForPick>>
           taken == TakePlate(Table, p, v)
           t == PutCards(taken, p, action, i, <<v>>)
<1>4. /\ duelPlates[p][v] > 0
      /\ pendingDuelPick' = None
      /\ IF t.duelPassCount[p] >= DuelPassLimit
         THEN ResolveRoundEnd(t, eliminated, tokensLeft, p, same)
         ELSE /\ AdvanceTurn(eliminated, outOfRound)
              /\ SetTable(t)
              /\ same
              /\ UNCHANGED lastWiperId
              /\ UNCHANGED gameVars
      /\ UNCHANGED config
  BY <1>1 DEF DuelPassPick
<1>5. taken \in Tables /\ taken.hand = hand
  BY <1>1, <1>3, <1>4, TakePlateTyped
<1>6. t \in Tables
  <2>1. i \in 0..Len(taken.hand[p]) /\ <<v>> \in Seq(Values)
    BY <1>1, <1>5 DEF Places
  <2> HIDE DEF taken
  <2> QED  BY <1>5, <2>1, PutCardsTyped
<1>7. UNCHANGED players /\ pendingDuelPick' \in players \union {None}
  BY <1>4 DEF config
<1>8. same => TrickType'
  BY <1>3, <1>7 DEF TrickType, trickVars
<1>9. CASE t.duelPassCount[p] >= DuelPassLimit
  <2>1. ResolveRoundEnd(t, eliminated, tokensLeft, p, same)
    BY <1>4, <1>9
  <2> HIDE DEF t, same
  <2> QED  BY <1>3, <1>4, <1>6, <1>7, <1>8, <2>1, RoundEndTyped, RunningIsEnough
<1>10. CASE ~(t.duelPassCount[p] >= DuelPassLimit)
  <2>1. /\ AdvanceTurn(eliminated, outOfRound) /\ SetTable(t) /\ same
        /\ UNCHANGED lastWiperId /\ UNCHANGED gameVars
    BY <1>4, <1>10
  <2>2. TableType'
    <3> HIDE DEF t
    <3> QED  BY <1>6, <1>7, <2>1, SetTableTyped
  <2>3. TurnType'
    BY <1>3, <1>7, <2>1, NextIndexTyped DEF AdvanceTurn, TurnType, Phases, gameVars
  <2>4. phase' # "DEALING"
    BY <2>1 DEF AdvanceTurn
  <2> QED  BY <1>2, <1>4, <1>7, <1>8, <2>1, <2>2, <2>3, <2>4, SamePlayersKeepIInv DEF gameVars
<1> QED  BY <1>9, <1>10

\* applyInsertDrawn.
LEMMA InsertKeepsIInv ==
  ASSUME IInv, NEW p \in players, Insert(p)
  PROVE  IInv'
<1>1. PICK action \in {"insert", "discard"}, i \in Places(p) : InsertDrawn(p, action, i)
  <2>1. 0 \in Places(p)
    <3>1. hand[p] \in Seq(Values)
      BY DEF IInv, TypeOK, TableType
    <3>2. Len(hand[p]) \in Nat
      BY <3>1, LenProperties
    <3> QED  BY <3>2 DEF Places
  <2> QED  BY <2>1 DEF Insert
<1>2. InPlay
  BY <1>1 DEF InsertDrawn, HasTurn, InPlay, Phases
<1>3. /\ ConfigType /\ TableType /\ TrickType /\ TurnType /\ GameType /\ TypeOK
      /\ AtLeastTwoInRound /\ Table \in Tables
  BY <1>2, InPlayFacts
<1> DEFINE drawn == IF pendingDraws[p] = None THEN << >> ELSE <<pendingDraws[p]>>
           b == [Table EXCEPT !.pendingDraws[p] = None]
           t == PutCards(b, p, action, i, drawn)
<1>4. AfterPass(t, p) /\ UNCHANGED <<config, pendingDuelPick>>
  BY <1>1 DEF InsertDrawn
<1>5. drawn \in Seq(Values)
  <2>1. pendingDraws[p] \in Values \union {None}
    BY <1>3 DEF TableType
  <2> QED  BY <2>1, EmptySeq
<1>6. b \in Tables /\ b.hand = hand
  BY <1>3 DEF Tables, Table
<1>7. i \in 0..Len(b.hand[p])
  BY <1>1, <1>6 DEF Places
<1>8. t \in Tables
  <2> HIDE DEF drawn, b
  <2> QED  BY <1>5, <1>6, <1>7, PutCardsTyped
<1>9. UNCHANGED players /\ pendingDuelPick' \in players \union {None}
  BY <1>3, <1>4 DEF TypeOK, config
<1> HIDE DEF t
<1> QED  BY <1>2, <1>3, <1>4, <1>8, <1>9, AfterPassTyped, RunningIsEnough

\* applyTrickPick.
LEMMA PickTrickKeepsIInv ==
  ASSUME IInv, NEW p \in players, PickTrick(p)
  PROVE  IInv'
<1>1. PICK action \in {"take", "discard"}, i \in Places(p) : TrickPick(p, action, i)
  <2>1. 0 \in Places(p)
    <3>1. hand[p] \in Seq(Values)
      BY DEF IInv, TypeOK, TableType
    <3>2. Len(hand[p]) \in Nat
      BY <3>1, LenProperties
    <3> QED  BY <3>2 DEF Places
  <2> QED  BY <2>1 DEF PickTrick
<1>2. InPlay
  BY <1>1 DEF TrickPick, HasTurn, InPlay, Phases
<1>3. /\ ConfigType /\ TableType /\ TrickType /\ TurnType /\ TypeOK
      /\ eliminated \in SUBSET players /\ Cardinality(players \ eliminated) >= 2
  BY <1>2, InPlayFacts
<1>4. hand[p] \in Seq(Values) /\ trickPileForPick \in Seq(Values) /\ i \in 0..Len(hand[p])
  BY <1>1, <1>3 DEF TableType, TrickType, Places
<1>5. /\ InsertAt(hand[p], i, trickPileForPick) \in Seq(Values)
      /\ Plus(discardPile, trickPileForPick) \in Cards
  BY <1>3, <1>4, InsertAtType, PlusType DEF TableType
<1>6. hand' \in [players -> Seq(Values)] /\ discardPile' \in Cards
  BY <1>1, <1>3, <1>5 DEF TrickPick, TableType
<1>7. /\ trickPileForPick' = << >>
      /\ AdvanceTurn(eliminated, outOfRound)
      /\ UNCHANGED <<config, gameVars, trickVars, outOfRound, drawPile, pendingDraws,
                     duelPlates, duelPassCount, copied, lastWiperId, pendingDuelPick>>
  BY <1>1 DEF TrickPick
<1>8. TableType'
  BY <1>3, <1>6, <1>7 DEF TableType, config
<1>9. TrickType'
  BY <1>3, <1>7, EmptySeq DEF TrickType, trickVars, config
<1>10. TurnType' /\ phase' # "DEALING"
  BY <1>3, <1>7, NextIndexTyped DEF TurnType, AdvanceTurn, gameVars, config, Phases
<1>11. pendingDuelPick' \in players \union {None}
  BY <1>3, <1>7 DEF TypeOK
<1> QED  BY <1>2, <1>7, <1>8, <1>9, <1>10, <1>11, SamePlayersKeepIInv DEF gameVars

\* applyInsertDrawn outside its phase.
LEMMA LateInsertKeepsIInv ==
  ASSUME IInv, NEW p \in players, LateInsertDrawn(p)
  PROVE  IInv'
<1>1. InPlay
  BY DEF LateInsertDrawn
<1>2. ConfigType /\ TableType /\ TrickType /\ TurnType /\ TypeOK
  BY <1>1, InPlayFacts
<1>3. TableType'
  BY <1>2 DEF LateInsertDrawn, TableType, config
<1>4. TrickType' /\ TurnType' /\ phase' # "DEALING"
  BY <1>1, <1>2 DEF LateInsertDrawn, TrickType, TurnType, trickVars, gameVars, config, InPlay
<1>5. pendingDuelPick' \in players \union {None}
  BY <1>2 DEF LateInsertDrawn, TypeOK
<1> QED  BY <1>1, <1>3, <1>4, <1>5, SamePlayersKeepIInv DEF LateInsertDrawn, gameVars

\* recoverStuckTurn.
LEMMA RecoverKeepsIInv ==
  ASSUME IInv, RecoverStuckTurn
  PROVE  IInv'
<1>1. InPlay
  BY DEF RecoverStuckTurn, InPlay, Phases
<1>2. /\ ConfigType /\ TableType /\ TrickType /\ TurnType /\ TypeOK
      /\ eliminated \in SUBSET players /\ Cardinality(players \ eliminated) >= 2
  BY <1>1, InPlayFacts
<1>3. /\ AdvanceTurn(eliminated, outOfRound)
      /\ UNCHANGED <<config, gameVars, trickVars, tableVars, outOfRound, trickPileForPick,
                     lastWiperId, pendingDuelPick>>
  BY DEF RecoverStuckTurn
<1>4. TableType' /\ TrickType'
  BY <1>2, <1>3 DEF TableType, TrickType, tableVars, trickVars, config
<1>5. TurnType' /\ phase' # "DEALING"
  BY <1>2, <1>3, NextIndexTyped DEF TurnType, AdvanceTurn, gameVars, config, Phases
<1>6. pendingDuelPick' \in players \union {None}
  BY <1>2, <1>3 DEF TypeOK
<1> QED  BY <1>1, <1>3, <1>4, <1>5, <1>6, SamePlayersKeepIInv DEF gameVars

\* applyMarketSwap, which no phase rules out: only the last wiper may, and there is
\* none before a trick was won.
LEMMA SwapKeepsIInv ==
  ASSUME IInv, NEW p \in players, Swap(p)
  PROVE  IInv'
<1>1. PICK i \in DOMAIN hand[p], v \in Values : MarketSwap(p, i, v)
  BY DEF Swap
<1>2. ConfigType /\ TableType /\ TrickType /\ TurnType /\ GameType
  BY DEF IInv, TypeOK
<1>3. hand[p] \in Seq(Values) /\ i \in 1..Len(hand[p]) /\ hand[p][i] \in Values
  <2>1. hand[p] \in Seq(Values)
    BY <1>2 DEF TableType
  <2>2. DOMAIN hand[p] = 1..Len(hand[p])
    BY <2>1, LenProperties
  <2> QED  BY <1>1, <2>1, <2>2, ElementOfSeq
<1>4. [hand[p] EXCEPT ![i] = v] \in Seq(Values)
  BY <1>1, <1>3, ExceptSeq
<1>5. hand' \in [players -> Seq(Values)]
  BY <1>1, <1>2, <1>4 DEF MarketSwap, TableType
<1>6. market' \in Cards
  <2>1. market[v] > 0 /\ market \in Cards
    BY <1>1, <1>2 DEF MarketSwap, TurnType
  <2>2. [market EXCEPT ![v] = @ - 1] \in Cards
    BY <2>1 DEF Cards
  <2>3. <<hand[p][i]>> \in Seq(Values)
    BY <1>3
  <2>4. Plus([market EXCEPT ![v] = @ - 1], <<hand[p][i]>>) \in Cards
    BY <2>2, <2>3, PlusType
  <2> QED  BY <1>1, <2>4 DEF MarketSwap
<1>7. UNCHANGED <<config, trickVars, phase, round, currentTurnIndex, tokensLeft,
                 eliminated, outOfRound, drawPile, discardPile, trickPileForPick,
                 pendingDraws, duelPlates, duelPassCount, copied, pendingDuelPick,
                 lastWiperId, lastRoundWinnerId, gameLoser>>
  BY <1>1 DEF MarketSwap
<1>8. TableType' /\ TrickType'
  BY <1>2, <1>5, <1>7 DEF TableType, TrickType, trickVars, config
<1>9. TurnType' /\ GameType' /\ ConfigType'
  BY <1>2, <1>6, <1>7 DEF TurnType, GameType, ConfigType, config
<1>10. AtLeastTwoInRound' /\ FreshBeforeDeal' /\ pendingDuelPick' \in players' \union {None}
  BY <1>7 DEF IInv, TypeOK, AtLeastTwoInRound, FreshBeforeDeal, InPlay, PlayersInRound,
              ActivePlayers, config
<1> QED  BY <1>8, <1>9, <1>10 DEF IInv, TypeOK

\* The cards of a leaver, put on the discard pile.
LEMMA GiveUpHandTyped ==
  ASSUME TableType, NEW p \in players
  PROVE  GiveUpHand(Table, p) \in Tables
<1>1. hand[p] \in Seq(Values) /\ discardPile \in Cards
  BY DEF TableType
<1>2. Plus(discardPile, hand[p]) \in Cards
  BY <1>1, PlusType
<1>3. CopyHand(Table, p) \in Tables
  BY <1>2, TableTyped DEF CopyHand, Table, Tables
<1>4. [CopyHand(Table, p) EXCEPT !.hand[p] = << >>] \in Tables
  BY <1>3, EmptySeq DEF Tables
<1> QED  BY <1>4 DEF GiveUpHand

\* removePlayerFromGame.
LEMMA RemoveKeepsIInv ==
  ASSUME IInv, NEW p \in players, RemovePlayerFromGame(p)
  PROVE  IInv'
<1> DEFINE t       == GiveUpHand(Table, p)
           elim    == eliminated \union {p}
           out     == outOfRound \union {p}
           tokens  == [tokensLeft EXCEPT ![p] = 0]
           active  == players \ elim
           inRound == active \ out
           gone    == /\ outOfRound' = out
                      /\ UNCHANGED <<trickVars, trickPileForPick>>
<1>1. InPlay
  BY DEF RemovePlayerFromGame
<1>2. /\ ConfigType /\ TableType /\ TrickType /\ TurnType /\ GameType /\ TypeOK
      /\ AtLeastTwoInRound /\ Table \in Tables
      /\ Cardinality(PlayersInRound) >= 2
      /\ eliminated \in SUBSET players
      /\ tokensLeft \in [players -> 0..InitialTokens]
  BY <1>1, InPlayFacts
<1>3. UNCHANGED config /\ UNCHANGED players /\ pendingDuelPick' \in players \union {None}
  BY <1>2 DEF RemovePlayerFromGame, TypeOK, config
<1>4. t \in Tables
  BY <1>2, GiveUpHandTyped
<1>5. elim \in SUBSET players /\ tokens \in [players -> 0..InitialTokens]
  BY <1>2, EngineAssumption
<1>6. gone => TrickType'
  BY <1>2, <1>3 DEF TrickType, trickVars
<1>7. inRound = PlayersInRound \ {p}
  BY DEF PlayersInRound, ActivePlayers
<1>8. /\ IsFiniteSet(inRound) /\ Cardinality(inRound) \in Nat /\ Cardinality(inRound) >= 1
      /\ (CHOOSE s \in inRound : TRUE) \in inRound
  <2>1. IsFiniteSet(PlayersInRound)
    BY <1>2, InRoundFinite
  <2> HIDE DEF inRound
  <2> QED  BY <1>2, <1>7, <2>1, OneLess, FS_CardinalityType
<1>9. Cardinality(active) \in Nat
  <2>1. active \in SUBSET players /\ IsFiniteSet(players)
    BY <1>2, Seats
  <2> HIDE DEF active
  <2> QED  BY <2>1, FS_Subset, FS_CardinalityType
<1>10. CASE Cardinality(active) <= 1 /\ GameOver(t, elim, tokens, p) /\ gone
  <2>1. TableType'
    <3> HIDE DEF t
    <3> QED  BY <1>3, <1>4, <1>10, SetTableTyped DEF GameOver
  <2>2. TurnType'
    BY <1>2, <1>3, <1>10 DEF GameOver, TurnType, Phases
  <2>3. GameType'
    BY <1>3, <1>5, <1>10 DEF GameOver, GameType
  <2>4. AtLeastTwoInRound' /\ phase' # "DEALING"
    BY <1>10 DEF GameOver, AtLeastTwoInRound, InPlay
  <2>5. Running'
    BY <1>6, <1>10, <2>1, <2>2, <2>3, <2>4 DEF Running
  <2> QED  BY <1>2, <1>3, <2>5, RunningIsEnough
<1>11. CASE /\ Cardinality(active) > 1 /\ RoundIsOver(inRound)
            /\ ResolveRoundEnd(t, elim, tokens, CHOOSE s \in inRound : TRUE, gone)
  <2>1. (CHOOSE s \in inRound : TRUE) \in players /\ Cardinality(players \ elim) >= 2
    BY <1>8, <1>9, <1>11
  <2> DEFINE loser == CHOOSE s \in inRound : TRUE
  <2>2. ResolveRoundEnd(t, elim, tokens, loser, gone) /\ loser \in players
        /\ Cardinality(players \ elim) >= 2
    BY <1>11, <2>1
  <2> HIDE DEF t, elim, tokens, loser, gone
  <2> QED  BY <1>2, <1>3, <1>4, <1>5, <1>6, <2>2, RoundEndTyped, RunningIsEnough
<1>12. CASE /\ ~RoundIsOver(inRound)
            /\ IF phase = "PLAYER_TURN" /\ CurrentPlayer = p
               THEN AdvanceTurn(elim, out)
               ELSE UNCHANGED <<phase, currentTurnIndex>>
            /\ eliminated' = elim
            /\ tokensLeft' = tokens
            /\ SetTable(t)
            /\ gone
            /\ UNCHANGED <<round, market, lastRoundWinnerId, gameLoser, lastWiperId>>
  <2>1. Cardinality(inRound) >= 2
    BY <1>8, <1>12 DEF RoundIsOver
  <2>2. Cardinality(active) >= 2
    <3>1. active \in SUBSET players /\ IsFiniteSet(players) /\ inRound \in SUBSET active
      BY <1>2, Seats
    <3>2. Cardinality(inRound) <= Cardinality(active)
      <4> HIDE DEF active, inRound
      <4> QED  BY <3>1, FS_Subset
    <3> QED  BY <1>8, <1>9, <2>1, <3>2
  <2>3. TableType'
    <3> HIDE DEF t
    <3> QED  BY <1>3, <1>4, <1>12, SetTableTyped
  <2>4. phase' \in Phases /\ phase' # "DEALING" /\ currentTurnIndex' \in Nat
    <3>1. CASE phase = "PLAYER_TURN" /\ CurrentPlayer = p
      <4>1. AdvanceTurn(elim, out)
        BY <1>12, <3>1
      <4> HIDE DEF elim, out
      <4>2. NextIndex(players \ elim, out) \in Nat
        BY <1>2, <1>5, <2>2, NextIndexTyped DEF elim
      <4> QED  BY <4>1, <4>2 DEF AdvanceTurn, Phases
    <3>2. CASE ~(phase = "PLAYER_TURN" /\ CurrentPlayer = p)
      <4>1. UNCHANGED <<phase, currentTurnIndex>>
        BY <1>12, <3>2
      <4> QED  BY <1>1, <1>2, <4>1 DEF TurnType, InPlay
    <3> QED  BY <3>1, <3>2
  <2>5. TurnType'
    BY <1>2, <1>3, <1>12, <2>4 DEF TurnType
  <2>6. GameType'
    BY <1>2, <1>3, <1>5, <1>12 DEF GameType
  <2>7. AtLeastTwoInRound'
    <3>1. PlayersInRound' = inRound
      BY <1>3, <1>12 DEF PlayersInRound, ActivePlayers
    <3> HIDE DEF inRound
    <3> QED  BY <2>1, <3>1 DEF AtLeastTwoInRound
  <2>8. Running'
    BY <1>6, <1>12, <2>3, <2>4, <2>5, <2>6, <2>7 DEF Running
  <2> QED  BY <1>2, <1>3, <2>8, RunningIsEnough
<1> QED  BY <1>10, <1>11, <1>12 DEF RemovePlayerFromGame

-------------------------------------------------------------------------------
(* The theorems. *)

\* The constructor and the players who are added to a game.
LEMMA InitIInv ==
  ASSUME Init
  PROVE  IInv
<1>1. ConfigType
  BY DEF Init, ConfigType
<1>2. TableType
  BY EmptySeq, NoCardsType DEF Init, TableType
<1>3. TrickType /\ TurnType
  BY EmptySeq, NoCardsType DEF Init, TrickType, TurnType, Phases
<1>4. GameType
  BY EngineAssumption DEF Init, GameType
<1> QED  BY <1>1, <1>2, <1>3, <1>4
         DEF Init, IInv, TypeOK, AtLeastTwoInRound, InPlay, FreshBeforeDeal

\* Every handler keeps the inductive invariant.
LEMMA NextKeepsIInv ==
  ASSUME IInv, [Next]_vars
  PROVE  IInv'
<1>1. CASE Start
  BY <1>1, StartKeepsIInv
<1>2. CASE RecoverStuckTurn
  BY <1>2, RecoverKeepsIInv
<1>3. ASSUME NEW p \in players, Move(p)
      PROVE  IInv'
  <2>1. CASE Play(p)
    BY <2>1, PlayKeepsIInv
  <2>2. CASE Pass(p)
    BY <2>2, PassKeepsIInv DEF Pass
  <2>3. CASE DrawCard(p)
    BY <2>3, DrawKeepsIInv
  <2>4. CASE DrawFromEmptyPile(p)
    <3>1. hand[p] \in Seq(Values)
      BY DEF IInv, TypeOK, TableType
    <3>2. Len(hand[p]) \in Nat
      BY <3>1, LenProperties
    <3>3. 0 \in Places(p)
      BY <3>2 DEF Places
    <3> QED  BY <2>4, <3>3, PassKeepsIInv DEF DrawFromEmptyPile
  <2>5. CASE DuelPass(p)
    BY <2>5, DuelPassKeepsIInv
  <2>6. CASE PickPlate(p)
    BY <2>6, PickPlateKeepsIInv
  <2>7. CASE Insert(p)
    BY <2>7, InsertKeepsIInv
  <2>8. CASE PickTrick(p)
    BY <2>8, PickTrickKeepsIInv
  <2> QED  BY <1>3, <2>1, <2>2, <2>3, <2>4, <2>5, <2>6, <2>7, <2>8 DEF Move
<1>4. ASSUME NEW p \in players, Swap(p) \/ LateInsertDrawn(p) \/ RemovePlayerFromGame(p)
      PROVE  IInv'
  BY <1>4, SwapKeepsIInv, LateInsertKeepsIInv, RemoveKeepsIInv
<1>5. CASE UNCHANGED vars
  BY <1>5 DEF vars, IInv, TypeOK, ConfigType, TableType, TrickType, TurnType, GameType,
              AtLeastTwoInRound, FreshBeforeDeal, InPlay, PlayersInRound, ActivePlayers
<1> QED  BY <1>1, <1>2, <1>3, <1>4, <1>5 DEF Next

\* The inductive invariant holds in every game, of any number of players, in any
\* mode, whoever leaves.
THEOREM Inductive == Spec => []IInv
<1>1. Init => IInv
  BY InitIInv
<1>2. IInv /\ [Next]_vars => IInv'
  BY NextKeepsIInv
<1> QED  BY <1>1, <1>2, PTL DEF Spec

\* The engine's fields keep their types: no count of cards goes negative, no seat
\* is looked up that does not exist.
THEOREM TypeInvariant == Spec => []TypeOK
<1>1. IInv => TypeOK
  BY DEF IInv
<1> QED  BY <1>1, Inductive, PTL

\* A round that goes on always has two players in it, in every mode and whoever
\* leaves: the [0] of applyPlayCards and removePlayerFromGame finds a loser, and
\* the branches for nobody left are dead.
THEOREM RoundNeverEmpties == Spec => []AtLeastTwoInRound
<1>1. IInv => AtLeastTwoInRound
  BY DEF IInv
<1> QED  BY <1>1, Inductive, PTL

-------------------------------------------------------------------------------
(***************************************************************************)
(* What a whole game keeps: GameEngine implements TokenGame, the loser of  *)
(* a round opens the next one, the turn is with somebody who can act, the  *)
(* sabor agrees with the pile and whoever is in the round has cards.       *)
(* The five share one inductive invariant, GameInv.                        *)
(***************************************************************************)
\* Whoever still plays has a token left: a round that is lost costs one.
PursesNotEmpty == phase # "GAME_OVER" => \A s \in ActivePlayers : tokensLeft[s] >= 1

\* A plate is chosen in a duel, by one of the two who are in it.
DuelPickInRound ==
  phase = "DUEL_PASS_PICK" => IsDuel /\ pendingDuelPick \in PlayersInRound

\* Nobody waits for a player who cannot act, until the first player abandons the game.
TurnHeld == eliminated = {} => TurnHolderCanAct

\* In RODIZIO the hands are passed on and not dealt, the empty ones too.
CardsHeld == mode # "RODIZIO" => InRoundHasCards

\* Rounds are counted from the deal.
DealtFirst == phase = "DEALING" => round = 0

GameInv ==
  /\ PursesNotEmpty /\ DealtFirst /\ DuelPickInRound
  /\ TurnHeld /\ SaborMirrorsPile /\ CardsHeld

\* A new round is opened by the loser of the last one.
Opens ==
  round > 0 /\ round' = round + 1
    => /\ tokensLeft[CurrentPlayer'] = tokensLeft'[CurrentPlayer'] + 1
       /\ CurrentPlayer' \in PlayersInRound'

\* What is proved of every handler.
Advances == [Abstract!Next]_(Abstract!vars) /\ GameInv' /\ Opens

-------------------------------------------------------------------------------
(* The endings the handlers share. *)

\* TokenGame counts as GameEngine does.
LEMMA SameCardinality ==
  ASSUME NEW S
  PROVE  Abstract!Cardinality(S) = Cardinality(S)
BY Zenon DEF Abstract!Cardinality, Cardinality

\* Those who go on are some of the seats.
LEMMA StillActive ==
  ASSUME ConfigType, NEW elim \in SUBSET players, Cardinality(players \ elim) >= 2
  PROVE  /\ players \ elim \in SUBSET Nat /\ IsFiniteSet(players \ elim)
         /\ players \ elim # {} /\ Cardinality(players \ elim) \in 2..6
<1> DEFINE active == players \ elim
<1>1. active \in SUBSET players /\ IsFiniteSet(players) /\ Cardinality(players) \in 2..6
      /\ players \in SUBSET Nat
  BY Seats
<1>2. IsFiniteSet(active) /\ Cardinality(active) <= Cardinality(players)
      /\ Cardinality(active) \in Nat
  <2> HIDE DEF active
  <2> QED  BY <1>1, FS_Subset, FS_CardinalityType
<1> QED  BY <1>1, <1>2, FS_EmptySet

\* startRound opens a round with the player it is told to, or with anyone.
LEMMA StartRoundOpens ==
  ASSUME ConfigType, UNCHANGED players, NEW t \in Tables,
         NEW elim \in SUBSET players, Cardinality(players \ elim) >= 2,
         NEW winner \in (players \ elim) \union {None},
         StartRound(t, elim, winner, None)
  PROVE  /\ SeatAt(players \ elim, currentTurnIndex') \in players \ elim
         /\ winner # None => SeatAt(players \ elim, currentTurnIndex') = winner
         /\ mode # "RODIZIO" => \A s \in players \ elim : hand'[s] # << >>
<1> DEFINE active == players \ elim
<1>1. active \in SUBSET Nat /\ IsFiniteSet(active) /\ active # {} /\ Cardinality(active) \in 2..6
  BY StillActive
<1>2. None \notin players
  BY Seats
<1>3. currentTurnIndex' \in StartingIndices(active, winner, None)
  BY DEF StartRound
<1>4. ASSUME winner # None
      PROVE  SeatAt(active, currentTurnIndex') \in active
             /\ SeatAt(active, currentTurnIndex') = winner
  <2>1. winner \in active /\ currentTurnIndex' = IndexOf(active, winner)
    BY <1>3, <1>4 DEF StartingIndices
  <2>2. IndexOf(active, winner) \in 0..(Cardinality(active) - 1)
    <3> HIDE DEF active
    <3> QED  BY <1>1, <2>1, IndexOfRange
  <2>3. IndexOf(active, winner) \in Nat
        /\ IndexOf(active, winner) = IndexOf(active, winner) % Cardinality(active)
    BY <1>1, <2>2
  <2>4. SeatAt(active, currentTurnIndex') = winner
    <3> HIDE DEF active
    <3> QED  BY <1>1, <2>1, <2>3, SeatOfPlace
  <2> QED  BY <2>1, <2>4
<1>5. ASSUME winner = None
      PROVE  SeatAt(active, currentTurnIndex') \in active
  <2>1. currentTurnIndex' \in Nat
    <3> HIDE DEF active
    <3> QED  BY <1>1, <1>3, <1>5 DEF StartingIndices
  <2>2. SeatAt(active, currentTurnIndex') \in active
    <3> HIDE DEF active
    <3> QED  BY <1>1, <2>1, SeatAtPlace
  <2> QED  BY <1>5, <2>2
<1>6. ASSUME mode # "RODIZIO", NEW s \in active
      PROVE  hand'[s] # << >>
  <2>1. PICK d \in Deals(t, active) :
         \E m \in IF mode = "MERCADO" THEN Splice(d.drawPile, MarketSize) ELSE {NoCards} :
           /\ market' = m
           /\ DealPlates(active, [d EXCEPT !.drawPile = Minus(d.drawPile, m)])
    BY <1>6 DEF StartRound
  <2>2. hand' = d.hand
    <3>1. PICK m : DealPlates(active, [d EXCEPT !.drawPile = Minus(d.drawPile, m)])
      BY <2>1
    <3>2. d \in Tables
      BY <1>1, <2>1, DealsTyped
    <3> QED  BY <3>1, <3>2 DEF DealPlates, SetTable, Tables
  <2> DEFINE size == HandSize[Cardinality(active)]
  <2>3. PICK h \in [active -> [1..size -> Values]] :
          d = [hand          |-> [r \in players |-> IF r \in active THEN h[r] ELSE t.hand[r]],
               drawPile      |-> [v \in Values |-> CopiesPerValue
                                   - SizeOf([r \in active |-> CountOf(h[r], v)])],
               discardPile   |-> NoCards,
               pendingDraws  |-> [r \in players |-> None],
               duelPlates    |-> [r \in players |-> NoCards],
               duelPassCount |-> [r \in players |-> 0],
               copied        |-> NoCards]
    BY <2>1 DEF Deals
  <2>4. hand'[s] = h[s] /\ h[s] \in [1..size -> Values]
    BY <1>6, <2>2, <2>3
  <2>5. size \in Nat \ {0}
    BY <1>1, EngineAssumption
  <2>6. h[s] # << >>
    <3> HIDE DEF size
    <3>1. 1 \in DOMAIN h[s]
      BY <2>4, <2>5
    <3>2. DOMAIN << >> = {}
      OBVIOUS
    <3> QED  BY <3>1, <3>2
  <2> QED  BY <2>4, <2>6
<1> QED  BY <1>4, <1>5, <1>6

\* resolveRoundEnd: somebody who was in the round loses it, as TokenGame has it, and
\* opens the next one unless the game is over.
LEMMA RoundEnds ==
  ASSUME IInv, InPlay, UNCHANGED config, NEW t \in Tables,
         NEW elim \in SUBSET players, Cardinality(players \ elim) >= 2,
         NEW tokens \in [players -> 0..InitialTokens],
         \A s \in players \ elim : tokens[s] = tokensLeft[s] /\ tokens[s] >= 1,
         NEW loser \in PlayersInRound \ elim,
         NEW ACTION rest,
         rest => SaborMirrorsPile' /\ outOfRound \subseteq outOfRound'
                                   /\ outOfRound' \subseteq players,
         ResolveRoundEnd(t, elim, tokens, loser, rest)
  PROVE  Abstract!LoseRound(loser, elim, tokens) /\ GameInv' /\ Opens
<1>1. ConfigType /\ round \in Nat /\ GameType
  BY DEF IInv, TypeOK, TurnType
<1>2. /\ loser \in players /\ loser \in players \ elim /\ loser # None
      /\ tokens[loser] \in 1..InitialTokens /\ tokensLeft[loser] = tokens[loser]
  <2>1. loser \in players /\ None \notin players
    BY <1>1, Seats DEF PlayersInRound, ActivePlayers
  <2> QED  BY <2>1, EngineAssumption
<1>3. PayToken(tokens, loser) = [tokens EXCEPT ![loser] = tokens[loser] - 1]
  <2>1. tokens[loser] > 0
    BY <1>2, EngineAssumption
  <2> QED  BY <2>1 DEF PayToken
<1>4. PayToken(tokens, loser)[loser] = tokens[loser] - 1
  BY <1>2, <1>3
<1>5. Stage = "round"
  BY DEF Stage, InPlay
<1>6. UNCHANGED players /\ UNCHANGED mode
  BY DEF config
<1>7. CASE tokens[loser] = 1
  <2>1. GameOver(t, elim \union {loser}, PayToken(tokens, loser), loser) /\ rest
    BY <1>4, <1>7 DEF ResolveRoundEnd
  <2>2. /\ phase' = "GAME_OVER" /\ gameLoser' = loser /\ eliminated' = elim \union {loser}
        /\ tokensLeft' = PayToken(tokens, loser) /\ round' = round
    BY <2>1 DEF GameOver
  <2>3. SaborMirrorsPile' /\ outOfRound \subseteq outOfRound' /\ outOfRound' \subseteq players
    BY <2>1
  <2>4. Stage' = "over"
    BY <2>2 DEF Stage
  <2>5. Abstract!LoseRound(loser, elim, tokens)
    BY <1>3, <1>6, <1>7, <2>2, <2>3, <2>4
       DEF Abstract!LoseRound, Abstract!InRound, Abstract!Playing, PlayersInRound, ActivePlayers
  <2>6. GameInv'
    <3>1. PursesNotEmpty' /\ DealtFirst' /\ DuelPickInRound' /\ CardsHeld'
      BY <2>2 DEF PursesNotEmpty, DealtFirst, DuelPickInRound, CardsHeld, InRoundHasCards, InPlay
    <3>2. TurnHeld'
      BY <2>2 DEF TurnHeld
    <3> QED  BY <2>3, <3>1, <3>2 DEF GameInv
  <2>7. Opens
    BY <1>1, <2>2 DEF Opens
  <2> QED  BY <2>5, <2>6, <2>7
<1>8. CASE tokens[loser] # 1
  <2> DEFINE active == players \ elim
             dealt  == IF mode = "RODIZIO"
                       THEN [t EXCEPT !.hand = RotateHands(t.hand, active)] ELSE t
  <2>1. /\ tokensLeft' = PayToken(tokens, loser)
        /\ eliminated' = elim
        /\ gameLoser' = gameLoser
        /\ StartRound(dealt, elim, loser, None)
    BY <1>2, <1>4, <1>8 DEF ResolveRoundEnd
  <2>2. dealt \in Tables
    <3>1. RotateHands(t.hand, active) \in [players -> Seq(Values)]
      BY <1>1, RotateHandsTyped DEF Tables
    <3> QED  BY <3>1 DEF Tables
  <2>3. /\ phase' = "PLAYER_TURN" /\ outOfRound' = elim /\ round' = round + 1
        /\ pile' = << >> /\ saborActive' = FALSE /\ saborMinRequired' = 0
    BY <2>1 DEF StartRound
  <2>4. /\ SeatAt(players \ elim, currentTurnIndex') = loser
        /\ mode # "RODIZIO" => \A s \in players \ elim : hand'[s] # << >>
    <3>1. loser \in (players \ elim) \union {None}
      BY <1>2
    <3> HIDE DEF dealt
    <3>2. StartRound(dealt, elim, loser, None)
      BY <2>1
    <3>3. /\ SeatAt(players \ elim, currentTurnIndex') \in players \ elim
          /\ loser # None => SeatAt(players \ elim, currentTurnIndex') = loser
          /\ mode # "RODIZIO" => \A s \in players \ elim : hand'[s] # << >>
      BY <1>1, <1>6, <2>2, <3>1, <3>2, StartRoundOpens
    <3> QED  BY <1>2, <3>3
  <2>5. ActivePlayers' = players \ elim /\ PlayersInRound' = players \ elim
    BY <1>6, <2>1, <2>3 DEF PlayersInRound, ActivePlayers
  <2>6. CurrentPlayer' = loser
    BY <2>4, <2>5 DEF CurrentPlayer
  <2>7. Stage' = "round"
    BY <2>3 DEF Stage
  <2>8. Abstract!LoseRound(loser, elim, tokens)
    BY <1>3, <1>5, <1>6, <1>8, <2>1, <2>3, <2>7
       DEF Abstract!LoseRound, Abstract!InRound, Abstract!Playing, PlayersInRound, ActivePlayers
  <2>9. PursesNotEmpty'
    <3> SUFFICES ASSUME NEW s \in players \ elim
                 PROVE  tokensLeft'[s] >= 1
      BY <2>5 DEF PursesNotEmpty
    <3>1. CASE s = loser
      BY <1>2, <1>3, <1>8, <2>1, <3>1
    <3>2. CASE s # loser
      BY <1>3, <2>1, <3>2
    <3> QED  BY <3>1, <3>2
  <2>10. DealtFirst' /\ DuelPickInRound' /\ CardsHeld'
    BY <1>6, <2>3, <2>4, <2>5 DEF DealtFirst, DuelPickInRound, CardsHeld, InRoundHasCards
  <2>11. TurnHeld'
    BY <1>2, <2>3, <2>5, <2>6 DEF TurnHeld, TurnHolderCanAct, CurrentInRound, PhaseOwner
  <2>12. SaborMirrorsPile'
    BY <2>3 DEF SaborMirrorsPile
  <2>13. Opens
    <3>1. tokensLeft'[loser] = tokens[loser] - 1
      BY <1>4, <2>1
    <3> QED  BY <1>2, <2>5, <2>6, <3>1 DEF Opens
  <2> QED  BY <2>8, <2>9, <2>10, <2>11, <2>12, <2>13 DEF GameInv
<1> QED  BY <1>7, <1>8

\* A handler that leaves the round going, with the same players in it: a stutter of
\* TokenGame.
LEMMA RoundGoesOn ==
  ASSUME IInv, InPlay, InPlay', GameInv, UNCHANGED config,
         UNCHANGED <<round, tokensLeft, eliminated, outOfRound, gameLoser>>
  PROVE  /\ [Abstract!Next]_(Abstract!vars) /\ Opens /\ PursesNotEmpty' /\ DealtFirst'
         /\ ActivePlayers' = ActivePlayers /\ PlayersInRound' = PlayersInRound
<1>1. round \in Nat
  BY DEF IInv, TypeOK, TurnType
<1>2. Opens
  BY <1>1 DEF Opens
<1>3. ActivePlayers' = ActivePlayers /\ PlayersInRound' = PlayersInRound
  BY DEF config, ActivePlayers, PlayersInRound
<1>4. PursesNotEmpty' /\ DealtFirst'
  BY <1>3 DEF GameInv, PursesNotEmpty, DealtFirst, InPlay
<1>5. Stage = "round" /\ Stage' = "round"
  BY DEF Stage, InPlay
<1>6. UNCHANGED Abstract!vars
  BY <1>5 DEF Abstract!vars, config
<1> QED  BY <1>2, <1>3, <1>4, <1>6

\* currentPlayer() of an engine that plays is one of the active players.
LEMMA CurrentIsActive ==
  ASSUME IInv, InPlay
  PROVE  CurrentPlayer \in ActivePlayers
<1>1. ConfigType /\ currentTurnIndex \in Nat /\ eliminated \in SUBSET players
      /\ Cardinality(players \ eliminated) >= 2
  BY InPlayFacts DEF TurnType
<1>2. /\ players \ eliminated \in SUBSET Nat /\ IsFiniteSet(players \ eliminated)
      /\ players \ eliminated # {}
  BY <1>1, StillActive
<1> QED  BY <1>1, <1>2, SeatAtPlace DEF CurrentPlayer, ActivePlayers

\* A round that goes on has somebody in it.
LEMMA SomeoneInRound ==
  ASSUME IInv, InPlay
  PROVE  PlayersInRound # {}
<1>1. Cardinality(PlayersInRound) >= 2
  BY InPlayFacts
<1> QED  BY <1>1, FS_EmptySet

\* advanceTurn gives the turn to a player in the round.
LEMMA AdvanceFinds ==
  ASSUME ConfigType, TurnType, NEW elim \in SUBSET players, NEW out,
         Cardinality(players \ elim) >= 2, (players \ elim) \ out # {},
         AdvanceTurn(elim, out)
  PROVE  /\ phase' = "PLAYER_TURN"
         /\ SeatAt(players \ elim, currentTurnIndex') \in (players \ elim) \ out
<1> DEFINE active == players \ elim
<1>1. active \in SUBSET Nat /\ IsFiniteSet(active) /\ active # {}
  BY StillActive
<1>2. currentTurnIndex \in Nat
  BY DEF TurnType
<1>3. active \ out # {} => SeatAt(active, NextIndex(active, out)) \in active \ out
  <2> HIDE DEF active
  <2> QED  BY <1>1, <1>2, NextIndexFinds
<1> QED  BY <1>3 DEF AdvanceTurn

\* resolveWipe gives the next trick to the wiper or to the next player in the round.
LEMMA WipeFinds ==
  ASSUME IInv, InPlay, UNCHANGED config, NEW t, NEW wiper \in players, ResolveWipe(t, wiper)
  PROVE  /\ phase' = "PLAYER_TURN" /\ ActivePlayers' = ActivePlayers
         /\ PlayersInRound' = PlayersInRound /\ CurrentPlayer' \in PlayersInRound
<1> DEFINE n    == Cardinality(ActivePlayers)
           from == IF wiper \in ActivePlayers THEN IndexOf(ActivePlayers, wiper) ELSE 0
           hops == {k \in 1..n : SeatAt(ActivePlayers, from + k) \notin outOfRound}
           hop  == CHOOSE k \in hops : \A j \in hops : k <= j
           starter == IF wiper \in PlayersInRound \/ hops = {} THEN wiper
                      ELSE SeatAt(ActivePlayers, from + hop)
<1>1. /\ ActivePlayers \in SUBSET Nat /\ IsFiniteSet(ActivePlayers)
      /\ ActivePlayers # {} /\ n \in 2..6
  <2>1. ConfigType /\ eliminated \in SUBSET players /\ Cardinality(players \ eliminated) >= 2
    BY InPlayFacts
  <2> QED  BY <2>1, StillActive DEF ActivePlayers
<1>2. ASSUME NEW s \in ActivePlayers
      PROVE  IndexOf(ActivePlayers, s) \in 0..(n - 1) /\ IndexOf(ActivePlayers, s) \in Nat
  <2>1. IndexOf(ActivePlayers, s) \in 0..(n - 1)
    BY <1>1, IndexOfRange
  <2> HIDE DEF n
  <2> QED  BY <1>1, <2>1
<1>3. from \in Nat
  BY <1>1, <1>2
<1>4. hops # {}
  <2>1. PICK s \in PlayersInRound : TRUE
    BY SomeoneInRound
  <2>2. s \in ActivePlayers /\ s \notin outOfRound
    BY <2>1 DEF PlayersInRound
  <2>3. PICK k \in 1..n : (from + k) % n = IndexOf(ActivePlayers, s)
    <3>1. IndexOf(ActivePlayers, s) \in 0..(n - 1)
      BY <1>2, <2>2
    <3> HIDE DEF from, n
    <3>2. n \in Nat \ {0}
      BY <1>1
    <3> QED  BY <1>3, <3>1, <3>2, StepsLead
  <2>4. SeatAt(ActivePlayers, from + k) = s
    <3>1. from + k \in Nat
      BY <1>1, <1>3, <2>3
    <3> HIDE DEF from
    <3> QED  BY <1>1, <2>2, <2>3, <3>1, SeatOfPlace
  <2> QED  BY <2>2, <2>3, <2>4
<1>5. starter \in PlayersInRound
  <2>1. CASE wiper \in PlayersInRound
    BY <2>1
  <2>2. CASE wiper \notin PlayersInRound
    <3>1. hops \in SUBSET Nat
      BY <1>1
    <3>2. hop \in hops
      <4> HIDE DEF hops
      <4> QED  BY <1>4, <3>1, LeastNat
    <3>3. from + hop \in Nat
      BY <1>3, <3>1, <3>2
    <3>4. SeatAt(ActivePlayers, from + hop) \in ActivePlayers
      BY <1>1, <3>3, SeatAtPlace
    <3>5. SeatAt(ActivePlayers, from + hop) \notin outOfRound
      BY <3>2
    <3> QED  BY <1>4, <2>2, <3>4, <3>5 DEF PlayersInRound
  <2> QED  BY <2>1, <2>2
<1>6. /\ phase' = "PLAYER_TURN"
      /\ currentTurnIndex' = IF starter \in ActivePlayers THEN IndexOf(ActivePlayers, starter)
                             ELSE 0
      /\ UNCHANGED outOfRound /\ UNCHANGED eliminated
  BY DEF ResolveWipe, gameVars
<1> HIDE DEF starter
<1>7. ActivePlayers' = ActivePlayers /\ PlayersInRound' = PlayersInRound
  BY <1>6 DEF ActivePlayers, PlayersInRound, config
<1>8. CurrentPlayer' = starter
  <2>1. starter \in ActivePlayers
    BY <1>5 DEF PlayersInRound
  <2>2. currentTurnIndex' = IndexOf(ActivePlayers, starter)
        /\ currentTurnIndex' \in 0..(n - 1)
    BY <1>2, <1>6, <2>1
  <2>3. currentTurnIndex' \in Nat /\ IndexOf(ActivePlayers, starter) = currentTurnIndex' % n
    BY <1>1, <2>2
  <2>4. SeatAt(ActivePlayers, currentTurnIndex') = starter
    BY <1>1, <2>1, <2>3, SeatOfPlace
  <2> QED  BY <1>7, <2>4 DEF CurrentPlayer
<1> QED  BY <1>5, <1>6, <1>7, <1>8

\* resolveWipe.
LEMMA WipeAdvances ==
  ASSUME IInv, InPlay, GameInv, UNCHANGED config, NEW t \in Tables, NEW wiper \in players,
         mode # "RODIZIO" => \A s \in PlayersInRound : t.hand[s] # << >>,
         ResolveWipe(t, wiper)
  PROVE  Advances
<1>1. /\ phase' = "PLAYER_TURN" /\ ActivePlayers' = ActivePlayers
      /\ PlayersInRound' = PlayersInRound /\ CurrentPlayer' \in PlayersInRound
  BY WipeFinds
<1>2. /\ pile' = << >> /\ saborActive' = FALSE /\ saborMinRequired' = 0
      /\ SetTable([t EXCEPT !.discardPile = Plus(@, pile)])
      /\ UNCHANGED outOfRound
      /\ UNCHANGED gameVars
  BY DEF ResolveWipe
<1>3. InPlay'
  BY <1>1 DEF InPlay, Phases
<1>4. /\ [Abstract!Next]_(Abstract!vars) /\ Opens /\ PursesNotEmpty' /\ DealtFirst'
  BY <1>2, <1>3, RoundGoesOn DEF gameVars
<1>5. TurnHeld' /\ DuelPickInRound'
  BY <1>1 DEF TurnHeld, TurnHolderCanAct, CurrentInRound, PhaseOwner, DuelPickInRound
<1>6. CardsHeld'
  <2>1. hand' = t.hand
    BY <1>2 DEF SetTable, Tables
  <2> QED  BY <1>1, <2>1 DEF CardsHeld, InRoundHasCards, config
<1>7. SaborMirrorsPile'
  BY <1>2 DEF SaborMirrorsPile
<1> QED  BY <1>4, <1>5, <1>6, <1>7 DEF Advances, GameInv

\* A round that ends while nobody leaves the game.
LEMMA RoundLost ==
  ASSUME IInv, InPlay, GameInv, UNCHANGED config, NEW t \in Tables,
         NEW loser \in PlayersInRound, NEW ACTION rest,
         rest => SaborMirrorsPile' /\ outOfRound \subseteq outOfRound'
                                   /\ outOfRound' \subseteq players,
         ResolveRoundEnd(t, eliminated, tokensLeft, loser, rest)
  PROVE  Advances
<1>1. /\ eliminated \in SUBSET players /\ Cardinality(players \ eliminated) >= 2
      /\ tokensLeft \in [players -> 0..InitialTokens]
  BY InPlayFacts
<1>2. \A s \in players \ eliminated : tokensLeft[s] = tokensLeft[s] /\ tokensLeft[s] >= 1
  BY DEF GameInv, PursesNotEmpty, InPlay, ActivePlayers
<1>3. loser \in PlayersInRound \ eliminated /\ loser \in players
  BY DEF PlayersInRound, ActivePlayers
<1>4. Abstract!LoseRound(loser, eliminated, tokensLeft) /\ GameInv' /\ Opens
  BY <1>1, <1>2, <1>3, RoundEnds
<1>5. Stage = "round"
  BY DEF Stage, InPlay
<1>6. Abstract!EndRound(loser)
  BY <1>4, <1>5 DEF Abstract!EndRound
<1>7. Abstract!Next
  BY <1>3, <1>6 DEF Abstract!Next
<1> QED  BY <1>4, <1>7 DEF Advances

\* The common end of a pass.
LEMMA AfterPassAdvances ==
  ASSUME IInv, InPlay, GameInv, UNCHANGED config, NEW t \in Tables, NEW p \in players,
         mode # "RODIZIO" => \A s \in PlayersInRound : t.hand[s] # << >>,
         AfterPass(t, p)
  PROVE  Advances
<1> DEFINE passes  == consecutivePasses + 1
           counted == /\ consecutivePasses' = passes
                      /\ UNCHANGED <<pile, saborVars, lastPlayerId, isFirstTurn,
                                     outOfRound, trickPileForPick>>
<1>1. /\ ConfigType /\ TurnType /\ TrickType /\ eliminated \in SUBSET players
      /\ Cardinality(players \ eliminated) >= 2 /\ Cardinality(PlayersInRound) >= 2
  BY InPlayFacts
<1>2. PlayersInRound # {}
  BY SomeoneInRound
<1>3. counted => SaborMirrorsPile' /\ outOfRound \subseteq outOfRound'
                                   /\ outOfRound' \subseteq players
  BY <1>1 DEF GameInv, SaborMirrorsPile, saborVars, TrickType
<1>4. CASE passes < Cardinality(PlayersInRound) - 1
  <2>1. /\ counted /\ AdvanceTurn(eliminated, outOfRound) /\ SetTable(t)
        /\ UNCHANGED lastWiperId /\ UNCHANGED gameVars
    BY <1>4 DEF AfterPass
  <2>2. /\ phase' = "PLAYER_TURN"
        /\ SeatAt(players \ eliminated, currentTurnIndex') \in (players \ eliminated) \ outOfRound
    BY <1>1, <1>2, <2>1, AdvanceFinds DEF PlayersInRound, ActivePlayers
  <2>3. InPlay'
    BY <2>2 DEF InPlay, Phases
  <2>4. /\ [Abstract!Next]_(Abstract!vars) /\ Opens /\ PursesNotEmpty' /\ DealtFirst'
        /\ ActivePlayers' = ActivePlayers /\ PlayersInRound' = PlayersInRound
    BY <2>1, <2>3, RoundGoesOn DEF gameVars
  <2>5. CurrentPlayer' \in PlayersInRound'
    BY <2>2, <2>4 DEF CurrentPlayer, ActivePlayers, PlayersInRound
  <2>6. TurnHeld' /\ DuelPickInRound'
    BY <2>2, <2>5 DEF TurnHeld, TurnHolderCanAct, CurrentInRound, PhaseOwner, DuelPickInRound
  <2>7. CardsHeld'
    <3>1. hand' = t.hand
      BY <2>1 DEF SetTable
    <3> QED  BY <2>4, <3>1 DEF CardsHeld, InRoundHasCards, config
  <2> QED  BY <1>3, <2>1, <2>4, <2>6, <2>7 DEF Advances, GameInv
<1>5. CASE ~(passes < Cardinality(PlayersInRound) - 1) /\ pile = << >>
  <2>1. ResolveRoundEnd(t, eliminated, tokensLeft, StalemateLoser(t.hand), counted)
    BY <1>5 DEF AfterPass
  <2>2. StalemateLoser(t.hand) \in PlayersInRound
    <3>1. t.hand \in [players -> Seq(Values)]
      BY DEF Tables
    <3> QED  BY <1>1, <1>2, <3>1, Seats, StalemateLoserExists
  <2> HIDE DEF counted
  <2> QED  BY <1>3, <2>1, <2>2, RoundLost
<1>6. CASE ~(passes < Cardinality(PlayersInRound) - 1) /\ pile # << >>
  <2>1. ResolveWipe(t, IF lastPlayerId = None THEN p ELSE lastPlayerId)
    BY <1>6 DEF AfterPass
  <2>2. (IF lastPlayerId = None THEN p ELSE lastPlayerId) \in players
    BY <1>1 DEF TrickType
  <2> QED  BY <2>1, <2>2, WipeAdvances
<1> QED  BY <1>4, <1>5, <1>6

\* A handler of which nothing is left to show but who has the turn and which cards.
LEMMA GoesOnAdvances ==
  ASSUME IInv, InPlay, InPlay', GameInv, UNCHANGED config,
         UNCHANGED <<round, tokensLeft, eliminated, outOfRound, gameLoser>>,
         TurnHeld', DuelPickInRound', SaborMirrorsPile', CardsHeld'
  PROVE  Advances
BY RoundGoesOn DEF Advances, GameInv

\* A handler that ends with advanceTurn.
LEMMA TurnMovesOn ==
  ASSUME IInv, InPlay, GameInv, UNCHANGED config,
         UNCHANGED <<round, tokensLeft, eliminated, outOfRound, gameLoser>>,
         AdvanceTurn(eliminated, outOfRound), SaborMirrorsPile',
         mode # "RODIZIO" => \A s \in PlayersInRound : hand'[s] # << >>
  PROVE  Advances
<1>1. /\ ConfigType /\ TurnType /\ eliminated \in SUBSET players
      /\ Cardinality(players \ eliminated) >= 2
  BY InPlayFacts
<1>2. (players \ eliminated) \ outOfRound # {}
  BY SomeoneInRound DEF PlayersInRound, ActivePlayers
<1>3. /\ phase' = "PLAYER_TURN"
      /\ SeatAt(players \ eliminated, currentTurnIndex') \in (players \ eliminated) \ outOfRound
  BY <1>1, <1>2, AdvanceFinds
<1>4. InPlay'
  BY <1>3 DEF InPlay, Phases
<1>5. ActivePlayers' = ActivePlayers /\ PlayersInRound' = PlayersInRound
  BY DEF config, ActivePlayers, PlayersInRound
<1>6. CurrentPlayer' \in PlayersInRound'
  BY <1>3, <1>5 DEF CurrentPlayer, ActivePlayers, PlayersInRound
<1>7. TurnHeld' /\ DuelPickInRound'
  BY <1>3, <1>6 DEF TurnHeld, TurnHolderCanAct, CurrentInRound, PhaseOwner, DuelPickInRound
<1>8. CardsHeld'
  BY <1>5 DEF CardsHeld, InRoundHasCards, config
<1> QED  BY <1>4, <1>7, <1>8, GoesOnAdvances

\* The sabor of a pile that stays.
LEMMA SaborStays ==
  ASSUME GameInv, UNCHANGED <<pile, saborVars>>
  PROVE  SaborMirrorsPile'
BY DEF GameInv, SaborMirrorsPile, saborVars

\* Whoever has the turn is in the round.
LEMMA TurnOfOneInRound ==
  ASSUME IInv, NEW p \in players, NEW ph \in {"PLAYER_TURN", "PASS_PICK", "TRICK_PICK"},
         HasTurn(p, ph)
  PROVE  InPlay /\ phase = ph /\ p = CurrentPlayer /\ p \in PlayersInRound
<1>1. InPlay
  BY DEF HasTurn, InPlay, Phases
<1> QED  BY <1>1, CurrentIsActive DEF HasTurn, PlayersInRound

\* A hand with cards has cards after more are put into it.
LEMMA InsertKeepsCards ==
  ASSUME NEW h \in Seq(Values), NEW cards \in Seq(Values), NEW i \in 0..Len(h), h # << >>
  PROVE  InsertAt(h, i, cards) # << >>
<1>1. Len(h) \in Nat \ {0} /\ Len(cards) \in Nat
  BY LenProperties, EmptySeq
<1>2. Len(InsertAt(h, i, cards)) = Len(h) + Len(cards)
  BY InsertAtType
<1>3. Len(InsertAt(h, i, cards)) # 0
  BY <1>1, <1>2
<1> QED  BY <1>3, EmptySeq

-------------------------------------------------------------------------------
(* The handlers. *)

\* The first deal.
LEMMA StartAdvances ==
  ASSUME IInv, GameInv, Start
  PROVE  Advances
<1>1. /\ phase = "DEALING" /\ round = 0 /\ eliminated = {} /\ outOfRound = {}
      /\ ConfigType /\ TableType
  BY DEF Start, GameInv, DealtFirst, IInv, FreshBeforeDeal, TypeOK
<1>2. /\ StartRound(Table, {}, None, None)
      /\ UNCHANGED <<config, tokensLeft, eliminated, gameLoser, pendingDuelPick>>
  BY DEF Start
<1>3. UNCHANGED players /\ UNCHANGED mode
  BY <1>2 DEF config
<1>4. Table \in Tables /\ Cardinality(players \ {}) >= 2
  BY <1>1, TableTyped, Seats
<1>5. /\ SeatAt(players \ {}, currentTurnIndex') \in players \ {}
      /\ None # None => SeatAt(players \ {}, currentTurnIndex') = None
      /\ mode # "RODIZIO" => \A s \in players \ {} : hand'[s] # << >>
  BY <1>1, <1>2, <1>3, <1>4, StartRoundOpens
<1>6. /\ phase' = "PLAYER_TURN" /\ outOfRound' = {}
      /\ pile' = << >> /\ saborActive' = FALSE /\ saborMinRequired' = 0
  BY <1>2 DEF StartRound
<1>7. ActivePlayers' = players \ {} /\ PlayersInRound' = players \ {}
      /\ ActivePlayers = players \ {}
  BY <1>1, <1>2, <1>3, <1>6 DEF ActivePlayers, PlayersInRound
<1>8. CurrentPlayer' \in PlayersInRound'
  BY <1>5, <1>7 DEF CurrentPlayer
<1>9. Abstract!Begin
  BY <1>1, <1>2, <1>3, <1>6 DEF Abstract!Begin, Stage
<1>10. Abstract!Next
  BY <1>9 DEF Abstract!Next
<1>11. PursesNotEmpty' /\ DealtFirst' /\ DuelPickInRound'
  BY <1>1, <1>2, <1>6, <1>7 DEF GameInv, PursesNotEmpty, DealtFirst, DuelPickInRound
<1>12. TurnHeld'
  BY <1>6, <1>8 DEF TurnHeld, TurnHolderCanAct, CurrentInRound, PhaseOwner
<1>13. CardsHeld' /\ SaborMirrorsPile'
  BY <1>3, <1>5, <1>6, <1>7 DEF CardsHeld, InRoundHasCards, SaborMirrorsPile
<1>14. Opens
  BY <1>1 DEF Opens
<1> QED  BY <1>10, <1>11, <1>12, <1>13, <1>14 DEF Advances, GameInv

\* recoverStuckTurn.
LEMMA RecoverAdvances ==
  ASSUME IInv, GameInv, RecoverStuckTurn
  PROVE  Advances
<1>1. InPlay
  BY DEF RecoverStuckTurn, InPlay, Phases
<1>2. /\ AdvanceTurn(eliminated, outOfRound)
      /\ UNCHANGED <<config, gameVars, trickVars, tableVars, outOfRound, trickPileForPick,
                     lastWiperId, pendingDuelPick>>
  BY DEF RecoverStuckTurn
<1>3. UNCHANGED <<hand, round, tokensLeft, eliminated, outOfRound, gameLoser, pile, saborVars>>
      /\ UNCHANGED config
  BY <1>2 DEF gameVars, trickVars, tableVars, saborVars
<1>4. mode # "RODIZIO" => \A s \in PlayersInRound : hand'[s] # << >>
  BY <1>1, <1>3 DEF GameInv, CardsHeld, InRoundHasCards
<1> QED  BY <1>1, <1>2, <1>3, <1>4, SaborStays, TurnMovesOn

\* A legal play keeps the sabor in step with the pile, so that nothing ever breaks it.
LEMMA PlayedSabor ==
  ASSUME SaborMirrorsPile, NEW played \in Seq(Values), isSameValue(played),
         beatsPlay(played, pile, saborActive, saborMinRequired),
         pile \in Seq(Values), saborActive \in BOOLEAN,
         pile' = played,
         IF isSabor(played)
         THEN saborActive' = TRUE /\ saborMinRequired' = Len(played)
         ELSE IF saborActive /\ ~isSameCategory(played)
         THEN saborActive' = FALSE /\ saborMinRequired' = 0
         ELSE UNCHANGED saborVars
  PROVE  SaborMirrorsPile'
<1>1. played # << >> /\ \A i \in DOMAIN played : played[i] = played[1]
  BY DEF isSameValue
<1>2. isSameCategory(played)
  BY <1>1 DEF isSameCategory
<1>3. Len(played) \in Nat \ {0} /\ Len(pile) \in Nat
  BY <1>1, LenProperties, EmptySeq
<1>4. CASE Len(played) >= 2
  <2>1. isSabor(played)
    BY <1>2, <1>4 DEF isSabor
  <2>2. saborActive' = TRUE /\ saborMinRequired' = Len(played)
    BY <2>1
  <2> QED  BY <1>4, <2>2 DEF SaborMirrorsPile
<1>5. CASE ~(Len(played) >= 2)
  <2>1. ~isSabor(played)
    BY <1>5 DEF isSabor
  <2>2. ~saborActive
    <3>1. ASSUME saborActive
          PROVE  FALSE
      <4>1. Len(pile) >= 2 /\ saborMinRequired = Len(pile)
        BY <3>1 DEF SaborMirrorsPile
      <4>2. Len(played) >= saborMinRequired
        BY <3>1 DEF beatsPlay
      <4> QED  BY <1>3, <1>5, <4>1, <4>2
    <3> QED  BY <3>1
  <2>3. saborActive' = saborActive /\ saborMinRequired' = saborMinRequired
    BY <2>1, <2>2 DEF saborVars
  <2>4. saborMinRequired = 0
    BY <2>2 DEF SaborMirrorsPile
  <2> QED  BY <1>5, <2>2, <2>3, <2>4 DEF SaborMirrorsPile
<1> QED  BY <1>4, <1>5

\* applyPlayCards.
LEMMA PlayAdvances ==
  ASSUME IInv, GameInv, NEW p \in players, Play(p)
  PROVE  Advances
<1>0. PICK indices \in Selections(p), plateCards \in PlateLists :
        \E taken \in PlatesOf(plateCards) : PlayCards(p, indices, plateCards, taken)
  BY DEF Play
<1>1. PICK taken \in PlatesOf(plateCards) : PlayCards(p, indices, plateCards, taken)
  BY <1>0
<1>2. InPlay /\ phase = "PLAYER_TURN" /\ p = CurrentPlayer /\ p \in PlayersInRound
  BY <1>1, TurnOfOneInRound DEF PlayCards
<1>3. /\ ConfigType /\ TableType /\ TrickType /\ TurnType /\ GameType
      /\ eliminated \in SUBSET players /\ Cardinality(players \ eliminated) >= 2
      /\ Cardinality(PlayersInRound) >= 2
      /\ Table \in Tables
  BY <1>2, InPlayFacts
<1> DEFINE played     == Selected(hand[p], indices) \o plateCards
           left       == Unselected(hand[p], indices)
           empties    == LeavesRound(left)
           t          == [Table EXCEPT
                            !.hand[p] = left,
                            !.duelPlates[p] = [v \in Values |-> @[v] - CountOf(taken, v)],
                            !.copied = [v \in Values |-> @[v] + CountOf(plateCards, v)
                                                             - CountOf(taken, v)],
                            !.discardPile = IF empties THEN Plus(@, pile) ELSE @]
           out        == IF empties THEN outOfRound \union {p} ELSE outOfRound
           remaining  == ActivePlayers \ out
           trick      == /\ pile' = played
                         /\ consecutivePasses' = 0
                         /\ lastPlayerId' = p
                         /\ isFirstTurn' = FALSE
                         /\ outOfRound' = out
                         /\ IF isSabor(played)
                            THEN saborActive' = TRUE /\ saborMinRequired' = Len(played)
                            ELSE IF saborActive /\ ~isSameCategory(played)
                            THEN saborActive' = FALSE /\ saborMinRequired' = 0
                            ELSE UNCHANGED saborVars
           goesOn     == /\ trick
                         /\ SetTable(t)
                         /\ UNCHANGED lastWiperId
                         /\ UNCHANGED gameVars
<1>4. played \in Seq(Values) /\ left \in Seq(Values) /\ t \in Tables
  <2>1. \A v \in Values : CountOf(taken, v) <= duelPlates[p][v]
    BY <1>1 DEF PlayCards
  <2>2. pile \in Seq(Values)
    BY <1>3 DEF TrickType
  <2> QED  BY <1>1, <1>3, <2>1, <2>2, PlayedTableTyped
<1>7. UNCHANGED config /\ UNCHANGED players /\ UNCHANGED mode /\ UNCHANGED pendingDuelPick
  BY <1>1 DEF PlayCards, config
<1>8. isSameValue(played) /\ beatsPlay(played, pile, saborActive, saborMinRequired)
  BY <1>1 DEF PlayCards, validatePlayIndices
<1>9. trick => SaborMirrorsPile'
  <2>1. ASSUME trick
        PROVE  SaborMirrorsPile'
    <3>1. pile' = played
      BY <2>1
    <3>2. IF isSabor(played)
          THEN saborActive' = TRUE /\ saborMinRequired' = Len(played)
          ELSE IF saborActive /\ ~isSameCategory(played)
          THEN saborActive' = FALSE /\ saborMinRequired' = 0
          ELSE UNCHANGED saborVars
      BY <2>1
    <3>3. SaborMirrorsPile /\ pile \in Seq(Values) /\ saborActive \in BOOLEAN
      BY <1>3 DEF GameInv, TrickType
    <3> HIDE DEF played
    <3> QED  BY <1>4, <1>8, <3>1, <3>2, <3>3, PlayedSabor
  <2> QED  BY <2>1
<1>10. empties => remaining = PlayersInRound \ {p}
  BY DEF PlayersInRound
<1>11. ASSUME NEW s \in PlayersInRound, mode # "RODIZIO", s # p \/ ~empties
       PROVE  t.hand[s] # << >>
  <2>1. hand[s] # << >>
    BY <1>2, <1>11 DEF GameInv, CardsHeld, InRoundHasCards
  <2>2. t.hand = [hand EXCEPT ![p] = left]
    BY DEF Table
  <2>3. s \in players /\ hand \in [players -> Seq(Values)]
    BY <1>3 DEF PlayersInRound, ActivePlayers, TableType
  <2>4. CASE s = p
    BY <1>11, <2>2, <2>3, <2>4 DEF LeavesRound
  <2>5. CASE s # p
    BY <2>1, <2>2, <2>3, <2>5
  <2> QED  BY <2>4, <2>5
<1>12. CASE /\ empties
            /\ RoundIsOver(remaining)
            /\ ResolveRoundEnd(t, eliminated, tokensLeft, CHOOSE s \in remaining : TRUE,
                               trick /\ UNCHANGED trickPileForPick)
  <2> DEFINE loser == CHOOSE s \in remaining : TRUE
             rest  == trick /\ UNCHANGED trickPileForPick
  <2>1. loser \in PlayersInRound \ {p}
    BY <1>3, <1>10, <1>12, InRoundFinite, OneLess
  <2>2. rest => SaborMirrorsPile' /\ outOfRound \subseteq outOfRound'
                                  /\ outOfRound' \subseteq players
    BY <1>3, <1>9 DEF TrickType
  <2>3. ResolveRoundEnd(t, eliminated, tokensLeft, loser, rest)
    BY <1>12
  <2> HIDE DEF t, loser, rest
  <2> QED  BY <1>2, <1>4, <1>7, <2>1, <2>2, <2>3, RoundLost
<1>13. CASE /\ empties
            /\ ~RoundIsOver(remaining)
            /\ AdvanceTurn(eliminated, out)
            /\ goesOn /\ UNCHANGED trickPileForPick
  <2>1. trick /\ hand' = t.hand /\ UNCHANGED gameVars
    BY <1>13 DEF SetTable
  <2>2. outOfRound' = outOfRound \union {p} /\ out = outOfRound \union {p}
    BY <1>13, <2>1
  <2>3. /\ IsFiniteSet(remaining) /\ Cardinality(remaining) \in Nat
        /\ Cardinality(remaining) >= 2 /\ remaining # {}
    <3>1. IsFiniteSet(remaining) /\ Cardinality(remaining) \in Nat
      BY <1>3, <1>10, <1>13, InRoundFinite, OneLess, FS_CardinalityType
    <3>2. Cardinality(remaining) >= 2
      BY <1>13, <3>1 DEF RoundIsOver
    <3> HIDE DEF remaining
    <3> QED  BY <3>1, <3>2, FS_EmptySet
  <2>4. ActivePlayers' = ActivePlayers /\ PlayersInRound' = remaining
    BY <1>7, <2>1, <2>2 DEF ActivePlayers, PlayersInRound, gameVars
  <2>5. /\ phase' = "PLAYER_TURN"
        /\ SeatAt(players \ eliminated, currentTurnIndex') \in (players \ eliminated) \ out
    <3>1. (players \ eliminated) \ out # {} /\ AdvanceTurn(eliminated, out)
      BY <1>13, <2>3 DEF ActivePlayers
    <3> HIDE DEF out
    <3> QED  BY <1>3, <3>1, AdvanceFinds
  <2>6. CurrentPlayer' \in PlayersInRound'
    BY <2>4, <2>5 DEF CurrentPlayer, ActivePlayers
  <2>7. Stage = "round" /\ Stage' = "round"
    BY <1>2, <2>5 DEF Stage
  <2>8. Abstract!Escape(p)
    <3>1. PlayersInRound = (players \ eliminated) \ outOfRound
      BY DEF PlayersInRound, ActivePlayers
    <3>2. Cardinality(((players \ eliminated) \ outOfRound) \ {p}) >= 2
      BY <1>10, <1>13, <2>3, <3>1
    <3>3. p \in (players \ eliminated) \ outOfRound
      BY <1>2, <3>1
    <3>4. /\ UNCHANGED players /\ UNCHANGED tokensLeft
          /\ UNCHANGED eliminated /\ UNCHANGED gameLoser
      BY <1>7, <2>1 DEF gameVars
    <3>5. outOfRound' = outOfRound \union {p}
      BY <2>2
    <3>6. Abstract!InRound = (players \ eliminated) \ outOfRound
      BY DEF Abstract!InRound, Abstract!Playing
    <3>7. p \in Abstract!InRound
      BY <3>3, <3>6
    <3>8. Abstract!Cardinality(Abstract!InRound \ {p}) >= 2
      BY <3>2, <3>6, SameCardinality
    <3>9. UNCHANGED <<players, Stage, tokensLeft, eliminated, gameLoser>>
      BY <2>7, <3>4
    <3> QED  BY <2>7, <3>5, <3>7, <3>8, <3>9 DEF Abstract!Escape
  <2>9. Abstract!Next
    BY <2>8 DEF Abstract!Next
  <2>10. PursesNotEmpty' /\ DealtFirst' /\ DuelPickInRound'
    BY <1>2, <2>1, <2>4, <2>5
       DEF GameInv, PursesNotEmpty, DealtFirst, DuelPickInRound, gameVars
  <2>11. TurnHeld'
    BY <2>5, <2>6 DEF TurnHeld, TurnHolderCanAct, CurrentInRound, PhaseOwner
  <2>12. CardsHeld'
    BY <1>7, <1>10, <1>11, <1>13, <2>1, <2>4 DEF CardsHeld, InRoundHasCards
  <2>13. Opens
    BY <1>3, <2>1 DEF Opens, TurnType, gameVars
  <2> QED  BY <1>9, <2>1, <2>9, <2>10, <2>11, <2>12, <2>13 DEF Advances, GameInv
<1>14. CASE /\ ~empties /\ pile # << >>
            /\ phase' = "TRICK_PICK"
            /\ trickPileForPick' = pile
            /\ goesOn /\ UNCHANGED currentTurnIndex
  <2>1. trick /\ hand' = t.hand /\ UNCHANGED gameVars
    BY <1>14 DEF SetTable
  <2>2. outOfRound' = outOfRound /\ lastPlayerId' = p
    BY <1>14, <2>1
  <2>3. ActivePlayers' = ActivePlayers /\ PlayersInRound' = PlayersInRound
    BY <1>7, <2>1, <2>2 DEF ActivePlayers, PlayersInRound, gameVars
  <2>4. CurrentPlayer' = p
    BY <1>2, <1>14, <2>3 DEF CurrentPlayer
  <2>5. InPlay'
    BY <1>14 DEF InPlay, Phases
  <2>6. TurnHeld' /\ DuelPickInRound'
    BY <1>2, <1>14, <2>2, <2>3, <2>4
       DEF TurnHeld, TurnHolderCanAct, CurrentInRound, PhaseOwner, DuelPickInRound
  <2>7. CardsHeld'
    BY <1>7, <1>11, <1>14, <2>1, <2>3 DEF CardsHeld, InRoundHasCards
  <2>8. UNCHANGED <<round, tokensLeft, eliminated, outOfRound, gameLoser>>
    BY <2>1, <2>2 DEF gameVars
  <2> QED  BY <1>2, <1>7, <1>9, <2>1, <2>5, <2>6, <2>7, <2>8, GoesOnAdvances
<1>15. CASE /\ ~empties /\ pile = << >>
            /\ AdvanceTurn(eliminated, out)
            /\ goesOn /\ UNCHANGED trickPileForPick
  <2>1. trick /\ hand' = t.hand /\ UNCHANGED gameVars
    BY <1>15 DEF SetTable
  <2>2. outOfRound' = outOfRound /\ AdvanceTurn(eliminated, outOfRound)
    BY <1>15, <2>1
  <2>3. UNCHANGED <<round, tokensLeft, eliminated, outOfRound, gameLoser>>
    BY <2>1, <2>2 DEF gameVars
  <2>4. mode # "RODIZIO" => \A s \in PlayersInRound : hand'[s] # << >>
    BY <1>11, <1>15, <2>1
  <2> QED  BY <1>2, <1>7, <1>9, <2>1, <2>2, <2>3, <2>4, TurnMovesOn
<1> QED  BY <1>1, <1>12, <1>13, <1>14, <1>15 DEF PlayCards

\* applyPassTurn.
LEMMA PassAdvances ==
  ASSUME IInv, GameInv, NEW p \in players, NEW i \in Places(p), PassTurn(p, i)
  PROVE  Advances
<1>1. InPlay /\ p \in PlayersInRound
  BY TurnOfOneInRound DEF PassTurn
<1>2. TableType /\ Table \in Tables
  BY <1>1, InPlayFacts
<1>3. UNCHANGED config
  BY DEF PassTurn, config
<1> DEFINE t == [Table EXCEPT !.pendingDraws[p] = None]
<1>4. t \in Tables /\ t.hand = hand /\ t.drawPile = drawPile
  BY <1>2 DEF Tables, Table
<1>5. mode # "RODIZIO" => \A s \in PlayersInRound : hand[s] # << >>
  BY <1>1 DEF GameInv, CardsHeld, InRoundHasCards
<1>6. CASE IsEmptyBag(drawPile)
  <2>1. AfterPass(t, p)
    BY <1>6 DEF PassTurn
  <2> HIDE DEF t
  <2> QED  BY <1>1, <1>3, <1>4, <1>5, <2>1, AfterPassAdvances
<1>7. CASE ~IsEmptyBag(drawPile)
  <2>1. PICK c \in Values :
          /\ drawPile[c] > 0
          /\ AfterPass([t EXCEPT !.drawPile[c] = @ - 1,
                                 !.hand[p] = InsertAt(@, i, <<c>>)], p)
    BY <1>7 DEF PassTurn
  <2> DEFINE u == [t EXCEPT !.drawPile[c] = @ - 1, !.hand[p] = InsertAt(@, i, <<c>>)]
  <2>2. [drawPile EXCEPT ![c] = @ - 1] \in Cards
    BY <1>2, <2>1 DEF TableType, Cards
  <2>3. hand[p] \in Seq(Values) /\ <<c>> \in Seq(Values) /\ i \in 0..Len(hand[p])
    BY <1>2 DEF TableType, Places
  <2>4. InsertAt(hand[p], i, <<c>>) \in Seq(Values)
    BY <2>3, InsertAtType
  <2> DEFINE after == [hand EXCEPT ![p] = InsertAt(hand[p], i, <<c>>)]
  <2>5. after \in [players -> Seq(Values)]
    BY <1>2, <2>4 DEF TableType
  <2>6. u = [t EXCEPT !.drawPile = [drawPile EXCEPT ![c] = @ - 1], !.hand = after]
    BY DEF Table
  <2>7. u \in Tables /\ u.hand = after
    <3> HIDE DEF t, u, after
    <3> QED  BY <1>4, <2>2, <2>5, <2>6 DEF Tables
  <2>8. mode # "RODIZIO" => \A s \in PlayersInRound : after[s] # << >>
    <3> SUFFICES ASSUME mode # "RODIZIO", NEW s \in PlayersInRound
                 PROVE  after[s] # << >>
      OBVIOUS
    <3>1. hand[s] # << >> /\ s \in players /\ hand \in [players -> Seq(Values)]
      BY <1>2, <1>5 DEF PlayersInRound, ActivePlayers, TableType
    <3>2. CASE s = p
      BY <2>3, <3>1, <3>2, InsertKeepsCards
    <3>3. CASE s # p
      BY <3>1, <3>3
    <3> QED  BY <3>2, <3>3
  <2>9. AfterPass(u, p)
    BY <2>1
  <2> HIDE DEF u, after
  <2> QED  BY <1>1, <1>3, <2>7, <2>8, <2>9, AfterPassAdvances
<1> QED  BY <1>6, <1>7

\* applyDrawCard outside a duel.
LEMMA DrawAdvances ==
  ASSUME IInv, GameInv, NEW p \in players, DrawCard(p)
  PROVE  Advances
<1>1. InPlay /\ p = CurrentPlayer /\ p \in PlayersInRound
  BY TurnOfOneInRound DEF DrawCard
<1>2. PICK c \in Values : pendingDraws' = [pendingDraws EXCEPT ![p] = c]
  BY DEF DrawCard
<1>3. /\ phase' = "PASS_PICK"
      /\ UNCHANGED <<config, gameVars, trickVars, currentTurnIndex, outOfRound, hand>>
  BY DEF DrawCard
<1>4. InPlay'
  BY <1>3 DEF InPlay, Phases
<1>5. UNCHANGED <<round, tokensLeft, eliminated, outOfRound, gameLoser, pile, saborVars>>
      /\ UNCHANGED config /\ UNCHANGED players /\ UNCHANGED mode
  BY <1>3 DEF gameVars, trickVars, saborVars, config
<1>6. CurrentPlayer' = p /\ PlayersInRound' = PlayersInRound
  BY <1>1, <1>3, <1>5 DEF CurrentPlayer, PlayersInRound, ActivePlayers
<1>7. pendingDraws'[p] # None
  <2>1. pendingDraws \in [players -> Values \union {None}]
    BY DEF IInv, TypeOK, TableType
  <2> QED  BY <1>2, <2>1, ValuesAreNat DEF None
<1>8. TurnHeld' /\ DuelPickInRound'
  BY <1>1, <1>3, <1>6, <1>7
     DEF TurnHeld, TurnHolderCanAct, CurrentInRound, PhaseOwner, DuelPickInRound
<1>9. CardsHeld'
  BY <1>1, <1>3, <1>5, <1>6 DEF GameInv, CardsHeld, InRoundHasCards
<1> QED  BY <1>1, <1>4, <1>5, <1>8, <1>9, SaborStays, GoesOnAdvances

\* applyDrawCard in a duel: whoever has no plate left loses the round.
LEMMA DuelPassAdvances ==
  ASSUME IInv, GameInv, NEW p \in players, DuelPass(p)
  PROVE  Advances
<1>1. InPlay /\ p = CurrentPlayer /\ p \in PlayersInRound
  BY TurnOfOneInRound DEF DuelPass
<1>2. TrickType /\ Table \in Tables
  BY <1>1, InPlayFacts
<1> DEFINE rest == UNCHANGED <<trickVars, outOfRound, trickPileForPick>>
<1>3. CASE IsEmptyBag(duelPlates[p])
  <2>1. ResolveRoundEnd(Table, eliminated, tokensLeft, p, rest) /\ UNCHANGED config
    BY <1>3 DEF DuelPass, config
  <2>2. rest => SaborMirrorsPile' /\ outOfRound \subseteq outOfRound'
                                  /\ outOfRound' \subseteq players
    BY <1>2, SaborStays DEF TrickType, trickVars, saborVars
  <2> HIDE DEF rest
  <2> QED  BY <1>1, <1>2, <2>1, <2>2, RoundLost
<1>4. CASE ~IsEmptyBag(duelPlates[p])
  <2>1. /\ phase' = "DUEL_PASS_PICK" /\ pendingDuelPick' = p /\ IsDuel
        /\ UNCHANGED <<config, gameVars, trickVars, tableVars, currentTurnIndex, outOfRound>>
    BY <1>4 DEF DuelPass
  <2>2. InPlay'
    BY <2>1 DEF InPlay, Phases
  <2>3. UNCHANGED <<round, tokensLeft, eliminated, outOfRound, gameLoser, pile, saborVars>>
        /\ UNCHANGED config /\ UNCHANGED players /\ UNCHANGED mode
        /\ hand' = hand /\ duelPlates' = duelPlates
    BY <2>1 DEF gameVars, trickVars, saborVars, tableVars, config
  <2>4. /\ CurrentPlayer' = p /\ PlayersInRound' = PlayersInRound
        /\ ActivePlayers' = ActivePlayers
    BY <1>1, <2>1, <2>3 DEF CurrentPlayer, PlayersInRound, ActivePlayers
  <2>5. ~IsEmptyBag(duelPlates'[p])
    BY <1>4, <2>3
  <2>6. TurnHeld'
    BY <1>1, <2>1, <2>4, <2>5
       DEF TurnHeld, TurnHolderCanAct, CurrentInRound, PhaseOwner, IsEmptyBag
  <2>7. DuelPickInRound'
    BY <1>1, <2>1, <2>4 DEF DuelPickInRound, IsDuel
  <2>8. CardsHeld'
    BY <1>1, <2>3, <2>4 DEF GameInv, CardsHeld, InRoundHasCards
  <2> QED  BY <1>1, <2>2, <2>3, <2>6, <2>7, <2>8, SaborStays, GoesOnAdvances
<1> QED  BY <1>3, <1>4

\* The player's choice for a card leaves nobody without cards who had some.
LEMMA PutCardsKeepsCards ==
  ASSUME NEW t \in Tables, NEW p \in players, NEW i \in 0..Len(t.hand[p]),
         NEW cards \in Seq(Values), NEW action, NEW s \in players, t.hand[s] # << >>
  PROVE  PutCards(t, p, action, i, cards).hand[s] # << >>
<1>1. t.hand \in [players -> Seq(Values)]
  BY DEF Tables
<1>2. CASE action = "insert"
  <2>1. PutCards(t, p, action, i, cards).hand
          = [t.hand EXCEPT ![p] = InsertAt(t.hand[p], i, cards)]
    BY <1>2 DEF PutCards, Tables
  <2>2. s = p => InsertAt(t.hand[p], i, cards) # << >>
    BY <1>1, InsertKeepsCards
  <2> QED  BY <1>1, <2>1, <2>2
<1>3. CASE action # "insert"
  BY <1>3 DEF PutCards, Tables
<1> QED  BY <1>2, <1>3

\* The first place of a hand is one of its places.
LEMMA FirstPlace ==
  ASSUME TableType, NEW p \in players
  PROVE  0 \in Places(p)
<1>1. hand[p] \in Seq(Values)
  BY DEF TableType
<1>2. Len(hand[p]) \in Nat
  BY <1>1, LenProperties
<1> QED  BY <1>2 DEF Places

\* applyDuelPassPick: the third duel pass loses the round, to one who was in it.
LEMMA PickPlateAdvances ==
  ASSUME IInv, GameInv, NEW p \in players, PickPlate(p)
  PROVE  Advances
<1>1. TableType
  BY DEF IInv, TypeOK
<1>2. PICK v \in Values, action \in {"insert", "discard"}, i \in Places(p) :
        DuelPassPick(p, v, action, i)
  <2>1. PICK v \in Values : \/ \E i \in Places(p) : DuelPassPick(p, v, "insert", i)
                            \/ DuelPassPick(p, v, "discard", 0)
    BY DEF PickPlate
  <2>2. 0 \in Places(p)
    BY <1>1, FirstPlace
  <2> QED  BY <2>1, <2>2
<1> DEFINE same  == UNCHANGED <<trickVars, outOfRound, trickPileForPick>>
           taken == TakePlate(Table, p, v)
           t     == PutCards(taken, p, action, i, <<v>>)
<1>3. /\ phase = "DUEL_PASS_PICK" /\ pendingDuelPick = p /\ duelPlates[p][v] > 0
      /\ IF t.duelPassCount[p] >= DuelPassLimit
         THEN ResolveRoundEnd(t, eliminated, tokensLeft, p, same)
         ELSE /\ AdvanceTurn(eliminated, outOfRound)
              /\ SetTable(t)
              /\ same
              /\ UNCHANGED lastWiperId
              /\ UNCHANGED gameVars
      /\ UNCHANGED config
  BY <1>2 DEF DuelPassPick
<1>4. InPlay /\ p \in PlayersInRound
  BY <1>3 DEF InPlay, Phases, GameInv, DuelPickInRound
<1>5. TrickType
  BY <1>4, InPlayFacts
<1>6. taken \in Tables /\ taken.hand = hand
  BY <1>1, <1>3, TakePlateTyped
<1>7. i \in 0..Len(taken.hand[p]) /\ <<v>> \in Seq(Values)
  BY <1>2, <1>6 DEF Places
<1>8. t \in Tables
  <2> HIDE DEF taken
  <2> QED  BY <1>6, <1>7, PutCardsTyped
<1>9. mode # "RODIZIO" => \A s \in PlayersInRound : t.hand[s] # << >>
  <2> SUFFICES ASSUME mode # "RODIZIO", NEW s \in PlayersInRound
               PROVE  t.hand[s] # << >>
    OBVIOUS
  <2>1. taken.hand[s] # << >> /\ s \in players
    BY <1>4, <1>6 DEF GameInv, CardsHeld, InRoundHasCards, PlayersInRound, ActivePlayers
  <2> HIDE DEF taken
  <2> QED  BY <1>6, <1>7, <2>1, PutCardsKeepsCards
<1>10. same => SaborMirrorsPile' /\ outOfRound \subseteq outOfRound'
                                 /\ outOfRound' \subseteq players
  BY <1>5, SaborStays DEF TrickType, trickVars, saborVars
<1>11. CASE t.duelPassCount[p] >= DuelPassLimit
  <2>1. ResolveRoundEnd(t, eliminated, tokensLeft, p, same) /\ UNCHANGED config
    BY <1>3, <1>11
  <2> HIDE DEF t, same
  <2> QED  BY <1>4, <1>8, <1>10, <2>1, RoundLost
<1>12. CASE ~(t.duelPassCount[p] >= DuelPassLimit)
  <2>1. /\ AdvanceTurn(eliminated, outOfRound) /\ SetTable(t) /\ same
        /\ UNCHANGED gameVars /\ UNCHANGED config
    BY <1>3, <1>12
  <2>2. UNCHANGED <<round, tokensLeft, eliminated, outOfRound, gameLoser>> /\ hand' = t.hand
    BY <2>1 DEF gameVars, SetTable
  <2>3. SaborMirrorsPile'
    BY <1>10, <2>1
  <2>4. mode # "RODIZIO" => \A s \in PlayersInRound : hand'[s] # << >>
    BY <1>9, <2>2
  <2> HIDE DEF t, same
  <2> QED  BY <1>4, <2>1, <2>2, <2>3, <2>4, TurnMovesOn
<1> QED  BY <1>11, <1>12

\* applyInsertDrawn.
LEMMA InsertAdvances ==
  ASSUME IInv, GameInv, NEW p \in players, Insert(p)
  PROVE  Advances
<1>1. TableType
  BY DEF IInv, TypeOK
<1>2. PICK action \in {"insert", "discard"}, i \in Places(p) : InsertDrawn(p, action, i)
  BY <1>1, FirstPlace DEF Insert
<1>3. InPlay /\ p \in PlayersInRound
  BY <1>2, TurnOfOneInRound DEF InsertDrawn
<1> DEFINE drawn == IF pendingDraws[p] = None THEN << >> ELSE <<pendingDraws[p]>>
           b == [Table EXCEPT !.pendingDraws[p] = None]
           t == PutCards(b, p, action, i, drawn)
<1>4. AfterPass(t, p) /\ UNCHANGED config
  BY <1>2 DEF InsertDrawn, config
<1>5. drawn \in Seq(Values)
  <2>1. pendingDraws[p] \in Values \union {None}
    BY <1>1 DEF TableType
  <2> QED  BY <2>1, EmptySeq
<1>6. b \in Tables /\ b.hand = hand
  BY <1>1, TableTyped DEF Tables, Table
<1>7. i \in 0..Len(b.hand[p])
  BY <1>2, <1>6 DEF Places
<1>8. t \in Tables
  <2> HIDE DEF drawn, b
  <2> QED  BY <1>5, <1>6, <1>7, PutCardsTyped
<1>9. mode # "RODIZIO" => \A s \in PlayersInRound : t.hand[s] # << >>
  <2> SUFFICES ASSUME mode # "RODIZIO", NEW s \in PlayersInRound
               PROVE  t.hand[s] # << >>
    OBVIOUS
  <2>1. b.hand[s] # << >> /\ s \in players
    BY <1>3, <1>6 DEF GameInv, CardsHeld, InRoundHasCards, PlayersInRound, ActivePlayers
  <2> HIDE DEF b, drawn
  <2> QED  BY <1>5, <1>6, <1>7, <2>1, PutCardsKeepsCards
<1> HIDE DEF t
<1> QED  BY <1>3, <1>4, <1>8, <1>9, AfterPassAdvances

\* applyTrickPick.
LEMMA PickTrickAdvances ==
  ASSUME IInv, GameInv, NEW p \in players, PickTrick(p)
  PROVE  Advances
<1>1. TableType /\ TrickType
  BY DEF IInv, TypeOK
<1>2. PICK action \in {"take", "discard"}, i \in Places(p) : TrickPick(p, action, i)
  BY <1>1, FirstPlace DEF PickTrick
<1>3. InPlay /\ p \in PlayersInRound
  BY <1>2, TurnOfOneInRound DEF TrickPick
<1>4. /\ hand' = [hand EXCEPT ![p] = InsertAt(@, i, trickPileForPick)] \/ hand' = hand
      /\ AdvanceTurn(eliminated, outOfRound)
      /\ UNCHANGED <<config, gameVars, trickVars, outOfRound>>
  BY <1>2 DEF TrickPick
<1>5. UNCHANGED <<round, tokensLeft, eliminated, outOfRound, gameLoser, pile, saborVars>>
      /\ UNCHANGED config
  BY <1>4 DEF gameVars, trickVars, saborVars
<1>6. mode # "RODIZIO" => \A s \in PlayersInRound : hand'[s] # << >>
  <2> SUFFICES ASSUME mode # "RODIZIO", NEW s \in PlayersInRound
               PROVE  hand'[s] # << >>
    OBVIOUS
  <2>1. hand[s] # << >> /\ s \in players /\ hand \in [players -> Seq(Values)]
    BY <1>1, <1>3
       DEF GameInv, CardsHeld, InRoundHasCards, PlayersInRound, ActivePlayers, TableType
  <2>2. s = p => InsertAt(hand[p], i, trickPileForPick) # << >>
    <3>1. hand[p] \in Seq(Values) /\ i \in 0..Len(hand[p]) /\ trickPileForPick \in Seq(Values)
      BY <1>1, <1>2, <2>1 DEF Places, TrickType
    <3> QED  BY <2>1, <3>1, InsertKeepsCards
  <2> QED  BY <1>4, <2>1, <2>2
<1> QED  BY <1>3, <1>4, <1>5, <1>6, SaborStays, TurnMovesOn

\* applyInsertDrawn outside its phase: no choice is waiting that the card belongs to.
LEMMA LateInsertAdvances ==
  ASSUME IInv, GameInv, NEW p \in players, LateInsertDrawn(p)
  PROVE  Advances
<1>1. InPlay /\ phase # "PASS_PICK"
  BY DEF LateInsertDrawn
<1>2. UNCHANGED <<config, gameVars, trickVars, phase, currentTurnIndex, outOfRound, hand,
                  duelPlates, trickPileForPick, pendingDuelPick>>
  BY DEF LateInsertDrawn
<1>3. /\ UNCHANGED <<round, tokensLeft, eliminated, outOfRound, gameLoser, pile, saborVars>>
      /\ UNCHANGED config /\ UNCHANGED mode /\ UNCHANGED phase /\ UNCHANGED hand
      /\ UNCHANGED lastPlayerId /\ UNCHANGED duelPlates
      /\ UNCHANGED <<trickPileForPick, pendingDuelPick>>
  BY <1>2 DEF gameVars, trickVars, saborVars, config
<1>4. /\ InPlay' /\ ActivePlayers' = ActivePlayers /\ PlayersInRound' = PlayersInRound
      /\ CurrentPlayer' = CurrentPlayer
  BY <1>1, <1>2, <1>3 DEF InPlay, ActivePlayers, PlayersInRound, CurrentPlayer, config
<1>5. TurnHeld'
  BY <1>1, <1>3, <1>4 DEF GameInv, TurnHeld, TurnHolderCanAct, CurrentInRound, PhaseOwner,
                          IsEmptyBag
<1>6. DuelPickInRound'
  BY <1>3, <1>4 DEF GameInv, DuelPickInRound, IsDuel
<1>7. CardsHeld'
  BY <1>1, <1>3, <1>4 DEF GameInv, CardsHeld, InRoundHasCards
<1> QED  BY <1>1, <1>3, <1>4, <1>5, <1>6, <1>7, SaborStays, GoesOnAdvances

\* applyMarketSwap, at any moment of a game: a card for a card.
LEMMA SwapAdvances ==
  ASSUME IInv, GameInv, NEW p \in players, Swap(p)
  PROVE  Advances
<1>1. PICK i \in DOMAIN hand[p], v \in Values : MarketSwap(p, i, v)
  BY DEF Swap
<1>2. TableType /\ round \in Nat
  BY DEF IInv, TypeOK, TurnType
<1>3. /\ hand' = [hand EXCEPT ![p] = [hand[p] EXCEPT ![i] = v]]
      /\ UNCHANGED <<config, trickVars, phase, round, currentTurnIndex, tokensLeft,
                     eliminated, outOfRound, trickPileForPick, pendingDraws, duelPlates,
                     pendingDuelPick, gameLoser>>
  BY <1>1 DEF MarketSwap
<1>4. /\ UNCHANGED <<mode, players, pile, saborActive, saborMinRequired, lastPlayerId>>
      /\ UNCHANGED phase /\ UNCHANGED round /\ UNCHANGED tokensLeft
      /\ UNCHANGED <<trickPileForPick, pendingDraws, duelPlates, pendingDuelPick>>
  BY <1>3 DEF config, trickVars
<1>5. /\ InPlay' <=> InPlay
      /\ ActivePlayers' = ActivePlayers /\ PlayersInRound' = PlayersInRound
      /\ CurrentPlayer' = CurrentPlayer
  BY <1>3, <1>4 DEF InPlay, ActivePlayers, PlayersInRound, CurrentPlayer
<1>6. UNCHANGED Abstract!vars
  BY <1>3, <1>4 DEF Abstract!vars, Stage
<1>7. Opens
  BY <1>2, <1>4 DEF Opens
<1>8. PursesNotEmpty' /\ DealtFirst' /\ DuelPickInRound' /\ SaborMirrorsPile'
  BY <1>4, <1>5 DEF GameInv, PursesNotEmpty, DealtFirst, DuelPickInRound, IsDuel,
                    SaborMirrorsPile
<1>9. TurnHeld'
  BY <1>3, <1>4, <1>5
     DEF GameInv, TurnHeld, TurnHolderCanAct, CurrentInRound, PhaseOwner, IsEmptyBag
<1>10. CardsHeld'
  <2> SUFFICES ASSUME mode # "RODIZIO", InPlay, NEW s \in PlayersInRound
               PROVE  hand'[s] # << >>
    BY <1>4, <1>5 DEF CardsHeld, InRoundHasCards
  <2>1. hand[s] # << >> /\ s \in players /\ hand \in [players -> Seq(Values)]
    BY <1>2 DEF GameInv, CardsHeld, InRoundHasCards, PlayersInRound, ActivePlayers, TableType
  <2>2. CASE s = p
    <3>1. i \in DOMAIN hand'[s]
      BY <1>1, <1>3, <2>1, <2>2
    <3>2. DOMAIN << >> = {}
      OBVIOUS
    <3> QED  BY <3>1, <3>2
  <2>3. CASE s # p
    BY <1>3, <2>1, <2>3
  <2> QED  BY <2>2, <2>3
<1> QED  BY <1>6, <1>7, <1>8, <1>9, <1>10 DEF Advances, GameInv

\* removePlayerFromGame.
LEMMA RemoveAdvances ==
  ASSUME IInv, GameInv, NEW p \in players, RemovePlayerFromGame(p)
  PROVE  Advances
<1> DEFINE t       == GiveUpHand(Table, p)
           elim    == eliminated \union {p}
           out     == outOfRound \union {p}
           tokens  == [tokensLeft EXCEPT ![p] = 0]
           active  == players \ elim
           inRound == active \ out
           gone    == /\ outOfRound' = out
                      /\ UNCHANGED <<trickVars, trickPileForPick>>
<1>1. InPlay /\ p \notin eliminated
  BY DEF RemovePlayerFromGame
<1>2. /\ ConfigType /\ TableType /\ TrickType /\ TurnType
      /\ Cardinality(PlayersInRound) >= 2
      /\ eliminated \in SUBSET players
      /\ tokensLeft \in [players -> 0..InitialTokens]
  BY <1>1, InPlayFacts
<1>3. UNCHANGED config /\ UNCHANGED players /\ UNCHANGED mode
  BY DEF RemovePlayerFromGame, config
<1>4. t \in Tables /\ \A s \in players \ {p} : t.hand[s] = hand[s]
  <2>1. t \in Tables
    BY <1>2, GiveUpHandTyped
  <2>2. t.hand = [hand EXCEPT ![p] = << >>]
    BY DEF GiveUpHand, CopyHand, Table
  <2> QED  BY <1>2, <2>1, <2>2 DEF TableType
<1>5. elim \in SUBSET players /\ tokens \in [players -> 0..InitialTokens]
  BY <1>2, EngineAssumption
<1>6. \A s \in active : tokens[s] = tokensLeft[s] /\ tokens[s] >= 1
  BY <1>1, <1>2 DEF GameInv, PursesNotEmpty, InPlay, ActivePlayers
<1>7. gone => SaborMirrorsPile' /\ outOfRound \subseteq outOfRound' /\ outOfRound' \subseteq players
  BY <1>2, SaborStays DEF TrickType, trickVars, saborVars
<1>8. inRound = PlayersInRound \ {p}
  BY DEF PlayersInRound, ActivePlayers
<1>9. /\ IsFiniteSet(inRound) /\ Cardinality(inRound) \in Nat /\ Cardinality(inRound) >= 1
      /\ (CHOOSE s \in inRound : TRUE) \in inRound
  <2>1. IsFiniteSet(PlayersInRound)
    BY <1>2, InRoundFinite
  <2> HIDE DEF inRound
  <2> QED  BY <1>2, <1>8, <2>1, OneLess, FS_CardinalityType
<1>10. /\ active \in SUBSET players /\ IsFiniteSet(active) /\ Cardinality(active) \in Nat
       /\ Cardinality(inRound) <= Cardinality(active)
  <2>1. active \in SUBSET players /\ IsFiniteSet(players) /\ inRound \in SUBSET active
    BY <1>2, Seats
  <2> HIDE DEF active, inRound
  <2> QED  BY <2>1, FS_Subset, FS_CardinalityType
<1>11. Stage = "round"
  BY <1>1 DEF Stage, InPlay
<1>12. active = (players \ eliminated) \ {p} /\ p \in players \ eliminated
  BY <1>1
<1>13. Abstract!Playing = players \ eliminated /\ Abstract!InRound = PlayersInRound
  BY DEF Abstract!Playing, Abstract!InRound, PlayersInRound, ActivePlayers
<1>14. CASE Cardinality(active) <= 1 /\ GameOver(t, elim, tokens, p) /\ gone
  <2>1. /\ phase' = "GAME_OVER" /\ gameLoser' = p /\ eliminated' = elim
        /\ tokensLeft' = tokens /\ round' = round /\ outOfRound' = out
    BY <1>14 DEF GameOver
  <2>2. Stage' = "over"
    BY <2>1 DEF Stage
  <2>3. Abstract!Cardinality(Abstract!Playing \ {p}) <= 1
    BY <1>12, <1>13, <1>14, SameCardinality
  <2>4. Abstract!Abandon(p)
    BY <1>3, <1>11, <1>12, <1>13, <2>1, <2>2, <2>3 DEF Abstract!Abandon
  <2>5. Abstract!Next
    BY <2>4 DEF Abstract!Next
  <2>6. PursesNotEmpty' /\ DealtFirst' /\ DuelPickInRound' /\ TurnHeld' /\ CardsHeld'
    BY <2>1 DEF PursesNotEmpty, DealtFirst, DuelPickInRound, TurnHeld, CardsHeld,
                InRoundHasCards, InPlay
  <2>7. Opens
    BY <1>2, <2>1 DEF Opens, TurnType
  <2> QED  BY <1>7, <1>14, <2>5, <2>6, <2>7 DEF Advances, GameInv
<1>15. CASE /\ Cardinality(active) > 1 /\ RoundIsOver(inRound)
            /\ ResolveRoundEnd(t, elim, tokens, CHOOSE s \in inRound : TRUE, gone)
  <2> DEFINE loser == CHOOSE s \in inRound : TRUE
  <2>1. Cardinality(inRound) = 1 /\ Cardinality(active) >= 2
    BY <1>9, <1>10, <1>15 DEF RoundIsOver
  <2>2. loser \in PlayersInRound \ elim /\ loser \in PlayersInRound \ {p}
    BY <1>8, <1>9
  <2>3. Cardinality(players \ elim) >= 2
        /\ \A s \in players \ elim : tokens[s] = tokensLeft[s] /\ tokens[s] >= 1
    BY <1>6, <2>1
  <2>4. ResolveRoundEnd(t, elim, tokens, loser, gone)
    BY <1>15
  <2>5. Abstract!LoseRound(loser, elim, tokens) /\ GameInv' /\ Opens
    <3> HIDE DEF t, elim, tokens, loser, gone
    <3> QED  BY <1>1, <1>3, <1>4, <1>5, <1>7, <2>2, <2>3, <2>4, RoundEnds
  <2>6. /\ Abstract!Cardinality(Abstract!Playing \ {p}) > 1
        /\ Abstract!Cardinality(Abstract!InRound \ {p}) = 1
    BY <1>8, <1>12, <1>13, <1>15, <2>1, SameCardinality
  <2>7. Abstract!Abandon(p)
    <3> HIDE DEF loser
    <3> QED  BY <1>11, <1>12, <1>13, <2>2, <2>5, <2>6 DEF Abstract!Abandon
  <2>8. Abstract!Next
    BY <2>7 DEF Abstract!Next
  <2> QED  BY <2>5, <2>8 DEF Advances
<1>16. CASE /\ ~RoundIsOver(inRound)
            /\ IF phase = "PLAYER_TURN" /\ CurrentPlayer = p
               THEN AdvanceTurn(elim, out)
               ELSE UNCHANGED <<phase, currentTurnIndex>>
            /\ eliminated' = elim
            /\ tokensLeft' = tokens
            /\ SetTable(t)
            /\ gone
            /\ UNCHANGED <<round, market, lastRoundWinnerId, gameLoser, lastWiperId>>
  <2>1. Cardinality(inRound) >= 2 /\ Cardinality(active) >= 2
    BY <1>9, <1>10, <1>16 DEF RoundIsOver
  <2>2. phase' = phase \/ phase' = "PLAYER_TURN"
    BY <1>16 DEF AdvanceTurn
  <2>3. phase # "DUEL_PASS_PICK"
    <3>1. ASSUME phase = "DUEL_PASS_PICK"
          PROVE  FALSE
      <4>1. Cardinality(players \ eliminated) = 2
        BY <3>1 DEF GameInv, DuelPickInRound, IsDuel, ActivePlayers
      <4>2. IsFiniteSet(players \ eliminated)
        BY <1>2, InRoundFinite DEF ActivePlayers
      <4>3. Cardinality((players \ eliminated) \ {p}) = 1
        <5>1. p \in players \ eliminated
          BY <1>12
        <5>2. Cardinality((players \ eliminated) \ {p}) = Cardinality(players \ eliminated) - 1
          BY <4>2, <5>1, FS_RemoveElement
        <5> QED  BY <4>1, <5>2
      <4> QED  BY <1>12, <2>1, <4>3
    <3> QED  BY <3>1
  <2>4. Stage' = "round" /\ InPlay' /\ phase' # "DUEL_PASS_PICK" /\ phase' # "DEALING"
    BY <1>1, <2>2, <2>3 DEF Stage, InPlay, Phases
  <2>5. /\ outOfRound' = out /\ eliminated' = elim /\ tokensLeft' = tokens
        /\ round' = round /\ gameLoser' = gameLoser /\ hand' = t.hand
    BY <1>16 DEF SetTable
  <2>6. ActivePlayers' = active /\ PlayersInRound' = inRound
    BY <1>3, <2>5 DEF ActivePlayers, PlayersInRound
  <2>7. Abstract!Cardinality(Abstract!InRound \ {p}) > 1
    <3>1. Cardinality(inRound) > 1
      BY <1>9, <2>1
    <3> QED  BY <1>8, <1>13, <3>1, SameCardinality
  <2>8. Abstract!Abandon(p)
    BY <1>3, <1>11, <1>12, <1>13, <2>4, <2>5, <2>7 DEF Abstract!Abandon
  <2>9. Abstract!Next
    BY <2>8 DEF Abstract!Next
  <2>10. PursesNotEmpty' /\ DealtFirst' /\ DuelPickInRound' /\ TurnHeld'
    BY <1>6, <2>4, <2>5, <2>6 DEF PursesNotEmpty, DealtFirst, DuelPickInRound, TurnHeld
  <2>11. CardsHeld'
    <3> SUFFICES ASSUME mode # "RODIZIO", NEW s \in inRound
                 PROVE  hand'[s] # << >>
      BY <1>3, <2>6 DEF CardsHeld, InRoundHasCards
    <3>1. s \in PlayersInRound /\ s \in players \ {p}
      BY <1>8 DEF PlayersInRound, ActivePlayers
    <3>2. hand[s] # << >>
      BY <1>1, <3>1 DEF GameInv, CardsHeld, InRoundHasCards
    <3> QED  BY <1>4, <2>5, <3>1, <3>2
  <2>12. Opens
    BY <1>2, <2>5 DEF Opens, TurnType
  <2> QED  BY <1>7, <1>16, <2>9, <2>10, <2>11, <2>12 DEF Advances, GameInv
<1> QED  BY <1>14, <1>15, <1>16 DEF RemovePlayerFromGame

-------------------------------------------------------------------------------
(* The theorems. *)

\* Every step of the engine.
LEMMA NextAdvances ==
  ASSUME IInv, GameInv, Next
  PROVE  Advances
<1>1. CASE Start
  BY <1>1, StartAdvances
<1>2. CASE RecoverStuckTurn
  BY <1>2, RecoverAdvances
<1>3. ASSUME NEW p \in players, Move(p)
      PROVE  Advances
  <2>1. CASE Play(p)
    BY <2>1, PlayAdvances
  <2>2. CASE Pass(p)
    BY <2>2, PassAdvances DEF Pass
  <2>3. CASE DrawCard(p)
    BY <2>3, DrawAdvances
  <2>4. CASE DrawFromEmptyPile(p)
    <3>1. 0 \in Places(p)
      BY FirstPlace DEF IInv, TypeOK
    <3> QED  BY <2>4, <3>1, PassAdvances DEF DrawFromEmptyPile
  <2>5. CASE DuelPass(p)
    BY <2>5, DuelPassAdvances
  <2>6. CASE PickPlate(p)
    BY <2>6, PickPlateAdvances
  <2>7. CASE Insert(p)
    BY <2>7, InsertAdvances
  <2>8. CASE PickTrick(p)
    BY <2>8, PickTrickAdvances
  <2> QED  BY <1>3, <2>1, <2>2, <2>3, <2>4, <2>5, <2>6, <2>7, <2>8 DEF Move
<1>4. ASSUME NEW p \in players, Swap(p) \/ LateInsertDrawn(p) \/ RemovePlayerFromGame(p)
      PROVE  Advances
  BY <1>4, SwapAdvances, LateInsertAdvances, RemoveAdvances
<1> QED  BY <1>1, <1>2, <1>3, <1>4 DEF Next

\* A new game has lost nothing yet.
LEMMA InitGameInv ==
  ASSUME Init
  PROVE  GameInv /\ Abstract!Init
<1>1. ActivePlayers \in SUBSET players
  BY DEF ActivePlayers
<1>2. PursesNotEmpty
  BY <1>1, EngineAssumption DEF Init, PursesNotEmpty
<1>3. DealtFirst /\ DuelPickInRound /\ CardsHeld
  BY DEF Init, DealtFirst, DuelPickInRound, CardsHeld, InRoundHasCards, InPlay
<1>4. TurnHeld
  BY DEF Init, TurnHeld, TurnHolderCanAct, CurrentInRound, PhaseOwner, InPlay
<1>5. SaborMirrorsPile
  BY DEF Init, SaborMirrorsPile
<1>6. Abstract!Init
  BY DEF Init, Abstract!Init, Stage, None
<1> QED  BY <1>2, <1>3, <1>4, <1>5, <1>6 DEF GameInv

\* GameInv is kept by every step, and so is what the steps promise.
LEMMA StepAdvances ==
  ASSUME IInv, GameInv, [Next]_vars
  PROVE  GameInv' /\ [Abstract!Next]_(Abstract!vars) /\ (Opens \/ UNCHANGED vars)
<1>1. CASE Next
  BY <1>1, NextAdvances DEF Advances
<1>2. CASE UNCHANGED vars
  <2>1. GameInv'
    BY <1>2 DEF vars, GameInv, PursesNotEmpty, DealtFirst, DuelPickInRound, TurnHeld,
                TurnHolderCanAct, CurrentInRound, PhaseOwner, SaborMirrorsPile, CardsHeld,
                InRoundHasCards, InPlay, IsDuel, CurrentPlayer, PlayersInRound,
                ActivePlayers, IsEmptyBag
  <2>2. UNCHANGED Abstract!vars
    BY <1>2 DEF vars, Abstract!vars, Stage
  <2> QED  BY <1>2, <2>1, <2>2
<1> QED  BY <1>1, <1>2

\* The inductive invariant of a whole game.
THEOREM GameInductive == Spec => [](IInv /\ GameInv)
<1>1. Init => IInv /\ GameInv
  BY InitIInv, InitGameInv
<1>2. IInv /\ GameInv /\ [Next]_vars => IInv' /\ GameInv'
  BY NextKeepsIInv, StepAdvances
<1> QED  BY <1>1, <1>2, PTL DEF Spec

\* The engine implements TokenGame, for every number of players, mode, deck and hand,
\* and whoever leaves: a round costs exactly one token, to one who was in it; nobody
\* plays without tokens; a game has one loser, and never changes once it is over.
THEOREM EngineImplementsTokenGame == Spec => ImplementsTokenGame
<1>1. Init => Abstract!Init
  BY InitGameInv
<1>2. IInv /\ GameInv /\ [Next]_vars => [Abstract!Next]_(Abstract!vars)
  BY StepAdvances
<1> QED  BY <1>1, <1>2, GameInductive, PTL DEF Spec, ImplementsTokenGame, Abstract!Spec

\* resolveRoundEnd and startRound agree on who opens a round, in every mode, also when
\* it was a departure that ended the last one.
THEOREM LoserOpens == Spec => LoserOpensNextRound
<1>1. IInv /\ GameInv /\ [Next]_vars
        => [round > 0 /\ round' = round + 1
              => /\ tokensLeft[CurrentPlayer'] = tokensLeft'[CurrentPlayer'] + 1
                 /\ CurrentPlayer' \in PlayersInRound']_vars
  BY StepAdvances DEF Opens
<1> QED  BY <1>1, GameInductive, PTL DEF Spec, LoserOpensNextRound

\* Until the first player abandons the game, the engine never waits for somebody who
\* cannot act.  (After that it may: currentTurnIndex counts the active players, and
\* their list has shrunk.)
THEOREM TurnIsWithOneWhoCan == Spec => [](eliminated = {} => TurnHolderCanAct)
<1>1. GameInv => (eliminated = {} => TurnHolderCanAct)
  BY DEF GameInv, TurnHeld
<1> QED  BY <1>1, GameInductive, PTL

\* Wherever the cards are dealt anew for every round, whoever is in the round has some,
\* whoever leaves: leaving the round and the last card of the hand are one step.
THEOREM WhoPlaysHasCards == Spec => [](mode # "RODIZIO" => InRoundHasCards)
<1>1. GameInv => (mode # "RODIZIO" => InRoundHasCards)
  BY DEF GameInv, CardsHeld
<1> QED  BY <1>1, GameInductive, PTL

\* The two sabor fields say what the pile says, in every game: the event
\* game:sabor_broken is never sent.
THEOREM SaborIsThePile == Spec => []SaborMirrorsPile
<1>1. GameInv => SaborMirrorsPile
  BY DEF GameInv
<1> QED  BY <1>1, GameInductive, PTL

-------------------------------------------------------------------------------
(***************************************************************************)
(* What the gateway sees: every handler of the engine has one of the        *)
(* outcomes that RoomTurns lets notifications.gateway.ts act upon.          *)
(***************************************************************************)

\* While a game goes on nobody has lost it.
NoLoserYet == phase # "GAME_OVER" => gameLoser = None

\* What GatewaySeesEngine asks of one step.
Seen ==
  InPlay /\ phase' # "GAME_OVER"
    /\ ~UNCHANGED <<phase, round, currentTurnIndex, outOfRound, eliminated>>
    => IF Leavers = {} THEN After(MoveKind) \in Gateway!MoveOutcomes(CurrentPlayer)
       ELSE \A p \in Leavers :
              /\ After(LeaveKind(p)) \in Gateway!LeaveOutcomes(p)
              /\ LeaveKind(p) = "silent" => Choosing' = Choosing

\* RoomTurns counts as GameEngine does.
LEMMA GatewayCounts ==
  ASSUME NEW S
  PROVE  Gateway!Cardinality(S) = Cardinality(S)
BY Zenon DEF Gateway!Cardinality, Cardinality

\* A move after which the round goes on, with those who were in it or without the mover.
LEMMA TurnIsSeen ==
  ASSUME UNCHANGED round, UNCHANGED eliminated, phase' = "PLAYER_TURN",
         Cardinality(PlayersInRound') >= 2, CurrentPlayer' \in PlayersInRound',
         Cardinality(PlayersInRound') \in Nat,
         \/ PlayersInRound' = PlayersInRound
         \/ ~Choosing /\ PlayersInRound' = PlayersInRound \ {CurrentPlayer}
  PROVE  Seen
<1>1. Leavers = {} /\ MoveKind = "turn"
  BY DEF Leavers, MoveKind, Choosing
<1>2. After("turn") \in Gateway!Turns(PlayersInRound')
  <2>1. ~(Gateway!Cardinality(PlayersInRound') < 2)
    BY GatewayCounts
  <2> QED  BY <2>1 DEF After, Gateway!Turns
<1>3. After("turn") \in Gateway!MoveOutcomes(CurrentPlayer)
  BY <1>2 DEF Gateway!MoveOutcomes
<1> QED  BY <1>1, <1>3 DEF Seen

\* A move that offers its player a choice.
LEMMA OfferIsSeen ==
  ASSUME UNCHANGED <<players, round, currentTurnIndex, eliminated, outOfRound>>,
         ~Choosing, Choosing'
  PROVE  Seen
<1>1. CurrentPlayer' = CurrentPlayer /\ PlayersInRound' = PlayersInRound /\ round' = round
  BY DEF CurrentPlayer, PlayersInRound, ActivePlayers
<1>2. Leavers = {}
  BY DEF Leavers
<1>3. After(MoveKind) \in Gateway!MoveOutcomes(CurrentPlayer)
  BY <1>1 DEF MoveKind, After, Gateway!MoveOutcomes
<1> QED  BY <1>2, <1>3 DEF Seen

\* A step of which nothing that the gateway reads is seen.
LEMMA NothingIsSeen ==
  ASSUME UNCHANGED <<phase, round, currentTurnIndex, outOfRound, eliminated>>
  PROVE  Seen
BY DEF Seen

\* A round that ends opens the next one, with all who still play in it.
LEMMA NextRoundOpens ==
  ASSUME ConfigType, TurnType, UNCHANGED config, NEW t \in Tables,
         NEW elim \in SUBSET players, Cardinality(players \ elim) >= 2,
         NEW tokens, NEW loser \in players \ elim, NEW ACTION rest,
         ResolveRoundEnd(t, elim, tokens, loser, rest), phase' # "GAME_OVER"
  PROVE  /\ phase' = "PLAYER_TURN" /\ round' = round + 1 /\ round' # round
         /\ eliminated' = elim /\ gameLoser' = gameLoser
         /\ ActivePlayers' = players \ elim /\ PlayersInRound' = players \ elim
         /\ CurrentPlayer' \in players \ elim
<1> DEFINE active == players \ elim
           dealt  == IF mode = "RODIZIO"
                     THEN [t EXCEPT !.hand = RotateHands(t.hand, active)] ELSE t
<1>1. eliminated' = elim /\ gameLoser' = gameLoser /\ StartRound(dealt, elim, loser, None)
  BY DEF ResolveRoundEnd, GameOver
<1>2. /\ phase' = "PLAYER_TURN" /\ round' = round + 1 /\ outOfRound' = elim
  BY <1>1 DEF StartRound
<1>3. round' # round
  BY <1>2 DEF TurnType
<1>4. UNCHANGED players
  BY DEF config
<1>5. dealt \in Tables
  <2>1. RotateHands(t.hand, active) \in [players -> Seq(Values)]
    BY RotateHandsTyped DEF Tables
  <2> QED  BY <2>1 DEF Tables
<1>6. SeatAt(players \ elim, currentTurnIndex') \in players \ elim
  <2>1. loser \in (players \ elim) \union {None}
    OBVIOUS
  <2> HIDE DEF dealt
  <2> QED  BY <1>1, <1>4, <1>5, <2>1, StartRoundOpens
<1>7. ActivePlayers' = players \ elim /\ PlayersInRound' = players \ elim
  BY <1>1, <1>2, <1>4 DEF ActivePlayers, PlayersInRound
<1> QED  BY <1>1, <1>2, <1>3, <1>6, <1>7 DEF CurrentPlayer

\* A move that ends the round.
LEMMA RoundIsSeen ==
  ASSUME IInv, InPlay, UNCHANGED config, NEW t \in Tables, NEW loser \in PlayersInRound,
         NEW ACTION rest, ResolveRoundEnd(t, eliminated, tokensLeft, loser, rest)
  PROVE  Seen
<1>1. CASE phase' = "GAME_OVER"
  BY <1>1 DEF Seen
<1>2. CASE phase' # "GAME_OVER"
  <2>1. /\ ConfigType /\ TurnType /\ eliminated \in SUBSET players
        /\ Cardinality(players \ eliminated) >= 2
    BY InPlayFacts
  <2>2. loser \in players \ eliminated
    BY DEF PlayersInRound, ActivePlayers
  <2>3. /\ round' # round /\ eliminated' = eliminated
        /\ PlayersInRound' = ActivePlayers /\ CurrentPlayer' \in ActivePlayers
    BY <1>2, <2>1, <2>2, NextRoundOpens DEF ActivePlayers
  <2>4. Leavers = {} /\ MoveKind = "round"
    BY <2>3 DEF Leavers, MoveKind
  <2>5. After("round") \in Gateway!MoveOutcomes(CurrentPlayer)
    BY <2>3 DEF After, Gateway!MoveOutcomes, Gateway!Rounds
  <2> QED  BY <2>4, <2>5 DEF Seen
<1> QED  BY <1>1, <1>2

\* A handler that ends with advanceTurn and leaves everybody in the round.
LEMMA AdvanceIsSeen ==
  ASSUME IInv, InPlay, UNCHANGED config, UNCHANGED <<round, eliminated, outOfRound>>,
         AdvanceTurn(eliminated, outOfRound)
  PROVE  Seen
<1>1. /\ ConfigType /\ TurnType /\ eliminated \in SUBSET players
      /\ Cardinality(players \ eliminated) >= 2 /\ Cardinality(PlayersInRound) >= 2
  BY InPlayFacts
<1>2. (players \ eliminated) \ outOfRound # {}
  BY SomeoneInRound DEF PlayersInRound, ActivePlayers
<1>3. /\ phase' = "PLAYER_TURN"
      /\ SeatAt(players \ eliminated, currentTurnIndex') \in (players \ eliminated) \ outOfRound
  BY <1>1, <1>2, AdvanceFinds
<1>4. ActivePlayers' = ActivePlayers /\ PlayersInRound' = PlayersInRound
  BY DEF config, ActivePlayers, PlayersInRound
<1>5. CurrentPlayer' \in PlayersInRound'
  BY <1>3, <1>4 DEF CurrentPlayer, ActivePlayers, PlayersInRound
<1>6. Cardinality(PlayersInRound) \in Nat
  BY <1>1, InRoundFinite
<1> QED  BY <1>1, <1>3, <1>4, <1>5, <1>6, TurnIsSeen

\* The common end of a pass.
LEMMA AfterPassIsSeen ==
  ASSUME IInv, InPlay, UNCHANGED config, NEW t \in Tables, NEW p \in players, AfterPass(t, p)
  PROVE  Seen
<1> DEFINE passes  == consecutivePasses + 1
           counted == /\ consecutivePasses' = passes
                      /\ UNCHANGED <<pile, saborVars, lastPlayerId, isFirstTurn,
                                     outOfRound, trickPileForPick>>
<1>1. ConfigType /\ TrickType /\ Cardinality(PlayersInRound) >= 2
  BY InPlayFacts
<1>2. CASE passes < Cardinality(PlayersInRound) - 1
  <2>1. counted /\ AdvanceTurn(eliminated, outOfRound) /\ UNCHANGED gameVars
    BY <1>2 DEF AfterPass
  <2> QED  BY <2>1, AdvanceIsSeen DEF gameVars
<1>3. CASE ~(passes < Cardinality(PlayersInRound) - 1) /\ pile = << >>
  <2>1. ResolveRoundEnd(t, eliminated, tokensLeft, StalemateLoser(t.hand), counted)
    BY <1>3 DEF AfterPass
  <2>2. StalemateLoser(t.hand) \in PlayersInRound
    <3>1. t.hand \in [players -> Seq(Values)]
      BY DEF Tables
    <3> QED  BY <1>1, <3>1, SomeoneInRound, Seats, StalemateLoserExists
  <2> HIDE DEF counted
  <2> QED  BY <2>1, <2>2, RoundIsSeen
<1>4. CASE ~(passes < Cardinality(PlayersInRound) - 1) /\ pile # << >>
  <2> DEFINE wiper == IF lastPlayerId = None THEN p ELSE lastPlayerId
  <2>1. ResolveWipe(t, wiper) /\ wiper \in players
    BY <1>1, <1>4 DEF AfterPass, TrickType
  <2>2. UNCHANGED round /\ UNCHANGED eliminated
    BY <2>1 DEF ResolveWipe, gameVars
  <2> HIDE DEF wiper
  <2>3. /\ phase' = "PLAYER_TURN" /\ PlayersInRound' = PlayersInRound
        /\ CurrentPlayer' \in PlayersInRound
    BY <2>1, WipeFinds
  <2>4. Cardinality(PlayersInRound) \in Nat
    BY <1>1, InRoundFinite
  <2> QED  BY <1>1, <2>2, <2>3, <2>4, TurnIsSeen
<1> QED  BY <1>2, <1>3, <1>4

-------------------------------------------------------------------------------
(* The handlers, as the gateway sees them. *)

\* applyPlayCards.
LEMMA PlayIsSeen ==
  ASSUME IInv, NEW p \in players, Play(p)
  PROVE  Seen
<1>0. PICK indices \in Selections(p), plateCards \in PlateLists :
        \E taken \in PlatesOf(plateCards) : PlayCards(p, indices, plateCards, taken)
  BY DEF Play
<1>1. PICK taken \in PlatesOf(plateCards) : PlayCards(p, indices, plateCards, taken)
  BY <1>0
<1>2. InPlay /\ phase = "PLAYER_TURN" /\ p = CurrentPlayer /\ p \in PlayersInRound
  BY <1>1, TurnOfOneInRound DEF PlayCards
<1>3. /\ ConfigType /\ TableType /\ TrickType /\ TurnType /\ GameType
      /\ eliminated \in SUBSET players /\ Cardinality(players \ eliminated) >= 2
      /\ Cardinality(PlayersInRound) >= 2
      /\ Table \in Tables
  BY <1>2, InPlayFacts
<1>4. UNCHANGED config /\ UNCHANGED players /\ ~Choosing
  BY <1>1, <1>2 DEF PlayCards, config, Choosing
<1> DEFINE played     == Selected(hand[p], indices) \o plateCards
           left       == Unselected(hand[p], indices)
           empties    == LeavesRound(left)
           t          == [Table EXCEPT
                            !.hand[p] = left,
                            !.duelPlates[p] = [v \in Values |-> @[v] - CountOf(taken, v)],
                            !.copied = [v \in Values |-> @[v] + CountOf(plateCards, v)
                                                             - CountOf(taken, v)],
                            !.discardPile = IF empties THEN Plus(@, pile) ELSE @]
           out        == IF empties THEN outOfRound \union {p} ELSE outOfRound
           remaining  == ActivePlayers \ out
           trick      == /\ pile' = played
                         /\ consecutivePasses' = 0
                         /\ lastPlayerId' = p
                         /\ isFirstTurn' = FALSE
                         /\ outOfRound' = out
                         /\ IF isSabor(played)
                            THEN saborActive' = TRUE /\ saborMinRequired' = Len(played)
                            ELSE IF saborActive /\ ~isSameCategory(played)
                            THEN saborActive' = FALSE /\ saborMinRequired' = 0
                            ELSE UNCHANGED saborVars
           goesOn     == /\ trick
                         /\ SetTable(t)
                         /\ UNCHANGED lastWiperId
                         /\ UNCHANGED gameVars
<1>5. played \in Seq(Values) /\ left \in Seq(Values) /\ t \in Tables
  <2>1. \A v \in Values : CountOf(taken, v) <= duelPlates[p][v]
    BY <1>1 DEF PlayCards
  <2>2. pile \in Seq(Values)
    BY <1>3 DEF TrickType
  <2> QED  BY <1>1, <1>3, <2>1, <2>2, PlayedTableTyped
<1>6. empties => remaining = PlayersInRound \ {p}
  BY DEF PlayersInRound
<1>7. CASE /\ empties
           /\ RoundIsOver(remaining)
           /\ ResolveRoundEnd(t, eliminated, tokensLeft, CHOOSE s \in remaining : TRUE,
                              trick /\ UNCHANGED trickPileForPick)
  <2> DEFINE loser == CHOOSE s \in remaining : TRUE
             rest  == trick /\ UNCHANGED trickPileForPick
  <2>1. loser \in PlayersInRound
    BY <1>3, <1>6, <1>7, InRoundFinite, OneLess
  <2>2. ResolveRoundEnd(t, eliminated, tokensLeft, loser, rest)
    BY <1>7
  <2> HIDE DEF t, loser, rest
  <2> QED  BY <1>2, <1>4, <1>5, <2>1, <2>2, RoundIsSeen
<1>8. CASE /\ empties
           /\ ~RoundIsOver(remaining)
           /\ AdvanceTurn(eliminated, out)
           /\ goesOn /\ UNCHANGED trickPileForPick
  <2>1. outOfRound' = out /\ UNCHANGED eliminated /\ UNCHANGED round
    BY <1>8 DEF gameVars
  <2>2. /\ IsFiniteSet(remaining) /\ Cardinality(remaining) \in Nat
        /\ Cardinality(remaining) >= 2 /\ remaining # {}
    <3>1. IsFiniteSet(remaining) /\ Cardinality(remaining) \in Nat
      BY <1>3, <1>6, <1>8, InRoundFinite, OneLess, FS_CardinalityType
    <3>2. Cardinality(remaining) >= 2
      BY <1>8, <3>1 DEF RoundIsOver
    <3> HIDE DEF remaining
    <3> QED  BY <3>1, <3>2, FS_EmptySet
  <2>3. ActivePlayers' = ActivePlayers /\ PlayersInRound' = remaining
    BY <1>4, <2>1 DEF ActivePlayers, PlayersInRound
  <2>4. /\ phase' = "PLAYER_TURN"
        /\ SeatAt(players \ eliminated, currentTurnIndex') \in (players \ eliminated) \ out
    <3>1. (players \ eliminated) \ out # {} /\ AdvanceTurn(eliminated, out)
      BY <1>8, <2>2 DEF ActivePlayers
    <3> HIDE DEF out
    <3> QED  BY <1>3, <3>1, AdvanceFinds
  <2>5. CurrentPlayer' \in PlayersInRound'
    BY <2>3, <2>4 DEF CurrentPlayer, ActivePlayers
  <2>6. PlayersInRound' = PlayersInRound \ {CurrentPlayer}
    BY <1>2, <1>6, <1>8, <2>3
  <2> QED  BY <1>4, <2>1, <2>2, <2>3, <2>4, <2>5, <2>6, TurnIsSeen
<1>9. CASE /\ ~empties /\ pile # << >>
           /\ phase' = "TRICK_PICK"
           /\ trickPileForPick' = pile
           /\ goesOn /\ UNCHANGED currentTurnIndex
  BY <1>4, <1>9, OfferIsSeen DEF gameVars, Choosing
<1>10. CASE /\ ~empties /\ pile = << >>
            /\ AdvanceTurn(eliminated, out)
            /\ goesOn /\ UNCHANGED trickPileForPick
  BY <1>2, <1>4, <1>10, AdvanceIsSeen DEF gameVars
<1> QED  BY <1>1, <1>7, <1>8, <1>9, <1>10 DEF PlayCards

\* applyPassTurn.
LEMMA PassIsSeen ==
  ASSUME IInv, NEW p \in players, NEW i \in Places(p), PassTurn(p, i)
  PROVE  Seen
<1>1. InPlay /\ p \in PlayersInRound
  BY TurnOfOneInRound DEF PassTurn
<1>2. TableType /\ Table \in Tables
  BY <1>1, InPlayFacts
<1>6. UNCHANGED config
  BY DEF PassTurn, config
<1> DEFINE t == [Table EXCEPT !.pendingDraws[p] = None]
<1>3. t \in Tables /\ t.hand = hand /\ t.drawPile = drawPile
  BY <1>2 DEF Tables, Table
<1>4. CASE IsEmptyBag(drawPile)
  <2>1. AfterPass(t, p)
    BY <1>4 DEF PassTurn
  <2> HIDE DEF t
  <2> QED  BY <1>1, <1>3, <1>6, <2>1, AfterPassIsSeen
<1>5. CASE ~IsEmptyBag(drawPile)
  <2>1. PICK c \in Values :
          /\ drawPile[c] > 0
          /\ AfterPass([t EXCEPT !.drawPile[c] = @ - 1,
                                 !.hand[p] = InsertAt(@, i, <<c>>)], p)
    BY <1>5 DEF PassTurn
  <2> DEFINE drawn == [drawPile EXCEPT ![c] = @ - 1]
             after == [hand EXCEPT ![p] = InsertAt(hand[p], i, <<c>>)]
             u     == [t EXCEPT !.drawPile[c] = @ - 1, !.hand[p] = InsertAt(@, i, <<c>>)]
  <2>2. drawn \in Cards
    BY <1>2, <2>1 DEF TableType, Cards
  <2>3. after \in [players -> Seq(Values)]
    <3>1. hand[p] \in Seq(Values) /\ <<c>> \in Seq(Values) /\ i \in 0..Len(hand[p])
      BY <1>2 DEF TableType, Places
    <3>2. InsertAt(hand[p], i, <<c>>) \in Seq(Values)
      BY <3>1, InsertAtType
    <3> QED  BY <1>2, <3>2 DEF TableType
  <2>4. u = [t EXCEPT !.drawPile = drawn, !.hand = after]
    BY DEF Table
  <2>5. u \in Tables
    <3> HIDE DEF t, u, after, drawn
    <3> QED  BY <1>3, <2>2, <2>3, <2>4 DEF Tables
  <2>6. AfterPass(u, p)
    BY <2>1
  <2> HIDE DEF u
  <2> QED  BY <1>1, <1>6, <2>5, <2>6, AfterPassIsSeen
<1> QED  BY <1>4, <1>5

\* applyDrawCard, outside a duel and in one.
LEMMA DrawIsSeen ==
  ASSUME IInv, NEW p \in players, DrawCard(p)
  PROVE  Seen
BY OfferIsSeen DEF DrawCard, HasTurn, Choosing, gameVars, config

LEMMA DuelPassIsSeen ==
  ASSUME IInv, NEW p \in players, DuelPass(p)
  PROVE  Seen
<1>1. InPlay /\ phase = "PLAYER_TURN" /\ p \in PlayersInRound
  BY TurnOfOneInRound DEF DuelPass
<1>2. Table \in Tables
  BY <1>1, InPlayFacts
<1> DEFINE rest == UNCHANGED <<trickVars, outOfRound, trickPileForPick>>
<1>3. CASE IsEmptyBag(duelPlates[p])
  <2>1. ResolveRoundEnd(Table, eliminated, tokensLeft, p, rest) /\ UNCHANGED config
    BY <1>3 DEF DuelPass, config
  <2> HIDE DEF rest
  <2> QED  BY <1>1, <1>2, <2>1, RoundIsSeen
<1>4. CASE ~IsEmptyBag(duelPlates[p])
  BY <1>1, <1>4, OfferIsSeen DEF DuelPass, Choosing, gameVars, config
<1> QED  BY <1>3, <1>4

\* applyDuelPassPick.
LEMMA PickPlateIsSeen ==
  ASSUME IInv, GameInv, NEW p \in players, PickPlate(p)
  PROVE  Seen
<1>1. TableType
  BY DEF IInv, TypeOK
<1>2. PICK v \in Values, action \in {"insert", "discard"}, i \in Places(p) :
        DuelPassPick(p, v, action, i)
  <2>1. PICK v \in Values : \/ \E i \in Places(p) : DuelPassPick(p, v, "insert", i)
                            \/ DuelPassPick(p, v, "discard", 0)
    BY DEF PickPlate
  <2>2. 0 \in Places(p)
    BY <1>1, FirstPlace
  <2> QED  BY <2>1, <2>2
<1> DEFINE same  == UNCHANGED <<trickVars, outOfRound, trickPileForPick>>
           taken == TakePlate(Table, p, v)
           t     == PutCards(taken, p, action, i, <<v>>)
<1>3. /\ phase = "DUEL_PASS_PICK" /\ pendingDuelPick = p /\ duelPlates[p][v] > 0
      /\ IF t.duelPassCount[p] >= DuelPassLimit
         THEN ResolveRoundEnd(t, eliminated, tokensLeft, p, same)
         ELSE /\ AdvanceTurn(eliminated, outOfRound)
              /\ SetTable(t)
              /\ same
              /\ UNCHANGED lastWiperId
              /\ UNCHANGED gameVars
      /\ UNCHANGED config
  BY <1>2 DEF DuelPassPick
<1>4. InPlay /\ p \in PlayersInRound
  BY <1>3 DEF InPlay, Phases, GameInv, DuelPickInRound
<1>5. taken \in Tables /\ taken.hand = hand
  BY <1>1, <1>3, TakePlateTyped
<1>6. t \in Tables
  <2>1. i \in 0..Len(taken.hand[p]) /\ <<v>> \in Seq(Values)
    BY <1>2, <1>5 DEF Places
  <2> HIDE DEF taken
  <2> QED  BY <1>5, <2>1, PutCardsTyped
<1>7. CASE t.duelPassCount[p] >= DuelPassLimit
  <2>1. ResolveRoundEnd(t, eliminated, tokensLeft, p, same) /\ UNCHANGED config
    BY <1>3, <1>7
  <2> HIDE DEF t, same
  <2> QED  BY <1>4, <1>6, <2>1, RoundIsSeen
<1>8. CASE ~(t.duelPassCount[p] >= DuelPassLimit)
  <2>1. /\ AdvanceTurn(eliminated, outOfRound) /\ same
        /\ UNCHANGED gameVars /\ UNCHANGED config
    BY <1>3, <1>8
  <2> QED  BY <1>4, <2>1, AdvanceIsSeen DEF gameVars
<1> QED  BY <1>7, <1>8

\* applyInsertDrawn.
LEMMA InsertIsSeen ==
  ASSUME IInv, NEW p \in players, Insert(p)
  PROVE  Seen
<1>1. TableType
  BY DEF IInv, TypeOK
<1>2. PICK action \in {"insert", "discard"}, i \in Places(p) : InsertDrawn(p, action, i)
  BY <1>1, FirstPlace DEF Insert
<1>3. InPlay
  BY <1>2, TurnOfOneInRound DEF InsertDrawn
<1> DEFINE drawn == IF pendingDraws[p] = None THEN << >> ELSE <<pendingDraws[p]>>
           b == [Table EXCEPT !.pendingDraws[p] = None]
           t == PutCards(b, p, action, i, drawn)
<1>4. AfterPass(t, p) /\ UNCHANGED config
  BY <1>2 DEF InsertDrawn, config
<1>5. drawn \in Seq(Values)
  <2>1. pendingDraws[p] \in Values \union {None}
    BY <1>1 DEF TableType
  <2> QED  BY <2>1, EmptySeq
<1>6. b \in Tables /\ b.hand = hand
  BY <1>1, TableTyped DEF Tables, Table
<1>7. t \in Tables
  <2>1. i \in 0..Len(b.hand[p])
    BY <1>2, <1>6 DEF Places
  <2> HIDE DEF drawn, b
  <2> QED  BY <1>5, <1>6, <2>1, PutCardsTyped
<1> HIDE DEF t
<1> QED  BY <1>3, <1>4, <1>7, AfterPassIsSeen

\* applyTrickPick.
LEMMA PickTrickIsSeen ==
  ASSUME IInv, NEW p \in players, PickTrick(p)
  PROVE  Seen
<1>1. PICK action, i : TrickPick(p, action, i)
  BY DEF PickTrick
<1>2. InPlay
  BY <1>1, TurnOfOneInRound DEF TrickPick
<1>3. /\ AdvanceTurn(eliminated, outOfRound) /\ UNCHANGED config
      /\ UNCHANGED <<round, eliminated, outOfRound>>
  BY <1>1 DEF TrickPick, gameVars, config
<1> QED  BY <1>2, <1>3, AdvanceIsSeen

\* recoverStuckTurn.
LEMMA RecoverIsSeen ==
  ASSUME IInv, RecoverStuckTurn
  PROVE  Seen
<1>1. InPlay
  BY DEF RecoverStuckTurn, InPlay, Phases
<1>2. /\ AdvanceTurn(eliminated, outOfRound) /\ UNCHANGED config
      /\ UNCHANGED <<round, eliminated, outOfRound>>
  BY DEF RecoverStuckTurn, gameVars, config
<1> QED  BY <1>1, <1>2, AdvanceIsSeen

\* removePlayerFromGame: the end of the game, or of the round, or a turn that moves on
\* when it was the leaver's, or nothing at all.
LEMMA RemoveIsSeen ==
  ASSUME IInv, NoLoserYet, NEW p \in players, RemovePlayerFromGame(p)
  PROVE  Seen
<1> DEFINE t       == GiveUpHand(Table, p)
           elim    == eliminated \union {p}
           out     == outOfRound \union {p}
           tokens  == [tokensLeft EXCEPT ![p] = 0]
           active  == players \ elim
           inRound == active \ out
           gone    == /\ outOfRound' = out
                      /\ UNCHANGED <<trickVars, trickPileForPick>>
<1>1. InPlay /\ p \notin eliminated /\ UNCHANGED config /\ UNCHANGED players
  BY DEF RemovePlayerFromGame, config
<1>2. /\ ConfigType /\ TableType /\ TurnType /\ Cardinality(PlayersInRound) >= 2
      /\ eliminated \in SUBSET players /\ Table \in Tables
  BY <1>1, InPlayFacts
<1>3. t \in Tables
  BY <1>2, GiveUpHandTyped
<1>4. /\ inRound = PlayersInRound \ {p} /\ active = ActivePlayers \ {p}
      /\ inRound \in SUBSET active /\ elim \in SUBSET players
  BY <1>2 DEF PlayersInRound, ActivePlayers
<1>5. /\ IsFiniteSet(inRound) /\ Cardinality(inRound) \in Nat
      /\ (CHOOSE s \in inRound : TRUE) \in inRound
  <2>1. IsFiniteSet(PlayersInRound)
    BY <1>2, InRoundFinite
  <2> HIDE DEF inRound
  <2> QED  BY <1>2, <1>4, <2>1, OneLess, FS_CardinalityType
<1>6. /\ IsFiniteSet(active) /\ Cardinality(active) \in Nat
      /\ Cardinality(inRound) <= Cardinality(active)
  <2>1. active \in SUBSET players /\ IsFiniteSet(players)
    BY <1>2, Seats
  <2> HIDE DEF active, inRound
  <2> QED  BY <1>4, <2>1, FS_Subset, FS_CardinalityType
<1>7. gameLoser = None /\ p # None
  BY <1>1, <1>2, Seats DEF NoLoserYet, InPlay
<1>8. Gateway!RoundWithout(p) = inRound
  BY <1>4 DEF Gateway!RoundWithout
<1>9. CASE Cardinality(active) <= 1 /\ GameOver(t, elim, tokens, p) /\ gone
  BY <1>9 DEF GameOver, Seen
<1>10. CASE /\ Cardinality(active) > 1 /\ RoundIsOver(inRound)
            /\ ResolveRoundEnd(t, elim, tokens, CHOOSE s \in inRound : TRUE, gone)
  <2> DEFINE loser == CHOOSE s \in inRound : TRUE
  <2>1. CASE phase' = "GAME_OVER"
    BY <2>1 DEF Seen
  <2>2. CASE phase' # "GAME_OVER"
    <3>1. loser \in players \ elim /\ Cardinality(players \ elim) >= 2
      BY <1>5, <1>6, <1>10
    <3>2. ResolveRoundEnd(t, elim, tokens, loser, gone)
      BY <1>10
    <3>3. /\ round' # round /\ eliminated' = elim /\ gameLoser' = gameLoser
          /\ PlayersInRound' = active /\ CurrentPlayer' \in active
      <4> HIDE DEF t, elim, tokens, loser, gone
      <4> QED  BY <1>1, <1>2, <1>3, <1>4, <2>2, <3>1, <3>2, NextRoundOpens
    <3>4. Leavers = {p} /\ LeaveKind(p) = "round"
      BY <1>1, <1>7, <3>3 DEF Leavers, LeaveKind
    <3>5. Cardinality(inRound) < 2 /\ ~(Cardinality(active) < 2)
      BY <1>5, <1>6, <1>10 DEF RoundIsOver
    <3>6. After("round") \in Gateway!LeaveOutcomes(p)
      <4> HIDE DEF inRound, active
      <4> QED  BY <1>4, <1>8, <3>3, <3>5, GatewayCounts
               DEF After, Gateway!LeaveOutcomes, Gateway!Rounds
    <3> QED  BY <3>4, <3>6 DEF Seen
  <2> QED  BY <2>1, <2>2
<1>11. CASE /\ ~RoundIsOver(inRound)
            /\ IF phase = "PLAYER_TURN" /\ CurrentPlayer = p
               THEN AdvanceTurn(elim, out)
               ELSE UNCHANGED <<phase, currentTurnIndex>>
            /\ eliminated' = elim
            /\ tokensLeft' = tokens
            /\ SetTable(t)
            /\ gone
            /\ UNCHANGED <<round, market, lastRoundWinnerId, gameLoser, lastWiperId>>
  <2>1. ~(Cardinality(inRound) < 2) /\ ~(Cardinality(active) < 2) /\ Cardinality(active) >= 2
    BY <1>5, <1>6, <1>11 DEF RoundIsOver
  <2>2. /\ outOfRound' = out /\ eliminated' = elim /\ round' = round
        /\ gameLoser' = gameLoser
    BY <1>11
  <2>3. ActivePlayers' = active /\ PlayersInRound' = inRound
    BY <1>1, <2>2 DEF ActivePlayers, PlayersInRound
  <2>4. Leavers = {p}
    BY <1>1, <1>7, <2>2 DEF Leavers
  <2>5. phase = "PLAYER_TURN" <=> ~Choosing
    BY <1>1 DEF InPlay, Phases, Choosing
  <2>6. CASE phase = "PLAYER_TURN" /\ CurrentPlayer = p
    <3>1. AdvanceTurn(elim, out) /\ LeaveKind(p) = "turn"
      BY <1>11, <2>2, <2>5, <2>6 DEF LeaveKind
    <3>2. inRound # {}
      <4> HIDE DEF inRound
      <4> QED  BY <1>5, <2>1, FS_EmptySet
    <3>3. SeatAt(players \ elim, currentTurnIndex') \in (players \ elim) \ out
      <4>1. (players \ elim) \ out # {} /\ Cardinality(players \ elim) >= 2
        BY <2>1, <3>2
      <4> HIDE DEF elim, out
      <4> QED  BY <1>2, <1>4, <3>1, <4>1, AdvanceFinds
    <3>4. CurrentPlayer' \in inRound
      BY <2>3, <3>3 DEF CurrentPlayer
    <3>5. After("turn") \in Gateway!LeaveOutcomes(p)
      <4> HIDE DEF inRound, active
      <4> QED  BY <1>4, <1>8, <2>1, <2>3, <2>5, <2>6, <3>4, GatewayCounts
               DEF After, Gateway!LeaveOutcomes, Gateway!Turns
    <3> QED  BY <2>4, <3>1, <3>5 DEF Seen
  <2>7. CASE ~(phase = "PLAYER_TURN" /\ CurrentPlayer = p)
    <3>1. UNCHANGED <<phase, currentTurnIndex>> /\ LeaveKind(p) = "silent"
      BY <1>11, <2>2, <2>5, <2>7 DEF LeaveKind
    <3>2. CurrentPlayer' \in active
      <4>1. /\ active \in SUBSET Nat /\ active # {} /\ currentTurnIndex' \in Nat
        <5>1. active \in SUBSET Nat /\ active # {}
          BY <1>2, <1>4, <2>1, StillActive
        <5> QED  BY <1>2, <3>1, <5>1 DEF TurnType
      <4>2. SeatAt(active, currentTurnIndex') \in active
        <5> HIDE DEF active
        <5> QED  BY <1>6, <4>1, SeatAtPlace
      <4> QED  BY <2>3, <4>2 DEF CurrentPlayer
    <3>3. After("silent") \in Gateway!LeaveOutcomes(p)
      <4> HIDE DEF inRound, active
      <4> QED  BY <1>4, <1>8, <2>1, <2>3, <2>5, <2>7, <3>2, GatewayCounts
               DEF After, Gateway!LeaveOutcomes
    <3>4. Choosing' = Choosing
      BY <3>1 DEF Choosing
    <3> QED  BY <2>4, <3>1, <3>3, <3>4 DEF Seen
  <2> QED  BY <2>6, <2>7
<1> QED  BY <1>9, <1>10, <1>11 DEF RemovePlayerFromGame

\* Every step of the engine, as the gateway sees it.
LEMMA StepIsSeen ==
  ASSUME IInv, GameInv, NoLoserYet, [Next]_vars
  PROVE  Seen
<1>1. CASE Start
  BY <1>1 DEF Start, Seen, InPlay
<1>2. CASE RecoverStuckTurn
  BY <1>2, RecoverIsSeen
<1>3. ASSUME NEW p \in players, Move(p)
      PROVE  Seen
  <2>1. CASE Play(p)
    BY <2>1, PlayIsSeen
  <2>2. CASE Pass(p)
    BY <2>2, PassIsSeen DEF Pass
  <2>3. CASE DrawCard(p) \/ DuelPass(p)
    BY <2>3, DrawIsSeen, DuelPassIsSeen
  <2>4. CASE DrawFromEmptyPile(p)
    <3>1. 0 \in Places(p)
      BY FirstPlace DEF IInv, TypeOK
    <3> QED  BY <2>4, <3>1, PassIsSeen DEF DrawFromEmptyPile
  <2>5. CASE PickPlate(p) \/ Insert(p) \/ PickTrick(p)
    BY <2>5, PickPlateIsSeen, InsertIsSeen, PickTrickIsSeen
  <2> QED  BY <1>3, <2>1, <2>2, <2>3, <2>4, <2>5 DEF Move
<1>4. ASSUME NEW p \in players, Swap(p) \/ LateInsertDrawn(p)
      PROVE  Seen
  <2>1. UNCHANGED <<phase, round, currentTurnIndex, outOfRound, eliminated>>
    BY <1>4 DEF Swap, MarketSwap, LateInsertDrawn, gameVars
  <2> QED  BY <2>1, NothingIsSeen
<1>5. ASSUME NEW p \in players, RemovePlayerFromGame(p)
      PROVE  Seen
  BY <1>5, RemoveIsSeen
<1>6. CASE UNCHANGED vars
  BY <1>6, NothingIsSeen DEF vars
<1> QED  BY <1>1, <1>2, <1>3, <1>4, <1>5, <1>6 DEF Next

\* TokenGame names a loser with the end of the game, and not before.
LEMMA LoserIsLast ==
  ASSUME NoLoserYet, [Abstract!Next]_(Abstract!vars)
  PROVE  NoLoserYet'
BY DEF NoLoserYet, Stage, Abstract!Next, Abstract!vars, Abstract!Begin, Abstract!Escape,
       Abstract!EndRound, Abstract!Abandon, Abstract!LoseRound

\* What RoomTurns takes a game to be is what GameEngine makes of it, in every mode, with any
\* number of players and whoever leaves: nobody out of the round is named in a turn_started,
\* an offer stays with its player, and a departure during another's choice changes the
\* turn without an event (playCards to recoverStuckTurn, as dispatchEvents reads them).
THEOREM GatewaySees == Spec => GatewaySeesEngine
<1>1. Init => NoLoserYet
  BY DEF Init, NoLoserYet
<1>2. IInv /\ GameInv /\ NoLoserYet /\ [Next]_vars => NoLoserYet'
  BY StepAdvances, LoserIsLast
<1>3. IInv /\ GameInv /\ NoLoserYet /\ [Next]_vars => [Seen]_vars
  BY StepIsSeen
<1> QED  BY <1>1, <1>2, <1>3, GameInductive, PTL DEF Spec, GatewaySeesEngine, Seen

-------------------------------------------------------------------------------
(* What a bot plays. *)

\* The cards a bot takes together are a run of the hand.
LEMMA GroupIsARun ==
  ASSUME NEW h \in Seq(Values), NEW i \in 1..Len(h)
  PROVE  \E m \in i..Len(h) : Group(h, i) = i..m
<1>1. Len(h) \in Nat /\ i \in Nat /\ i <= Len(h)
  BY LenProperties
<1>2. Group(h, i) \in SUBSET (i..Len(h)) /\ Group(h, i) \in SUBSET Nat
  BY <1>1 DEF Group
<1>3. IsFiniteSet(Group(h, i))
  <2>1. IsFiniteSet(i..Len(h))
    BY <1>1, FS_Interval
  <2> QED  BY <1>2, <2>1, FS_Subset
<1>4. i \in Group(h, i)
  BY <1>1 DEF Group
<1>5. PICK m \in Group(h, i) : \A k \in Group(h, i) : k <= m
  BY <1>2, <1>3, <1>4, GreatestNat
<1>6. m \in i..Len(h) /\ m \in Nat
  BY <1>2
<1>7. ASSUME NEW k \in i..m
      PROVE  k \in Group(h, i)
  <2>1. k \in i..Len(h) /\ i..k \in SUBSET (i..m)
    BY <1>1, <1>6
  <2>2. \A l \in i..m : h[l] = h[i]
    BY DEF Group
  <2> QED  BY <2>1, <2>2 DEF Group
<1>8. ASSUME NEW k \in Group(h, i)
      PROVE  k \in i..m
  BY <1>1, <1>2, <1>5, <1>6
<1>9. Group(h, i) = i..m
  BY <1>7, <1>8
<1> QED  BY <1>6, <1>9

\* A run of the hand is legal when it is of one value and beats the pile.
LEMMA LegalRun ==
  ASSUME NEW h \in Seq(Values), NEW a \in 1..Len(h), NEW b \in 1..Len(h), a <= b,
         NEW cards, NEW sabor, NEW least
  PROVE  validatePlayIndices(h, a..b, cards, sabor, least, << >>)
           <=> /\ \A k \in a..b : h[k] = h[a]
               /\ sabor => (b - a) + 1 >= least
               /\ \/ cards = << >>
                  \/ (b - a) + 1 > Len(cards)
                  \/ (b - a) + 1 = Len(cards) /\ h[a] > cards[1]
<1>1. Len(h) \in Nat /\ DOMAIN h = 1..Len(h) /\ \A j \in 1..Len(h) : h[j] \in Values
  BY LenProperties, ElementOfSeq
<1>2. a \in Nat /\ b \in Nat /\ a..b # {} /\ a..b \subseteq DOMAIN h
  <2>1. a \in Nat /\ b \in Nat /\ a \in a..b
    BY <1>1
  <2>2. a..b \subseteq 1..Len(h)
    BY <1>1, <2>1
  <2> QED  BY <1>1, <2>1, <2>2
<1>3. isContiguous(a..b)
  BY <1>2 DEF isContiguous
<1> DEFINE played == SubSeq(h, a, b)
<1>4. Selected(h, a..b) = played
  BY RangeOfPlay
<1>5. /\ played \in Seq(Values)
      /\ Len(played) = (b - a) + 1
      /\ \A k \in 1..((b - a) + 1) : played[k] = h[(a + k) - 1]
  <2>1. \A j \in a..b : h[j] \in Values
    BY <1>1, <1>2
  <2>2. /\ SubSeq(h, a, b) \in Seq(Values)
        /\ Len(SubSeq(h, a, b)) = IF a <= b THEN b - a + 1 ELSE 0
        /\ \A k \in 1..(b - a + 1) : SubSeq(h, a, b)[k] = h[a + k - 1]
    BY <1>1, <1>2, <2>1, SubSeqProperties
  <2> QED  BY <1>2, <2>2
<1>6. Selected(h, a..b) \o << >> = played
  BY <1>4, <1>5, ConcatEmptySeq
<1>7. DOMAIN played = 1..((b - a) + 1) /\ played # << >> /\ played[1] = h[a]
  <2>1. DOMAIN played = 1..((b - a) + 1)
    BY <1>5, LenProperties
  <2>2. 1 \in 1..((b - a) + 1) /\ (a + 1) - 1 = a
    BY <1>2
  <2>3. played[1] = h[a]
    BY <1>5, <2>2
  <2>4. played # << >>
    <3>1. Len(played) # 0
      BY <1>2, <1>5
    <3> HIDE DEF played
    <3> QED  BY <1>5, <3>1, EmptySeq
  <2> QED  BY <2>1, <2>3, <2>4
<1>8. isSameValue(played) <=> \A k \in a..b : h[k] = h[a]
  <2>1. ASSUME \A i \in DOMAIN played : played[i] = played[1], NEW k \in a..b
        PROVE  h[k] = h[a]
    <3>1. (k - a) + 1 \in 1..((b - a) + 1) /\ (a + ((k - a) + 1)) - 1 = k
      BY <1>2
    <3>2. played[(k - a) + 1] = h[k]
      BY <1>5, <3>1
    <3> QED  BY <1>7, <2>1, <3>1, <3>2
  <2>2. ASSUME \A k \in a..b : h[k] = h[a], NEW i \in DOMAIN played
        PROVE  played[i] = played[1]
    <3>1. i \in 1..((b - a) + 1) /\ (a + i) - 1 \in a..b
      BY <1>2, <1>7
    <3> QED  BY <1>5, <1>7, <2>2, <3>1
  <2> HIDE DEF played
  <2> QED  BY <1>7, <2>1, <2>2 DEF isSameValue
<1> HIDE DEF played
<1> QED  BY <1>2, <1>3, <1>5, <1>6, <1>7, <1>8 DEF validatePlayIndices, beatsPlay

\* A legal selection is a run of the hand, the group that starts where it starts has at
\* least as many cards, and is legal too.
LEMMA GroupsAreEnough ==
  ASSUME NEW p \in players, TableType, TrickType,
         NEW indices \in Selections(p), LegalPlay(p, indices)
  PROVE  \E a \in 1..Len(hand[p]) :
            /\ LegalPlay(p, Group(hand[p], a))
            /\ Cardinality(indices) <= Cardinality(Group(hand[p], a))
            /\ Cardinality(indices) \in Nat /\ Cardinality(Group(hand[p], a)) \in Nat
<1> DEFINE h == hand[p]
<1>1. h \in Seq(Values) /\ Len(h) \in Nat /\ DOMAIN h = 1..Len(h)
  BY LenProperties DEF TableType
<1>2. saborMinRequired \in Nat /\ Len(pile) \in Nat
  BY LenProperties DEF TrickType
<1>3. indices # {}
  BY DEF LegalPlay, validatePlayIndices
<1>4. PICK a \in 1..Len(h), b \in 1..Len(h) : indices = a..b
  BY <1>1, <1>3 DEF Selections
<1>5. a \in Nat /\ b \in Nat /\ a <= b
  BY <1>1, <1>3, <1>4
<1>6. PICK m \in a..Len(h) : Group(h, a) = a..m
  BY <1>1, GroupIsARun
<1>7. m \in 1..Len(h) /\ m \in Nat /\ a <= m
  BY <1>1, <1>5
<1> HIDE DEF h
<1>8. /\ \A k \in a..b : h[k] = h[a]
      /\ saborActive => (b - a) + 1 >= saborMinRequired
      /\ \/ pile = << >>
         \/ (b - a) + 1 > Len(pile)
         \/ (b - a) + 1 = Len(pile) /\ h[a] > pile[1]
  BY <1>1, <1>4, <1>5, LegalRun DEF LegalPlay, h
<1>9. b <= m
  <2>1. b \in Group(h, a)
    BY <1>1, <1>5, <1>8 DEF Group
  <2> QED  BY <1>5, <1>6, <2>1
<1>10. \A k \in a..m : h[k] = h[a]
  <2>1. m \in Group(h, a)
    BY <1>5, <1>6, <1>7
  <2> QED  BY <2>1 DEF Group
<1>11. /\ saborActive => (m - a) + 1 >= saborMinRequired
       /\ \/ pile = << >>
          \/ (m - a) + 1 > Len(pile)
          \/ (m - a) + 1 = Len(pile) /\ h[a] > pile[1]
  <2>1. (m - a) + 1 >= (b - a) + 1 /\ (m - a) + 1 \in Nat /\ (b - a) + 1 \in Nat
    BY <1>5, <1>7, <1>9
  <2>2. CASE (m - a) + 1 = (b - a) + 1
    BY <1>8, <2>2
  <2>3. CASE (m - a) + 1 > (b - a) + 1
    BY <1>2, <1>8, <2>1, <2>3
  <2> QED  BY <2>1, <2>2, <2>3
<1>12. LegalPlay(p, Group(h, a))
  <2>1. validatePlayIndices(h, a..m, pile, saborActive, saborMinRequired, << >>)
    BY <1>1, <1>7, <1>10, <1>11, LegalRun
  <2> QED  BY <1>6, <2>1 DEF LegalPlay, h
<1>13. /\ Cardinality(indices) <= Cardinality(Group(h, a))
       /\ Cardinality(indices) \in Nat /\ Cardinality(Group(h, a)) \in Nat
  <2>1. Cardinality(a..b) = (b - a) + 1 /\ Cardinality(a..m) = (m - a) + 1
    BY <1>5, <1>7, FS_Interval
  <2> QED  BY <1>4, <1>5, <1>6, <1>7, <1>9, <2>1
<1> QED  BY <1>4, <1>12, <1>13 DEF h

\* Of some groups of the hand one is largest, of the highest value among those.
LEMMA BestGroup ==
  ASSUME NEW h \in Seq(Values), NEW S \in SUBSET (1..Len(h)), S # {}
  PROVE  \E i \in S : \A j \in S :
            ~ \/ Cardinality(Group(h, j)) > Cardinality(Group(h, i))
              \/ Cardinality(Group(h, j)) = Cardinality(Group(h, i)) /\ h[j] > h[i]
<1> DEFINE size(i) == Cardinality(Group(h, i))
           sizes   == {size(i) : i \in S}
<1>1. Len(h) \in Nat /\ \A j \in 1..Len(h) : h[j] \in Nat
  BY LenProperties, ElementOfSeq, ValuesAreNat
<1>2. \A i \in S : size(i) \in 0..Len(h)
  <2> TAKE i \in S
  <2>1. i \in 1..Len(h) /\ i \in Nat
    BY <1>1
  <2>2. PICK m \in i..Len(h) : Group(h, i) = i..m
    BY <2>1, GroupIsARun
  <2>3. Cardinality(i..m) = (m - i) + 1
    BY <1>1, <2>1, FS_Interval
  <2> QED  BY <1>1, <2>1, <2>2, <2>3
<1>3. IsFiniteSet(1..Len(h)) /\ IsFiniteSet(0..Len(h)) /\ IsFiniteSet(S)
  <2>1. IsFiniteSet(1..Len(h)) /\ IsFiniteSet(0..Len(h))
    BY <1>1, FS_Interval
  <2> QED  BY <2>1, FS_Subset
<1>4. sizes \in SUBSET (0..Len(h)) /\ sizes # {}
  BY <1>2
<1>5. sizes \in SUBSET Nat /\ IsFiniteSet(sizes)
  <2> HIDE DEF sizes
  <2>1. 0..Len(h) \subseteq Nat
    OBVIOUS
  <2> QED  BY <1>3, <1>4, <2>1, FS_Subset
<1>6. PICK M \in sizes : \A n \in sizes : n <= M
  <2> HIDE DEF sizes
  <2> QED  BY <1>4, <1>5, GreatestNat
<1> DEFINE largest == {i \in S : size(i) = M}
           values  == {h[i] : i \in largest}
<1>7. largest # {} /\ \A j \in S : size(j) <= M
  BY <1>6
<1>8. values \in SUBSET Nat /\ values # {}
  BY <1>1, <1>7
<1>9. IsFiniteSet(values)
  <2>1. IsFiniteSet(largest)
    BY <1>3, FS_Subset
  <2>2. [i \in largest |-> h[i]] \in Surjection(largest, values)
    BY DEF Surjection
  <2> HIDE DEF largest, values
  <2> QED  BY <2>1, <2>2, FS_Surjection
<1>10. PICK V \in values : \A v \in values : v <= V
  <2> HIDE DEF values
  <2> QED  BY <1>8, <1>9, GreatestNat
<1>11. PICK i \in largest : h[i] = V
  OBVIOUS
<1>12. ASSUME NEW j \in S
       PROVE  ~ \/ size(j) > size(i)
                \/ size(j) = size(i) /\ h[j] > h[i]
  <2>1. size(i) = M /\ size(j) <= M /\ size(j) \in Nat /\ size(i) \in Nat
    BY <1>1, <1>2, <1>7
  <2>2. size(j) = M => h[j] <= h[i]
    BY <1>10, <1>11
  <2>3. h[j] \in Nat /\ h[i] \in Nat
    BY <1>1
  <2>4. ~(size(j) > size(i))
    BY <2>1
  <2>5. size(j) = size(i) => ~(h[j] > h[i])
    <3>1. size(j) = size(i) => h[j] <= h[i]
      BY <2>1, <2>2
    <3>2. \A x, y \in Nat : x <= y => ~(x > y)
      OBVIOUS
    <3> HIDE DEF size
    <3> QED  BY <2>3, <3>1, <3>2
  <2> QED  BY <2>4, <2>5
<1> QED  BY <1>12

\* Easy plays when a group is legal, medium and hard a group no legal one is larger than.
LEMMA BotMoves ==
  ASSUME NEW p \in players, TableType,
         NEW a \in 1..Len(hand[p]), LegalPlay(p, Group(hand[p], a))
  PROVE  /\ computeBotMove(p, "easy") # {}
         /\ Cardinality(Group(hand[p], a)) <= Cardinality(computeBotMove(p, "hard"))
         /\ Cardinality(computeBotMove(p, "hard")) \in Nat
<1> DEFINE h       == hand[p]
           size(i) == Cardinality(Group(h, i))
           starts  == {i \in DOMAIN h : LegalPlay(p, Group(h, i))}
           best    == {i \in starts : \A j \in starts :
                         ~ \/ size(j) > size(i)
                           \/ size(j) = size(i) /\ h[j] > h[i]}
           first(S) == CHOOSE i \in S : \A j \in S : i <= j
<1>1. h \in Seq(Values) /\ Len(h) \in Nat /\ DOMAIN h = 1..Len(h)
  BY LenProperties DEF TableType
<1>2. starts \in SUBSET (1..Len(h)) /\ a \in starts /\ best \subseteq starts
  BY <1>1
<1>3. best # {}
  <2> HIDE DEF starts
  <2> QED  BY <1>1, <1>2, BestGroup
<1>4. ASSUME NEW S \in SUBSET (1..Len(h)), S # {}
      PROVE  first(S) \in S
  <2>1. S \in SUBSET Nat
    OBVIOUS
  <2> QED  BY <1>4, <2>1, LeastNat
<1>5. first(starts) \in starts /\ first(best) \in best
  <2> HIDE DEF starts, best, first
  <2> QED  BY <1>2, <1>3, <1>4
<1>6. /\ computeBotMove(p, "easy") = Group(h, first(starts))
      /\ computeBotMove(p, "hard") = Group(h, first(best))
  <2>1. starts # {}
    BY <1>2
  <2> QED  BY <2>1 DEF computeBotMove
<1>7. \A i \in 1..Len(h) : size(i) \in Nat /\ Group(h, i) # {}
  <2> TAKE i \in 1..Len(h)
  <2>1. i \in Nat
    BY <1>1
  <2>2. PICK m \in i..Len(h) : Group(h, i) = i..m
    BY <1>1, GroupIsARun
  <2>3. m \in Nat /\ i <= m
    BY <1>1, <2>1
  <2>4. Cardinality(i..m) = (m - i) + 1 /\ (m - i) + 1 \in Nat /\ i \in i..m
    BY <2>1, <2>3, FS_Interval
  <2> QED  BY <2>2, <2>4
<1>8. ~(size(a) > size(first(best)))
  BY <1>2, <1>5
<1>9. size(a) \in Nat /\ size(first(best)) \in Nat
  <2> HIDE DEF first, size, best, starts
  <2> QED  BY <1>2, <1>5, <1>7
<1>10. size(a) <= size(first(best))
  <2> HIDE DEF first, size, best
  <2> QED  BY <1>8, <1>9
<1>11. Group(h, first(starts)) # {}
  <2> HIDE DEF first, starts
  <2> QED  BY <1>2, <1>5, <1>7
<1> HIDE DEF first, starts, best
<1> QED  BY <1>6, <1>9, <1>10, <1>11

\* "Nunca passa voluntariamente", "maior grupo legal": whatever the hands, the pile and the
\* sabor, a bot passes only when no adjacent cards can be played, and medium and hard play
\* as many cards as any legal play does (computeBotMove).
THEOREM BotsPlayBest == Spec => []BotPlaysBest
<1>1. ASSUME IInv
      PROVE  BotPlaysBest
  <2> SUFFICES ASSUME phase = "PLAYER_TURN"
               PROVE  LET p     == CurrentPlayer
                          legal == {indices \in Selections(p) : LegalPlay(p, indices)}
                          best  == Cardinality(computeBotMove(p, "hard"))
                      IN  /\ legal # {} => computeBotMove(p, "easy") # {}
                          /\ \A indices \in legal : Cardinality(indices) <= best
    BY DEF BotPlaysBest
  <2> DEFINE p == CurrentPlayer
  <2>1. InPlay
    BY DEF InPlay, Phases
  <2>2. p \in players /\ TableType /\ TrickType
    BY <1>1, <2>1, CurrentIsActive, InPlayFacts DEF ActivePlayers
  <2> HIDE DEF p
  <2>3. ASSUME NEW indices \in Selections(p), LegalPlay(p, indices)
        PROVE  /\ computeBotMove(p, "easy") # {}
               /\ Cardinality(indices) <= Cardinality(computeBotMove(p, "hard"))
    <3>1. PICK a \in 1..Len(hand[p]) :
             /\ LegalPlay(p, Group(hand[p], a))
             /\ Cardinality(indices) <= Cardinality(Group(hand[p], a))
             /\ Cardinality(indices) \in Nat /\ Cardinality(Group(hand[p], a)) \in Nat
      BY <2>2, <2>3, GroupsAreEnough
    <3>2. /\ computeBotMove(p, "easy") # {}
          /\ Cardinality(Group(hand[p], a)) <= Cardinality(computeBotMove(p, "hard"))
          /\ Cardinality(computeBotMove(p, "hard")) \in Nat
      BY <2>2, <3>1, BotMoves
    <3> QED  BY <3>1, <3>2
  <2> QED  BY <2>3 DEF p
<1> QED  BY <1>1, Inductive, PTL DEF Spec
===============================================================================
