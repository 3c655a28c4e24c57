------------------------------ MODULE CardProofs ------------------------------
(***************************************************************************)
(* The cards of a game: none comes into being but by a plate that a play   *)
(* lists twice, and none is missing until a player leaves, whatever is     *)
(* played, drawn, passed or swapped.                                       *)
(*                                                                         *)
(* assertCardIntegrity counts the cards of every value.  The proof follows *)
(* that sum, less what repeated plates have added: what the table holds,   *)
(* the pile, the pile that is offered and the market.  The sum alone is not*)
(* inductive.  A handler forgets a drawn card (applyPassTurn,              *)
(* removePlayerFromGame) or the pile that was offered (applyPlayCards), and*)
(* a new deal counts the hands it does not deal, so CardInv says that there*)
(* is none then.                                                           *)
(***************************************************************************)
EXTENDS GameProofs

HandsHold(h, v)  == SizeOf([s \in players |-> CountOf(h[s], v)])
PlatesHold(d, v) == SizeOf([s \in players |-> d[s][v]])

\* The cards of value v in what the handlers hand on, less those that repeated plates
\* have added.
Held(t, v) ==
  t.drawPile[v] + t.discardPile[v] + HandsHold(t.hand, v) + PlatesHold(t.duelPlates, v)
    + CountOf(t.pendingDraws, v) - t.copied[v]

\* All of them, with the pile, the pile that is offered and the market.
InGame(t, onPile, offered, open, v) ==
  Held(t, v) + CountOf(onPile, v) + CountOf(offered, v) + open[v]

PlatesUsed(passes, plates) ==
  \A s \in players : passes[s] + SizeOf(plates[s]) <= PlatesPerPlayer

\* A leaver's hand was given up; nobody gets cards who has left.
LeaversHoldNone == phase # "GAME_OVER" => \A s \in eliminated : hand[s] = << >>

\* A game that goes on has no loser yet.
LoserAtTheEnd == phase # "GAME_OVER" => gameLoser = None

\* Until the first player leaves, a drawn card waits for the player whose turn it is.
DrawnInTurn ==
  eliminated = {} =>
    \A s \in players : pendingDraws[s] # None =>
      phase = "PASS_PICK" /\ s = CurrentPlayer /\ ~IsDuel

\* A pile is offered only to the player who beat it.
OfferedOnce == phase \notin {"TRICK_PICK", "GAME_OVER"} => trickPileForPick = << >>

CardInv ==
  /\ CopiesAccounted /\ CardIntegrity
  /\ LeaversHoldNone /\ LoserAtTheEnd /\ DrawnInTurn /\ OfferedOnce
  /\ DuelPassesUsePlates

-------------------------------------------------------------------------------
(* The sum. *)

LEMMA ValuesFinite == IsFiniteSet(Values)
<1>1. Values \in SUBSET (1..7)
  BY ValuesAssumption DEF FoodCategories
<1>2. IsFiniteSet(1..7)
  <2>1. 1 \in Int /\ 7 \in Int
    OBVIOUS
  <2> QED  BY <2>1, FS_Interval, Zenon
<1> QED  BY <1>1, <1>2, FS_Subset

\* Every part of the sum is a number.
LEMMA HeldIsNat ==
  ASSUME ConfigType, NEW t \in Tables, NEW v \in Values
  PROVE  /\ t.drawPile[v] \in Nat /\ t.discardPile[v] \in Nat
         /\ HandsHold(t.hand, v) \in Nat /\ PlatesHold(t.duelPlates, v) \in Nat
         /\ CountOf(t.pendingDraws, v) \in Nat /\ t.copied[v] \in Nat
         /\ Held(t, v) \in Int
<1>1. IsFiniteSet(players)
  BY Seats
<1>2. t.drawPile[v] \in Nat /\ t.discardPile[v] \in Nat /\ t.copied[v] \in Nat
  BY DEF Tables, Cards
<1>3. HandsHold(t.hand, v) \in Nat
  <2>1. \A s \in players : t.hand[s] \in Seq(Values)
    BY DEF Tables
  <2>2. [s \in players |-> CountOf(t.hand[s], v)] \in [players -> Nat]
    BY <2>1, CountOfNat
  <2> QED  BY <1>1, <2>2, CardsInFinite DEF HandsHold
<1>4. PlatesHold(t.duelPlates, v) \in Nat
  <2>1. [s \in players |-> t.duelPlates[s][v]] \in [players -> Nat]
    BY DEF Tables, Cards
  <2> QED  BY <1>1, <2>1, CardsInFinite DEF PlatesHold
<1>5. CountOf(t.pendingDraws, v) \in Nat
  <2>1. DOMAIN t.pendingDraws = players
    BY DEF Tables
  <2> QED  BY <1>1, <2>1, CountOfFamily
<1> QED  BY <1>2, <1>3, <1>4, <1>5 DEF Held

\* The sum of the engine's fields is the sum of assertCardIntegrity, but for the copies.
CountsAgree ==
  \A v \in Values :
    /\ CountsByValue(v) = InGame(Table, pile, trickPileForPick, market, v) + copied[v]
    /\ copied[v] \in Nat
    /\ Held(Table, v) \in Int /\ CountOf(pile, v) \in Nat
    /\ CountOf(trickPileForPick, v) \in Nat /\ market[v] \in Nat

LEMMA CountsNow == TypeOK => CountsAgree
<1> SUFFICES ASSUME TypeOK, NEW v \in Values
             PROVE  /\ CountsByValue(v)
                         = InGame(Table, pile, trickPileForPick, market, v) + copied[v]
                    /\ copied[v] \in Nat
                    /\ Held(Table, v) \in Int /\ CountOf(pile, v) \in Nat
                    /\ CountOf(trickPileForPick, v) \in Nat /\ market[v] \in Nat
  BY DEF CountsAgree
<1>1. ConfigType /\ Table \in Tables
  BY TableTyped DEF TypeOK
<1>2. /\ Table.drawPile = drawPile /\ Table.discardPile = discardPile /\ Table.hand = hand
      /\ Table.duelPlates = duelPlates /\ Table.pendingDraws = pendingDraws
      /\ Table.copied = copied
  BY DEF Table
<1>3. /\ drawPile[v] \in Nat /\ discardPile[v] \in Nat
      /\ HandsHold(hand, v) \in Nat /\ PlatesHold(duelPlates, v) \in Nat
      /\ CountOf(pendingDraws, v) \in Nat /\ copied[v] \in Nat
      /\ Held(Table, v) \in Int
  BY <1>1, <1>2, HeldIsNat
<1>4. CountOf(pile, v) \in Nat /\ CountOf(trickPileForPick, v) \in Nat /\ market[v] \in Nat
  BY CountOfNat DEF TypeOK, TrickType, TurnType, Cards
<1>5. InHands(v) = HandsHold(hand, v) /\ OnPlates(v) = PlatesHold(duelPlates, v)
      /\ Pending(v) = CountOf(pendingDraws, v)
  BY DEF InHands, OnPlates, Pending, HandsHold, PlatesHold
<1>6. Held(Table, v) = drawPile[v] + discardPile[v] + HandsHold(hand, v)
                         + PlatesHold(duelPlates, v) + CountOf(pendingDraws, v) - copied[v]
  BY <1>2 DEF Held
<1>7. CountsByValue(v) = Held(Table, v) + CountOf(pile, v) + CountOf(trickPileForPick, v)
                           + market[v] + copied[v]
  BY <1>3, <1>4, <1>5, <1>6 DEF CountsByValue
<1> QED  BY <1>3, <1>4, <1>7 DEF InGame

LEMMA CountsThen == TypeOK' => CountsAgree'
BY CountsNow, PTL

\* The same after a handler that has set the table.
LEMMA CountsNext ==
  ASSUME ConfigType, TypeOK', UNCHANGED players,
         NEW t \in Tables, SetTable(t), NEW v \in Values
  PROVE  /\ CountsByValue(v)' = InGame(t, pile', trickPileForPick', market', v) + copied'[v]
         /\ copied'[v] \in Nat /\ Held(t, v) \in Int
         /\ CountOf(pile', v) \in Nat /\ CountOf(trickPileForPick', v) \in Nat
         /\ market'[v] \in Nat
<1>1. /\ CountsByValue(v)' = InGame(Table, pile, trickPileForPick, market, v)' + copied'[v]
      /\ copied'[v] \in Nat
      /\ CountOf(pile, v)' \in Nat /\ CountOf(trickPileForPick, v)' \in Nat
      /\ (market[v])' \in Nat
  BY CountsThen DEF CountsAgree
<1>2. InGame(Table, pile, trickPileForPick, market, v)'
        = InGame(t, pile', trickPileForPick', market', v)
  BY DEF InGame, Held, Table, SetTable, HandsHold, PlatesHold
<1>3. CountOf(pile, v)' = CountOf(pile', v)
      /\ CountOf(trickPileForPick, v)' = CountOf(trickPileForPick', v)
  BY DEF CountOf
<1>4. Held(t, v) \in Int
  BY HeldIsNat
<1> QED  BY <1>1, <1>2, <1>3, <1>4

-------------------------------------------------------------------------------
(* What a change of the table changes of the sum. *)

\* What two tables hold differs by what their parts do.
LEMMA HeldDiffers ==
  ASSUME ConfigType, NEW t \in Tables, NEW u \in Tables, NEW v \in Values
  PROVE  /\ u.drawPile[v] - t.drawPile[v] \in Int
         /\ u.discardPile[v] - t.discardPile[v] \in Int
         /\ HandsHold(u.hand, v) - HandsHold(t.hand, v) \in Int
         /\ PlatesHold(u.duelPlates, v) - PlatesHold(t.duelPlates, v) \in Int
         /\ CountOf(u.pendingDraws, v) - CountOf(t.pendingDraws, v) \in Int
         /\ u.copied[v] - t.copied[v] \in Int
         /\ Held(t, v) \in Int
         /\ Held(u, v) = Held(t, v) + (u.drawPile[v] - t.drawPile[v])
                           + (u.discardPile[v] - t.discardPile[v])
                           + (HandsHold(u.hand, v) - HandsHold(t.hand, v))
                           + (PlatesHold(u.duelPlates, v) - PlatesHold(t.duelPlates, v))
                           + (CountOf(u.pendingDraws, v) - CountOf(t.pendingDraws, v))
                           - (u.copied[v] - t.copied[v])
<1>1. /\ t.drawPile[v] \in Nat /\ t.discardPile[v] \in Nat
      /\ HandsHold(t.hand, v) \in Nat /\ PlatesHold(t.duelPlates, v) \in Nat
      /\ CountOf(t.pendingDraws, v) \in Nat /\ t.copied[v] \in Nat /\ Held(t, v) \in Int
  BY HeldIsNat
<1>2. /\ u.drawPile[v] \in Nat /\ u.discardPile[v] \in Nat
      /\ HandsHold(u.hand, v) \in Nat /\ PlatesHold(u.duelPlates, v) \in Nat
      /\ CountOf(u.pendingDraws, v) \in Nat /\ u.copied[v] \in Nat
  BY HeldIsNat
<1>3. Held(t, v) = t.drawPile[v] + t.discardPile[v] + HandsHold(t.hand, v)
                     + PlatesHold(t.duelPlates, v) + CountOf(t.pendingDraws, v) - t.copied[v]
  BY DEF Held
<1>4. Held(u, v) = u.drawPile[v] + u.discardPile[v] + HandsHold(u.hand, v)
                     + PlatesHold(u.duelPlates, v) + CountOf(u.pendingDraws, v) - u.copied[v]
  BY DEF Held
<1> QED  BY <1>1, <1>2, <1>3, <1>4

\* The same when no plate is listed twice.
LEMMA HeldChanges ==
  ASSUME ConfigType, NEW t \in Tables, NEW u \in Tables, NEW v \in Values,
         u.copied = t.copied
  PROVE  /\ Held(t, v) \in Int
         /\ Held(u, v) = Held(t, v) + (u.drawPile[v] - t.drawPile[v])
                           + (u.discardPile[v] - t.discardPile[v])
                           + (HandsHold(u.hand, v) - HandsHold(t.hand, v))
                           + (PlatesHold(u.duelPlates, v) - PlatesHold(t.duelPlates, v))
                           + (CountOf(u.pendingDraws, v) - CountOf(t.pendingDraws, v))
<1>1. u.copied[v] - t.copied[v] = 0
  BY HeldIsNat
<1> QED  BY <1>1, HeldDiffers

\* One hand changes.
LEMMA HandChanges ==
  ASSUME ConfigType, NEW h \in [players -> Seq(Values)], NEW g \in [players -> Seq(Values)],
         NEW p \in players, \A s \in players \ {p} : g[s] = h[s], NEW v \in Values
  PROVE  /\ CountOf(h[p], v) \in Nat /\ CountOf(g[p], v) \in Nat /\ HandsHold(h, v) \in Nat
         /\ HandsHold(g, v) = HandsHold(h, v) - CountOf(h[p], v) + CountOf(g[p], v)
<1> DEFINE b == [s \in players |-> CountOf(h[s], v)]
           n == CountOf(g[p], v)
<1>1. IsFiniteSet(players)
  BY Seats
<1>2. b \in [players -> Nat] /\ n \in Nat /\ b[p] = CountOf(h[p], v)
  BY CountOfNat
<1>3. [s \in players |-> CountOf(g[s], v)] = [b EXCEPT ![p] = n]
  OBVIOUS
<1>4. SizeOf([b EXCEPT ![p] = n]) = SizeOf(b) - b[p] + n /\ SizeOf(b) \in Nat
  <2> HIDE DEF b, n
  <2> QED  BY <1>1, <1>2, SizeOfExcept, CardsInFinite
<1>5. HandsHold(h, v) = SizeOf(b) /\ HandsHold(g, v) = SizeOf([b EXCEPT ![p] = n])
  BY <1>3 DEF HandsHold
<1>6. b[p] \in Nat
  BY <1>2
<1> HIDE DEF b
<1> QED  BY <1>2, <1>4, <1>5, <1>6

\* The plates of one player change.
LEMMA PlatesChange ==
  ASSUME ConfigType, NEW d \in [players -> Cards], NEW e \in [players -> Cards],
         NEW p \in players, \A s \in players \ {p} : e[s] = d[s], NEW v \in Values
  PROVE  /\ d[p][v] \in Nat /\ e[p][v] \in Nat /\ PlatesHold(d, v) \in Nat
         /\ PlatesHold(e, v) = PlatesHold(d, v) - d[p][v] + e[p][v]
<1> DEFINE b == [s \in players |-> d[s][v]]
           n == e[p][v]
<1>1. IsFiniteSet(players)
  BY Seats
<1>2. b \in [players -> Nat] /\ n \in Nat /\ b[p] = d[p][v]
  BY DEF Cards
<1>3. [s \in players |-> e[s][v]] = [b EXCEPT ![p] = n]
  OBVIOUS
<1>4. SizeOf([b EXCEPT ![p] = n]) = SizeOf(b) - b[p] + n /\ SizeOf(b) \in Nat
  <2> HIDE DEF b, n
  <2> QED  BY <1>1, <1>2, SizeOfExcept, CardsInFinite
<1>5. PlatesHold(d, v) = SizeOf(b) /\ PlatesHold(e, v) = SizeOf([b EXCEPT ![p] = n])
  BY <1>3 DEF PlatesHold
<1>6. b[p] \in Nat
  BY <1>2
<1> HIDE DEF b
<1> QED  BY <1>2, <1>4, <1>5, <1>6

\* The drawn card of one player changes.
LEMMA DrawnChanges ==
  ASSUME ConfigType, NEW d \in [players -> Values \union {None}], NEW p \in players,
         NEW c \in Values \union {None}, NEW v \in Values
  PROVE  /\ CountOf(d, v) \in Nat /\ CountOf([d EXCEPT ![p] = c], v) \in Nat
         /\ CountOf([d EXCEPT ![p] = c], v)
              = CountOf(d, v) - One(d[p], v) + One(c, v)
<1> DEFINE e == [d EXCEPT ![p] = c]
<1>1. IsFiniteSet(players) /\ DOMAIN d = players /\ DOMAIN e = players
  BY Seats
<1>2. CountOf(d, v) \in Nat
  BY <1>1, CountOfFamily
<1>3. CountOf(e, v) \in Nat
  <2> HIDE DEF e
  <2> QED  BY <1>1, CountOfFamily
<1>4. CountOf(e, v) = CountOf(d, v) - One(d[p], v) + One(c, v)
  <2>1. e[p] = c /\ \A s \in players \ {p} : e[s] = d[s]
    OBVIOUS
  <2> HIDE DEF e
  <2>2. CountOf(e, v) = CountOf(d, v) - One(d[p], v) + One(e[p], v)
    BY <1>1, <2>1, CountOfExcept
  <2> QED  BY <2>1, <2>2
<1> QED  BY <1>2, <1>3, <1>4

\* Cards put on a bag.
LEMMA PlusHolds ==
  ASSUME NEW b \in Cards, NEW cards \in Seq(Values), NEW v \in Values
  PROVE  Plus(b, cards)[v] = b[v] + CountOf(cards, v)
BY DEF Plus

-------------------------------------------------------------------------------
(* A new round. *)

\* Nobody has a plate.
LEMMA NoPlates ==
  ASSUME NEW v \in Values
  PROVE  PlatesHold([s \in players |-> NoCards], v) = 0
<1> DEFINE d == [s \in players |-> NoCards]
           b == [s \in players |-> d[s][v]]
<1>1. b \in [players -> Nat] /\ \A s \in players : b[s] = 0
  BY DEF NoCards
<1>2. SizeOf(b) = 0
  <2> HIDE DEF b
  <2> QED  BY <1>1, SizeOfNothing
<1> QED  BY <1>2 DEF PlatesHold

\* Nobody has drawn a card.
LEMMA NoneDrawn ==
  ASSUME NEW v \in Values, NEW d, \A s \in DOMAIN d : d[s] = None
  PROVE  CountOf(d, v) = 0
<1>1. v # None
  BY ValuesAreNat DEF None
<1>2. {s \in DOMAIN d : d[s] = v} = {}
  BY <1>1
<1> QED  BY <1>2, FS_EmptySet DEF CountOf

\* A deal puts every copy of every card somewhere, when those who are not dealt to
\* hold none.
LEMMA DealsAll ==
  ASSUME ConfigType, NEW t \in Tables, NEW active \in SUBSET players,
         Cardinality(active) \in 2..6, NEW d \in Deals(t, active),
         \A s \in players \ active : t.hand[s] = << >>
  PROVE  /\ \A v \in Values : Held(d, v) = CopiesPerValue
         /\ \A s \in players \ active : d.hand[s] = << >>
         /\ \A s \in players : d.pendingDraws[s] = None
         /\ d.duelPlates = [s \in players |-> NoCards]
         /\ d.duelPassCount = [s \in players |-> 0]
         /\ d.copied = NoCards
<1> DEFINE size        == HandSize[Cardinality(active)]
           dealt(h, v) == SizeOf([s \in active |-> CountOf(h[s], v)])
<1>1. PICK h \in [active -> [1..size -> Values]] :
        d = [hand          |-> [s \in players |-> IF s \in active THEN h[s] ELSE t.hand[s]],
             drawPile      |-> [v \in Values |-> CopiesPerValue - dealt(h, v)],
             discardPile   |-> NoCards,
             pendingDraws  |-> [s \in players |-> None],
             duelPlates    |-> [s \in players |-> NoCards],
             duelPassCount |-> [s \in players |-> 0],
             copied        |-> NoCards]
  BY DEF Deals
<1>2. d \in Tables
  BY DealsTyped
<1>3. ASSUME NEW v \in Values
      PROVE  Held(d, v) = CopiesPerValue
  <2> DEFINE b == [s \in players |-> CountOf(d.hand[s], v)]
  <2>1. b \in [players -> Nat]
    BY <1>2, CountOfNat DEF Tables
  <2>2. \A s \in players \ active : b[s] = 0
    BY <1>1, CountOfFew
  <2> DEFINE c == [s \in active |-> CountOf(h[s], v)]
  <2>3. c \in [active -> Nat] /\ \A s \in active : c[s] = b[s]
    <3>1. \A s \in active : d.hand[s] = h[s]
      BY <1>1
    <3> QED  BY <2>1, <3>1
  <2>4. SizeOf(c) = SizeOf(b)
    <3> HIDE DEF b, c
    <3>1. DOMAIN c = active /\ DOMAIN b = players
      BY <2>1, <2>3
    <3> QED  BY <2>2, <2>3, <3>1, SizeOfPart
  <2>5. HandsHold(d.hand, v) = dealt(h, v)
    BY <2>4 DEF HandsHold
  <2>6. d.drawPile[v] = CopiesPerValue - dealt(h, v) /\ d.discardPile[v] = 0
        /\ d.copied[v] = 0
    BY <1>1 DEF NoCards
  <2>7. PlatesHold(d.duelPlates, v) = 0
    BY <1>1, NoPlates
  <2>8. CountOf(d.pendingDraws, v) = 0
    <3>1. \A s \in DOMAIN d.pendingDraws : d.pendingDraws[s] = None
      BY <1>1
    <3> QED  BY <3>1, NoneDrawn
  <2>9. HandsHold(d.hand, v) \in Nat /\ CopiesPerValue \in Nat
    BY <1>2, HeldIsNat, EngineAssumption
  <2> HIDE DEF dealt
  <2> QED  BY <2>5, <2>6, <2>7, <2>8, <2>9 DEF Held
<1> QED  BY <1>1, <1>3

\* Cards moved off the draw pile are off it.
LEMMA SpliceLeaves ==
  ASSUME ConfigType, NEW t \in Tables, NEW c \in Cards, Minus(t.drawPile, c) \in Cards,
         NEW v \in Values
  PROVE  Held([t EXCEPT !.drawPile = Minus(t.drawPile, c)], v) + c[v] = Held(t, v)
<1> DEFINE u == [t EXCEPT !.drawPile = Minus(t.drawPile, c)]
<1>1. u \in Tables
  BY DEF Tables
<1>2. /\ u.drawPile[v] = t.drawPile[v] - c[v] /\ u.discardPile = t.discardPile
      /\ u.hand = t.hand /\ u.duelPlates = t.duelPlates /\ u.pendingDraws = t.pendingDraws
      /\ u.copied = t.copied
  BY DEF Minus, Tables
<1>3. /\ t.drawPile[v] \in Nat /\ t.discardPile[v] \in Nat /\ c[v] \in Nat
      /\ HandsHold(t.hand, v) \in Nat /\ PlatesHold(t.duelPlates, v) \in Nat
      /\ CountOf(t.pendingDraws, v) \in Nat /\ t.copied[v] \in Nat
  BY HeldIsNat DEF Cards
<1> HIDE DEF u
<1>4. Held(u, v) + c[v] = Held(t, v)
  BY <1>2, <1>3 DEF Held
<1> QED  BY <1>4 DEF u

\* A splice of two cards has two cards at most.
LEMMA SpliceSize ==
  ASSUME NEW b \in Cards, NEW k \in Nat, NEW c \in Splice(b, k)
  PROVE  SizeOf(c) <= k
<1>1. SizeOf(b) \in Nat
  BY ValuesFinite, CardsInFinite DEF Cards
<1>2. SizeOf(c) = IF SizeOf(b) < k THEN SizeOf(b) ELSE k
  BY DEF Splice
<1> QED  BY <1>1, <1>2

\* Two plates each for the two of a duel, off the draw pile.
LEMMA PlatesOfTwo ==
  ASSUME ConfigType, NEW active \in SUBSET players, Cardinality(active) = 2,
         NEW first \in Cards, NEW second \in Cards,
         NEW plates \in [players -> Cards],
         \A s \in players : plates[s] = IF s \notin active THEN NoCards
                                        ELSE IF s = SeatAt(active, 0) THEN first ELSE second,
         NEW v \in Values
  PROVE  PlatesHold(plates, v) = first[v] + second[v]
<1> DEFINE a    == SeatAt(active, 0)
           none == [s \in players |-> NoCards]
           one  == [none EXCEPT ![a] = first]
<1>1. active \in SUBSET Nat /\ IsFiniteSet(active) /\ active # {}
  BY Seats, FS_Subset, FS_EmptySet
<1>2. a \in active /\ a \in players
  BY <1>1, SeatAtPlace
<1>3. IsFiniteSet(active \ {a}) /\ Cardinality(active \ {a}) = 1
  <2> HIDE DEF a
  <2> QED  BY <1>1, <1>2, FS_RemoveElement
<1>4. PICK b : active \ {a} = {b}
  <2> HIDE DEF a
  <2> QED  BY <1>3, FS_Singleton
<1>5. b \in players /\ b # a /\ \A s \in active : s = a \/ s = b
  BY <1>4
<1>6. none \in [players -> Cards] /\ one \in [players -> Cards]
  BY <1>2, NoCardsType
<1>7. plates = [one EXCEPT ![b] = second]
  <2> HIDE DEF a
  <2>1. \A s \in players : plates[s] = [one EXCEPT ![b] = second][s]
    BY <1>2, <1>4, <1>5, <1>6 DEF a
  <2> QED  BY <1>6, <2>1
<1>8. PlatesHold(none, v) = 0 /\ none[a][v] = 0 /\ one[b][v] = 0
  BY <1>2, <1>5, NoPlates DEF NoCards
<1>9. PlatesHold(one, v) = PlatesHold(none, v) - none[a][v] + first[v]
  <2>1. one[a] = first /\ \A s \in players \ {a} : one[s] = none[s]
    BY <1>2
  <2> HIDE DEF a, none, one
  <2>2. PlatesHold(one, v) = PlatesHold(none, v) - none[a][v] + one[a][v]
    BY <1>2, <1>6, <2>1, PlatesChange
  <2> QED  BY <2>1, <2>2
<1>10. PlatesHold(plates, v) = PlatesHold(one, v) - one[b][v] + second[v]
  <2>1. plates[b] = second /\ \A s \in players \ {b} : plates[s] = one[s]
    BY <1>5, <1>6, <1>7
  <2> HIDE DEF one
  <2>2. PlatesHold(plates, v) = PlatesHold(one, v) - one[b][v] + plates[b][v]
    BY <1>5, <1>6, <2>1, PlatesChange
  <2> QED  BY <2>1, <2>2
<1>11. first[v] \in Nat /\ second[v] \in Nat
  BY DEF Cards
<1> HIDE DEF one, none, a
<1> QED  BY <1>7, <1>8, <1>9, <1>10, <1>11

\* The end of startRound: it loses no cards but plates that lay there already.
LEMMA DealPlatesKeeps ==
  ASSUME ConfigType, NEW active \in SUBSET players, NEW t \in Tables,
         PlatesUsed(t.duelPassCount, t.duelPlates), DealPlates(active, t)
  PROVE  \E u \in Tables :
           /\ SetTable(u) /\ u.hand = t.hand /\ u.pendingDraws = t.pendingDraws
           /\ PlatesUsed(u.duelPassCount, u.duelPlates)
           /\ \A v \in Values : Held(u, v) <= Held(t, v)
           /\ t.duelPlates = [s \in players |-> NoCards] =>
                \A v \in Values : Held(u, v) = Held(t, v)
<1>1. CASE Cardinality(active) = 2
  <2>0. PICK first \in Splice(t.drawPile, PlatesPerPlayer) :
          \E second \in Splice(Minus(t.drawPile, first), PlatesPerPlayer) :
            SetTable([t EXCEPT
             !.drawPile = Minus(Minus(t.drawPile, first), second),
             !.duelPlates = [s \in players |-> IF s \notin active THEN NoCards
                                               ELSE IF s = SeatAt(active, 0) THEN first
                                               ELSE second],
             !.duelPassCount = [s \in players |-> 0]])
    BY <1>1 DEF DealPlates
  <2>1. PICK second \in Splice(Minus(t.drawPile, first), PlatesPerPlayer) :
          SetTable([t EXCEPT
           !.drawPile = Minus(Minus(t.drawPile, first), second),
           !.duelPlates = [s \in players |-> IF s \notin active THEN NoCards
                                             ELSE IF s = SeatAt(active, 0) THEN first
                                             ELSE second],
           !.duelPassCount = [s \in players |-> 0]])
    BY <2>0
  <2> DEFINE plates == [s \in players |-> IF s \notin active THEN NoCards
                                          ELSE IF s = SeatAt(active, 0) THEN first
                                          ELSE second]
             rest   == Minus(Minus(t.drawPile, first), second)
             u      == [t EXCEPT !.drawPile = rest, !.duelPlates = plates,
                                 !.duelPassCount = [s \in players |-> 0]]
  <2>2. t.drawPile \in Cards /\ PlatesPerPlayer \in Nat
    BY DEF Tables, PlatesPerPlayer
  <2>3. first \in Cards /\ Minus(t.drawPile, first) \in Cards
    BY <2>2, SpliceType
  <2>4. second \in Cards /\ rest \in Cards
    BY <2>2, <2>3, SpliceType
  <2>5. plates \in [players -> Cards]
    BY <2>3, <2>4, NoCardsType
  <2>6. /\ u.drawPile = rest /\ u.discardPile = t.discardPile /\ u.hand = t.hand
        /\ u.pendingDraws = t.pendingDraws /\ u.duelPlates = plates
        /\ u.duelPassCount = [s \in players |-> 0] /\ u.copied = t.copied
    <3> HIDE DEF rest, plates
    <3> QED  BY DEF Tables
  <2>7. u \in Tables
    <3> HIDE DEF rest, plates
    <3> QED  BY <2>4, <2>5 DEF Tables
  <2>8. SetTable(u)
    BY <2>1
  <2>9. PlatesUsed(u.duelPassCount, u.duelPlates)
    <3>1. SizeOf(first) <= PlatesPerPlayer /\ SizeOf(second) <= PlatesPerPlayer
      BY <2>2, <2>3, SpliceSize
    <3>2. SizeOf(NoCards) = 0
      <4>1. NoCards \in [Values -> Nat] /\ \A v \in Values : NoCards[v] = 0
        BY DEF NoCards
      <4> QED  BY <4>1, SizeOfNothing
    <3>3. SizeOf(first) \in Nat /\ SizeOf(second) \in Nat
      BY <2>3, <2>4, ValuesFinite, CardsInFinite DEF Cards
    <3>4. \A s \in players : plates[s] = NoCards \/ plates[s] = first \/ plates[s] = second
      OBVIOUS
    <3>5. \A s \in players : SizeOf(plates[s]) <= PlatesPerPlayer /\ SizeOf(plates[s]) \in Nat
      <4> HIDE DEF plates
      <4> QED  BY <2>2, <3>1, <3>2, <3>3, <3>4 DEF PlatesPerPlayer
    <3> HIDE DEF plates, u
    <3> QED  BY <2>6, <3>5 DEF PlatesUsed
  <2>10. ASSUME NEW v \in Values
         PROVE  /\ Held(u, v) + PlatesHold(t.duelPlates, v) = Held(t, v)
                /\ PlatesHold(t.duelPlates, v) \in Nat /\ Held(u, v) \in Int
    <3>1. PlatesHold(plates, v) = first[v] + second[v]
      <4>1. \A s \in players : plates[s] = IF s \notin active THEN NoCards
                                           ELSE IF s = SeatAt(active, 0) THEN first ELSE second
        OBVIOUS
      <4> HIDE DEF plates
      <4> QED  BY <1>1, <2>3, <2>4, <2>5, <4>1, PlatesOfTwo
    <3>2. rest[v] = t.drawPile[v] - first[v] - second[v]
      BY DEF Minus
    <3>3. /\ t.drawPile[v] \in Nat /\ t.discardPile[v] \in Nat
          /\ HandsHold(t.hand, v) \in Nat /\ PlatesHold(t.duelPlates, v) \in Nat
          /\ CountOf(t.pendingDraws, v) \in Nat /\ t.copied[v] \in Nat
      BY HeldIsNat
    <3>4. first[v] \in Nat /\ second[v] \in Nat
      BY <2>3, <2>4 DEF Cards
    <3>5. Held(u, v) \in Int
      <4> HIDE DEF u
      <4> QED  BY <2>7, HeldIsNat
    <3> HIDE DEF rest, plates, u
    <3> QED  BY <2>6, <3>1, <3>2, <3>3, <3>4, <3>5 DEF Held
  <2>11. ASSUME t.duelPlates = [s \in players |-> NoCards], NEW v \in Values
         PROVE  Held(u, v) = Held(t, v)
    <3>1. PlatesHold(t.duelPlates, v) = 0
      BY <2>11, NoPlates
    <3> HIDE DEF u
    <3> QED  BY <2>10, <3>1
  <2>12. ASSUME NEW v \in Values
         PROVE  Held(u, v) <= Held(t, v)
    <3>1. /\ Held(u, v) + PlatesHold(t.duelPlates, v) = Held(t, v)
          /\ PlatesHold(t.duelPlates, v) \in Nat /\ Held(u, v) \in Int
      BY <2>10
    <3> HIDE DEF u
    <3> QED  BY <3>1
  <2> HIDE DEF u, plates, rest
  <2> QED  BY <2>6, <2>7, <2>8, <2>9, <2>11, <2>12
<1>2. CASE Cardinality(active) # 2
  <2>1. SetTable(t)
    BY <1>2 DEF DealPlates
  <2>3. ASSUME NEW v \in Values
        PROVE  Held(t, v) <= Held(t, v)
    <3>1. Held(t, v) \in Int
      BY HeldIsNat
    <3> QED  BY <3>1
  <2> QED  BY <2>1, <2>3
<1> QED  BY <1>1, <1>2

\* startRound: with the cards dealt anew none is missing; RODIZIO keeps its cards, but
\* for the plates that new ones are dealt over.
LEMMA StartRoundCards ==
  ASSUME ConfigType, TypeOK', UNCHANGED config, NEW t \in Tables,
         NEW elim \in SUBSET players, Cardinality(players \ elim) >= 2,
         NEW winner, NEW wiper, StartRound(t, elim, winner, wiper),
         \A s \in elim : t.hand[s] = << >>,
         \A v \in Values : Held(t, v) <= CopiesPerValue,
         elim = {} => \A s \in players : t.pendingDraws[s] = None,
         PlatesUsed(t.duelPassCount, t.duelPlates)
  PROVE  /\ \A v \in Values : CountsByValue(v)' <= CopiesPerValue + copied'[v]
         /\ mode # "RODIZIO" =>
              \A v \in Values : CountsByValue(v)' = CopiesPerValue + copied'[v]
         /\ \A s \in elim : hand'[s] = << >>
         /\ elim = {} => \A s \in players : pendingDraws'[s] = None
         /\ DuelPassesUsePlates'
<1> DEFINE active == players \ elim
           deals  == IF ~(mode = "RODIZIO" /\ round + 1 > 1) THEN Deals(t, active) ELSE {t}
           markets(d) == IF mode = "MERCADO" THEN Splice(d.drawPile, MarketSize) ELSE {NoCards}
<1>1. active \in SUBSET players /\ Cardinality(active) \in 2..6
  BY StillActive
<1>2. PICK d \in deals :
        \E m \in markets(d) :
           market' = m /\ DealPlates(active, [d EXCEPT !.drawPile = Minus(d.drawPile, m)])
  BY DEF StartRound
<1>3. PICK m \in markets(d) :
        market' = m /\ DealPlates(active, [d EXCEPT !.drawPile = Minus(d.drawPile, m)])
  BY <1>2
<1>4. \A s \in players \ active : t.hand[s] = << >>
  OBVIOUS
<1>5. /\ d \in Tables
      /\ \A s \in elim : d.hand[s] = << >>
      /\ PlatesUsed(d.duelPassCount, d.duelPlates)
      /\ elim = {} => \A s \in players : d.pendingDraws[s] = None
      /\ \A v \in Values : Held(d, v) <= CopiesPerValue
      /\ mode # "RODIZIO" => /\ \A v \in Values : Held(d, v) = CopiesPerValue
                             /\ d.duelPlates = [s \in players |-> NoCards]
  <2>1. CASE d \in Deals(t, active)
    <3>1. /\ \A v \in Values : Held(d, v) = CopiesPerValue
          /\ \A s \in players \ active : d.hand[s] = << >>
          /\ \A s \in players : d.pendingDraws[s] = None
          /\ d.duelPlates = [s \in players |-> NoCards]
          /\ d.duelPassCount = [s \in players |-> 0]
      <4> HIDE DEF active
      <4> QED  BY <1>1, <1>4, <2>1, DealsAll
    <3>2. d \in Tables
      <4> HIDE DEF active
      <4> QED  BY <1>1, <2>1, DealsTyped
    <3>3. PlatesUsed(d.duelPassCount, d.duelPlates)
      <4>1. SizeOf(NoCards) = 0
        <5>1. NoCards \in [Values -> Nat] /\ \A v \in Values : NoCards[v] = 0
          BY DEF NoCards
        <5> QED  BY <5>1, SizeOfNothing
      <4> QED  BY <3>1, <4>1 DEF PlatesUsed, PlatesPerPlayer
    <3>4. \A v \in Values : Held(d, v) <= CopiesPerValue
      BY <3>1, EngineAssumption
    <3>5. \A s \in elim : d.hand[s] = << >>
      BY <3>1
    <3> QED  BY <3>1, <3>2, <3>3, <3>4, <3>5
  <2>2. CASE d = t /\ mode = "RODIZIO"
    BY <2>2
  <2> QED  BY <1>2, <2>1, <2>2
<1>6. m \in Cards /\ Minus(d.drawPile, m) \in Cards
  <2>1. d.drawPile \in Cards
    BY <1>5 DEF Tables
  <2>2. CASE mode = "MERCADO"
    BY <1>3, <2>1, <2>2, SpliceType, EngineAssumption
  <2>3. CASE mode # "MERCADO"
    <3>1. m = NoCards
      BY <1>3, <2>3
    <3>2. Minus(d.drawPile, NoCards) \in Cards
      BY <2>1 DEF Minus, NoCards, Cards
    <3> QED  BY <3>1, <3>2, NoCardsType
  <2> QED  BY <2>2, <2>3
<1> DEFINE e == [d EXCEPT !.drawPile = Minus(d.drawPile, m)]
<1>7. /\ e \in Tables /\ e.hand = d.hand /\ e.pendingDraws = d.pendingDraws
      /\ e.duelPlates = d.duelPlates /\ e.duelPassCount = d.duelPassCount
  BY <1>5, <1>6 DEF Tables
<1>8. PICK u \in Tables :
           /\ SetTable(u) /\ u.hand = e.hand /\ u.pendingDraws = e.pendingDraws
           /\ PlatesUsed(u.duelPassCount, u.duelPlates)
           /\ \A v \in Values : Held(u, v) <= Held(e, v)
           /\ e.duelPlates = [s \in players |-> NoCards] =>
                \A v \in Values : Held(u, v) = Held(e, v)
  <2>1. PlatesUsed(e.duelPassCount, e.duelPlates) /\ DealPlates(active, e)
    BY <1>3, <1>5, <1>7
  <2> HIDE DEF e, active
  <2> QED  BY <1>1, <1>7, <2>1, DealPlatesKeeps
<1>9. pile' = << >> /\ trickPileForPick' = << >>
  BY DEF StartRound
<1>10. UNCHANGED players /\ UNCHANGED mode
  BY DEF config
<1>11. ASSUME NEW v \in Values
       PROVE  /\ CountsByValue(v)' <= CopiesPerValue + copied'[v]
              /\ mode # "RODIZIO" => CountsByValue(v)' = CopiesPerValue + copied'[v]
  <2>1. CountsByValue(v)' = InGame(u, pile', trickPileForPick', market', v) + copied'[v]
        /\ copied'[v] \in Nat
    BY <1>8, <1>10, CountsNext
  <2>2. CountOf(pile', v) = 0 /\ CountOf(trickPileForPick', v) = 0 /\ market'[v] = m[v]
    BY <1>3, <1>9, CountOfFew
  <2>3. Held(e, v) + m[v] = Held(d, v)
    BY <1>5, <1>6, SpliceLeaves
  <2>4. /\ Held(u, v) \in Int /\ Held(e, v) \in Int /\ Held(d, v) \in Int /\ m[v] \in Nat
        /\ CopiesPerValue \in Nat
    <3>1. Held(u, v) \in Int /\ Held(d, v) \in Int
      BY <1>5, <1>8, HeldIsNat
    <3>2. Held(e, v) \in Int
      <4> HIDE DEF e
      <4> QED  BY <1>7, HeldIsNat
    <3> QED  BY <1>6, <3>1, <3>2, EngineAssumption DEF Cards
  <2>5. Held(u, v) <= Held(e, v) /\ Held(d, v) <= CopiesPerValue
    BY <1>5, <1>8
  <2>6. mode # "RODIZIO" => Held(u, v) = Held(e, v) /\ Held(d, v) = CopiesPerValue
    BY <1>5, <1>7, <1>8
  <2>7. CountsByValue(v)' = Held(u, v) + m[v] + copied'[v]
    BY <2>1, <2>2, <2>4 DEF InGame
  <2> HIDE DEF e
  <2> QED  BY <2>1, <2>3, <2>4, <2>5, <2>6, <2>7
<1>12. hand' = d.hand /\ pendingDraws' = d.pendingDraws
  BY <1>7, <1>8 DEF SetTable
<1>13. DuelPassesUsePlates'
  BY <1>8, <1>10 DEF DuelPassesUsePlates, PlatesUsed, SetTable
<1> QED  BY <1>5, <1>11, <1>12, <1>13

\* rotateHands passes every hand to one other player.
LEMMA RotateKeeps ==
  ASSUME ConfigType, NEW t \in Tables, NEW elim \in SUBSET players,
         Cardinality(players \ elim) >= 2, NEW v \in Values
  PROVE  HandsHold(RotateHands(t.hand, players \ elim), v) <= HandsHold(t.hand, v)
<1> DEFINE active == players \ elim
           n      == Cardinality(active)
           f == [s \in players |-> IF s \in active THEN SeatAt(active, IndexOf(active, s) + 1)
                                   ELSE s]
           b == [s \in players |-> CountOf(t.hand[s], v)]
           h == RotateHands(t.hand, active)
<1>1. active \in SUBSET Nat /\ IsFiniteSet(active) /\ active # {} /\ n \in 2..6
      /\ active \in SUBSET players /\ IsFiniteSet(players)
  BY StillActive, Seats
<1>2. ASSUME NEW s \in active
      PROVE  /\ IndexOf(active, s) \in 0..(n - 1)
             /\ SeatAt(active, IndexOf(active, s) + 1) \in active
             /\ IndexOf(active, SeatAt(active, IndexOf(active, s) + 1)) = (IndexOf(active, s) + 1) % n
  <2>1. IndexOf(active, s) \in 0..(n - 1)
    <3> HIDE DEF active
    <3> QED  BY <1>1, IndexOfRange
  <2>2. IndexOf(active, s) + 1 \in Nat
    BY <1>1, <2>1
  <2> HIDE DEF active
  <2> QED  BY <1>1, <2>1, <2>2, SeatAtPlace
<1>3. \A s \in active : SeatAt(active, IndexOf(active, s)) = s
  <2> TAKE s \in active
  <2>1. IndexOf(active, s) \in 0..(n - 1)
    BY <1>2
  <2>2. IndexOf(active, s) \in Nat /\ IndexOf(active, s) = IndexOf(active, s) % n
    <3> HIDE DEF n
    <3> QED  BY <1>1, <2>1
  <2> HIDE DEF active
  <2> QED  BY <1>1, <2>2, SeatOfPlace
<1>4. ASSUME NEW r \in active, NEW s \in active,
             SeatAt(active, IndexOf(active, r) + 1) = SeatAt(active, IndexOf(active, s) + 1)
      PROVE  r = s
  <2>1. (IndexOf(active, r) + 1) % n = (IndexOf(active, s) + 1) % n
    BY <1>2, <1>4
  <2>2. IndexOf(active, r) \in 0..(n - 1) /\ IndexOf(active, s) \in 0..(n - 1)
    BY <1>2
  <2>3. \A i \in 0..(n - 1) : (i + 1) % n = IF i = n - 1 THEN 0 ELSE i + 1
    <3> HIDE DEF n
    <3> QED  BY <1>1
  <2>4. IndexOf(active, r) = IndexOf(active, s)
    <3> HIDE DEF n
    <3> QED  BY <1>1, <2>1, <2>2, <2>3
  <2> QED  BY <1>3, <2>4
<1>5. f \in Injection(players, players)
  <2>1. f \in [players -> players]
    BY <1>1, <1>2
  <2>2. ASSUME NEW r \in players, NEW s \in players, f[r] = f[s]
        PROVE  r = s
    <3>1. CASE r \in active /\ s \in active
      BY <1>4, <2>2, <3>1
    <3>2. CASE ~(r \in active /\ s \in active)
      <4>1. \A x \in active : f[x] \in active
        BY <1>1, <1>2
      <4>2. \A x \in players \ active : f[x] = x
        OBVIOUS
      <4> HIDE DEF f, active
      <4> QED  BY <2>2, <3>2, <4>1, <4>2
    <3> QED  BY <3>1, <3>2
  <2> QED  BY <2>1, <2>2 DEF Injection, IsInjective
<1>6. b \in [players -> Nat]
  BY CountOfNat DEF Tables
<1>7. SizeOf([x \in players |-> b[f[x]]]) <= SizeOf(b)
  <2> HIDE DEF f, b
  <2> QED  BY <1>1, <1>5, <1>6, SizeOfHandedRound
<1>8. [x \in players |-> b[f[x]]] = [s \in players |-> CountOf(h[s], v)]
  <2>1. \A s \in players : f[s] \in players /\ h[s] = t.hand[f[s]]
    BY <1>1, <1>2 DEF RotateHands
  <2> HIDE DEF f, h
  <2> QED  BY <2>1
<1> QED  BY <1>7, <1>8 DEF HandsHold

-------------------------------------------------------------------------------
(* The ways a handler ends. *)

\* What a handler hands on to an ending that may begin a new round.
HandsOn(t, elim) ==
  /\ \A v \in Values : Held(t, v) <= CopiesPerValue
  /\ \A s \in elim : t.hand[s] = << >>
  /\ elim = {} => \A s \in players : t.pendingDraws[s] = None
  /\ PlatesUsed(t.duelPassCount, t.duelPlates)

\* The table t is set and the game goes on.
LEMMA GoesOnCards ==
  ASSUME ConfigType, TypeOK', UNCHANGED config, NEW t \in Tables, SetTable(t),
         phase' \notin {"DEALING", "GAME_OVER"}, gameLoser' = None,
         \A v \in Values :
           InGame(t, pile', trickPileForPick', market', v) <= CopiesPerValue,
         mode # "RODIZIO" /\ eliminated' = {} =>
           \A v \in Values :
             InGame(t, pile', trickPileForPick', market', v) = CopiesPerValue,
         \A s \in eliminated' : t.hand[s] = << >>,
         eliminated' = {} =>
           \A s \in players : t.pendingDraws[s] # None =>
             phase' = "PASS_PICK" /\ s = CurrentPlayer' /\ ~IsDuel',
         phase' # "TRICK_PICK" => trickPileForPick' = << >>,
         PlatesUsed(t.duelPassCount, t.duelPlates)
  PROVE  CardInv'
<1>1. UNCHANGED players /\ UNCHANGED mode
  BY DEF config
<1>2. \A v \in Values :
        /\ CountsByValue(v)' = InGame(t, pile', trickPileForPick', market', v) + copied'[v]
        /\ InGame(t, pile', trickPileForPick', market', v) \in Int /\ copied'[v] \in Nat
        /\ CopiesPerValue \in Nat
  BY <1>1, CountsNext, EngineAssumption DEF InGame
<1>3. CopiesAccounted'
  BY <1>2 DEF CopiesAccounted
<1>4. eliminated' \subseteq {gameLoser'} => eliminated' = {}
  <2>1. eliminated' \subseteq players /\ None \notin players
    BY <1>1, Seats DEF TypeOK, GameType
  <2> QED  BY <2>1
<1>5. CardIntegrity'
  BY <1>1, <1>2, <1>4 DEF CardIntegrity
<1>6. LeaversHoldNone' /\ LoserAtTheEnd' /\ OfferedOnce'
  BY DEF LeaversHoldNone, LoserAtTheEnd, OfferedOnce, SetTable
<1>7. DrawnInTurn'
  BY <1>1 DEF DrawnInTurn, SetTable
<1>8. DuelPassesUsePlates'
  BY <1>1 DEF DuelPassesUsePlates, PlatesUsed, SetTable
<1> QED  BY <1>3, <1>5, <1>6, <1>7, <1>8 DEF CardInv

\* The game ends with what the handler has left on the table.
LEMMA GameOverCards ==
  ASSUME ConfigType, TypeOK', UNCHANGED config, NEW t \in Tables, SetTable(t),
         phase' = "GAME_OVER", eliminated' # {},
         \A v \in Values :
           InGame(t, pile', trickPileForPick', market', v) <= CopiesPerValue,
         mode # "RODIZIO" /\ eliminated' \subseteq {gameLoser'} =>
           \A v \in Values :
             InGame(t, pile', trickPileForPick', market', v) = CopiesPerValue,
         PlatesUsed(t.duelPassCount, t.duelPlates)
  PROVE  CardInv'
<1>1. UNCHANGED players /\ UNCHANGED mode
  BY DEF config
<1>2. \A v \in Values :
        /\ CountsByValue(v)' = InGame(t, pile', trickPileForPick', market', v) + copied'[v]
        /\ InGame(t, pile', trickPileForPick', market', v) \in Int /\ copied'[v] \in Nat
        /\ CopiesPerValue \in Nat
  BY <1>1, CountsNext, EngineAssumption DEF InGame
<1>3. CopiesAccounted'
  BY <1>2 DEF CopiesAccounted
<1>4. CardIntegrity'
  BY <1>1, <1>2 DEF CardIntegrity
<1>5. LeaversHoldNone' /\ LoserAtTheEnd' /\ OfferedOnce' /\ DrawnInTurn'
  BY DEF LeaversHoldNone, LoserAtTheEnd, OfferedOnce, DrawnInTurn
<1>6. DuelPassesUsePlates'
  BY <1>1 DEF DuelPassesUsePlates, PlatesUsed, SetTable
<1> QED  BY <1>3, <1>4, <1>5, <1>6 DEF CardInv

\* resolveRoundEnd.
LEMMA RoundEndCards ==
  ASSUME ConfigType, TypeOK', UNCHANGED config, gameLoser = None, NEW t \in Tables,
         NEW elim \in SUBSET players, Cardinality(players \ elim) >= 2,
         NEW tokens, NEW loser \in players \ elim, NEW ACTION rest,
         ResolveRoundEnd(t, elim, tokens, loser, rest),
         HandsOn(t, elim),
         rest => \A v \in Values :
                   InGame(t, pile', trickPileForPick', market, v) <= CopiesPerValue,
         rest /\ mode # "RODIZIO" /\ elim = {} =>
           \A v \in Values :
             InGame(t, pile', trickPileForPick', market, v) = CopiesPerValue
  PROVE  CardInv'
<1>1. CASE PayToken(tokens, loser)[loser] = 0
  <2>1. GameOver(t, elim \union {loser}, PayToken(tokens, loser), loser) /\ rest
    BY <1>1 DEF ResolveRoundEnd
  <2>2. /\ phase' = "GAME_OVER" /\ eliminated' = elim \union {loser} /\ gameLoser' = loser
        /\ SetTable(t) /\ market' = market
    BY <2>1 DEF GameOver
  <2>3. eliminated' \subseteq {gameLoser'} => elim = {}
    BY <2>2
  <2>4. eliminated' # {}
    BY <2>2
  <2>5. \A v \in Values :
          InGame(t, pile', trickPileForPick', market', v) <= CopiesPerValue
    BY <2>1, <2>2
  <2>6. mode # "RODIZIO" /\ elim = {} =>
          \A v \in Values :
            InGame(t, pile', trickPileForPick', market', v) = CopiesPerValue
    BY <2>1, <2>2
  <2> QED  BY <2>2, <2>3, <2>4, <2>5, <2>6, GameOverCards DEF HandsOn
<1>2. CASE PayToken(tokens, loser)[loser] # 0
  <2> DEFINE active == players \ elim
             dealt  == IF mode = "RODIZIO"
                       THEN [t EXCEPT !.hand = RotateHands(t.hand, active)] ELSE t
  <2>1. /\ eliminated' = elim
        /\ gameLoser' = gameLoser
        /\ StartRound(dealt, elim, loser, None)
    BY <1>2 DEF ResolveRoundEnd
  <2>2. /\ dealt \in Tables
        /\ dealt.hand \in [players -> Seq(Values)]
        /\ dealt.hand = IF mode = "RODIZIO" THEN RotateHands(t.hand, active) ELSE t.hand
        /\ dealt.drawPile = t.drawPile /\ dealt.discardPile = t.discardPile
        /\ dealt.pendingDraws = t.pendingDraws
        /\ dealt.duelPlates = t.duelPlates /\ dealt.duelPassCount = t.duelPassCount
        /\ dealt.copied = t.copied
    <3>1. RotateHands(t.hand, active) \in [players -> Seq(Values)]
      BY RotateHandsTyped DEF Tables
    <3> HIDE DEF active
    <3> QED  BY <3>1 DEF Tables
  <2>3. \A s \in elim : dealt.hand[s] = << >>
    <3>1. \A s \in elim : dealt.hand[s] = t.hand[s]
      BY <2>2 DEF RotateHands
    <3> HIDE DEF dealt
    <3> QED  BY <3>1 DEF HandsOn
  <2>4. ASSUME NEW v \in Values
        PROVE  Held(dealt, v) <= CopiesPerValue
    <3>1. HandsHold(dealt.hand, v) <= HandsHold(t.hand, v)
      <4>1. HandsHold(RotateHands(t.hand, active), v) <= HandsHold(t.hand, v)
        BY RotateKeeps
      <4>2. HandsHold(t.hand, v) \in Nat
        BY HeldIsNat
      <4> HIDE DEF dealt, active
      <4> QED  BY <2>2, <4>1, <4>2
    <3>2. /\ t.drawPile[v] \in Nat /\ t.discardPile[v] \in Nat
          /\ HandsHold(t.hand, v) \in Nat /\ PlatesHold(t.duelPlates, v) \in Nat
          /\ CountOf(t.pendingDraws, v) \in Nat /\ t.copied[v] \in Nat
      BY HeldIsNat
    <3>3. HandsHold(dealt.hand, v) \in Nat
      <4> HIDE DEF dealt
      <4> QED  BY <2>2, HeldIsNat
    <3>4. Held(t, v) <= CopiesPerValue /\ CopiesPerValue \in Nat
      BY EngineAssumption DEF HandsOn
    <3> HIDE DEF dealt
    <3>5. Held(t, v) = t.drawPile[v] + t.discardPile[v] + HandsHold(t.hand, v)
                         + PlatesHold(t.duelPlates, v) + CountOf(t.pendingDraws, v)
                         - t.copied[v]
      BY DEF Held
    <3>6. Held(dealt, v) = t.drawPile[v] + t.discardPile[v] + HandsHold(dealt.hand, v)
                             + PlatesHold(t.duelPlates, v) + CountOf(t.pendingDraws, v)
                             - t.copied[v]
      BY <2>2 DEF Held
    <3> QED  BY <3>1, <3>2, <3>3, <3>4, <3>5, <3>6
  <2>5. /\ \A v \in Values : CountsByValue(v)' <= CopiesPerValue + copied'[v]
        /\ mode # "RODIZIO" =>
             \A v \in Values : CountsByValue(v)' = CopiesPerValue + copied'[v]
        /\ \A s \in elim : hand'[s] = << >>
        /\ elim = {} => \A s \in players : pendingDraws'[s] = None
        /\ DuelPassesUsePlates'
    <3>1. elim = {} => \A s \in players : dealt.pendingDraws[s] = None
      BY <2>2 DEF HandsOn
    <3>2. PlatesUsed(dealt.duelPassCount, dealt.duelPlates)
      BY <2>2 DEF HandsOn
    <3> HIDE DEF dealt
    <3> QED  BY <2>1, <2>2, <2>3, <2>4, <3>1, <3>2, StartRoundCards
  <2>6. phase' = "PLAYER_TURN" /\ trickPileForPick' = << >>
    BY <2>1 DEF StartRound
  <2>7. UNCHANGED players /\ UNCHANGED mode
    BY DEF config
  <2>8. CopiesAccounted' /\ CardIntegrity'
    BY <2>5, <2>7 DEF CopiesAccounted, CardIntegrity
  <2>9. LeaversHoldNone' /\ LoserAtTheEnd' /\ OfferedOnce' /\ DrawnInTurn'
    BY <2>1, <2>5, <2>6, <2>7 DEF LeaversHoldNone, LoserAtTheEnd, OfferedOnce, DrawnInTurn
  <2> QED  BY <2>5, <2>8, <2>9 DEF CardInv
<1> QED  BY <1>1, <1>2

-------------------------------------------------------------------------------
(* What every handler finds, and what it may hand on. *)

\* The cards are in what a handler hands on, the pile, the pile that is offered and the
\* market: never twice, and all of them until the first player leaves.
Counted(t, onPile, offered, open) ==
  /\ \A v \in Values : InGame(t, onPile, offered, open, v) <= CopiesPerValue
  /\ mode # "RODIZIO" /\ eliminated = {} =>
       \A v \in Values : InGame(t, onPile, offered, open, v) = CopiesPerValue

LEMMA CardFacts ==
  ASSUME IInv, CardInv, InPlay
  PROVE  /\ gameLoser = None
         /\ Counted(Table, pile, trickPileForPick, market)
         /\ \A s \in eliminated : hand[s] = << >>
         /\ PlatesUsed(duelPassCount, duelPlates)
         /\ phase # "TRICK_PICK" => trickPileForPick = << >>
         /\ eliminated = {} /\ (phase # "PASS_PICK" \/ IsDuel) =>
              \A s \in players : pendingDraws[s] = None
<1>1. phase # "GAME_OVER" /\ phase # "DEALING"
  BY DEF InPlay
<1>2. CountsAgree
  BY CountsNow DEF IInv
<1>3. gameLoser = None /\ \A s \in eliminated : hand[s] = << >>
  BY <1>1 DEF CardInv, LoserAtTheEnd, LeaversHoldNone
<1>4. PlatesUsed(duelPassCount, duelPlates)
  BY DEF CardInv, DuelPassesUsePlates, PlatesUsed
<1>5. phase # "TRICK_PICK" => trickPileForPick = << >>
  BY <1>1 DEF CardInv, OfferedOnce
<1>6. eliminated = {} /\ (phase # "PASS_PICK" \/ IsDuel) =>
        \A s \in players : pendingDraws[s] = None
  BY DEF CardInv, DrawnInTurn
<1>7. Counted(Table, pile, trickPileForPick, market)
  <2>1. eliminated = {} => eliminated \subseteq {gameLoser}
    OBVIOUS
  <2>2. ASSUME NEW v \in Values
        PROVE  /\ CountsByValue(v) = InGame(Table, pile, trickPileForPick, market, v) + copied[v]
               /\ InGame(Table, pile, trickPileForPick, market, v) \in Int
               /\ copied[v] \in Nat /\ CopiesPerValue \in Nat
    <3>1. /\ CountsByValue(v) = InGame(Table, pile, trickPileForPick, market, v) + copied[v]
          /\ Held(Table, v) \in Int /\ CountOf(pile, v) \in Nat
          /\ CountOf(trickPileForPick, v) \in Nat /\ market[v] \in Nat /\ copied[v] \in Nat
      BY <1>2 DEF CountsAgree
    <3> QED  BY <3>1, EngineAssumption DEF InGame
  <2>3. ASSUME NEW v \in Values
        PROVE  /\ InGame(Table, pile, trickPileForPick, market, v) <= CopiesPerValue
               /\ mode # "RODIZIO" /\ eliminated = {} =>
                    InGame(Table, pile, trickPileForPick, market, v) = CopiesPerValue
    <3>1. CountsByValue(v) <= CopiesPerValue + copied[v]
      BY DEF CardInv, CopiesAccounted
    <3>2. mode # "RODIZIO" /\ eliminated = {} =>
            CountsByValue(v) = CopiesPerValue + copied[v]
      BY <1>1, <2>1 DEF CardInv, CardIntegrity
    <3> QED  BY <2>2, <3>1, <3>2
  <2> QED  BY <2>3 DEF Counted
<1> QED  BY <1>3, <1>4, <1>5, <1>6, <1>7

\* What is handed on is part of it.
LEMMA CountedHeld ==
  ASSUME ConfigType, NEW t \in Tables, NEW onPile \in Seq(Values), NEW offered \in Seq(Values),
         NEW open \in Cards, Counted(t, onPile, offered, open), NEW v \in Values
  PROVE  /\ Held(t, v) \in Int /\ CountOf(onPile, v) \in Nat /\ CountOf(offered, v) \in Nat
         /\ open[v] \in Nat
         /\ Held(t, v) <= CopiesPerValue
<1>1. /\ Held(t, v) \in Int /\ CountOf(onPile, v) \in Nat /\ CountOf(offered, v) \in Nat
      /\ open[v] \in Nat
  BY HeldIsNat, CountOfNat DEF Cards
<1>2. Held(t, v) + CountOf(onPile, v) + CountOf(offered, v) + open[v] <= CopiesPerValue
  BY DEF Counted, InGame
<1>3. CopiesPerValue \in Nat
  BY EngineAssumption
<1> QED  BY <1>1, <1>2, <1>3

\* resolveWipe moves the pile to the discard pile.
LEMMA WipeCards ==
  ASSUME IInv, CardInv, InPlay, TypeOK', UNCHANGED config,
         NEW t \in Tables, NEW wiper \in players,
         Counted(t, pile, trickPileForPick, market), trickPileForPick = << >>,
         HandsOn(t, eliminated), ResolveWipe(t, wiper)
  PROVE  CardInv'
<1> DEFINE u == [t EXCEPT !.discardPile = Plus(@, pile)]
<1>1. /\ ConfigType /\ pile \in Seq(Values) /\ market \in Cards /\ trickPileForPick \in Seq(Values)
      /\ gameLoser = None
  BY CardFacts DEF IInv, TypeOK, TrickType, TurnType
<1>2. /\ phase' = "PLAYER_TURN" /\ pile' = << >> /\ SetTable(u)
      /\ UNCHANGED trickPileForPick /\ UNCHANGED gameVars
  BY DEF ResolveWipe
<1>3. t.discardPile \in Cards /\ Plus(t.discardPile, pile) \in Cards
  BY <1>1, PlusType DEF Tables
<1>4. /\ u \in Tables
      /\ u.discardPile = Plus(t.discardPile, pile) /\ u.drawPile = t.drawPile
      /\ u.hand = t.hand /\ u.pendingDraws = t.pendingDraws /\ u.duelPlates = t.duelPlates
      /\ u.duelPassCount = t.duelPassCount /\ u.copied = t.copied
  BY <1>3 DEF Tables
<1>5. market' = market /\ eliminated' = eliminated /\ gameLoser' = gameLoser
  BY <1>2 DEF gameVars
<1> HIDE DEF u
<1>6. ASSUME NEW v \in Values
      PROVE  InGame(u, pile', trickPileForPick', market', v)
               = InGame(t, pile, trickPileForPick, market, v)
  <2>1. Plus(t.discardPile, pile)[v] = t.discardPile[v] + CountOf(pile, v)
    BY <1>1, <1>3, PlusHolds
  <2>2. CountOf(pile', v) = 0 /\ CountOf(trickPileForPick', v) = CountOf(trickPileForPick, v)
    BY <1>2, CountOfFew
  <2>3. /\ t.drawPile[v] \in Nat /\ t.discardPile[v] \in Nat
        /\ HandsHold(t.hand, v) \in Nat /\ PlatesHold(t.duelPlates, v) \in Nat
        /\ CountOf(t.pendingDraws, v) \in Nat /\ CountOf(pile, v) \in Nat
        /\ CountOf(trickPileForPick, v) \in Nat /\ market[v] \in Nat /\ t.copied[v] \in Nat
    BY <1>1, HeldIsNat, CountOfNat DEF Cards
  <2>4. Held(u, v) = Held(t, v) + CountOf(pile, v)
    <3>1. Held(u, v) = t.drawPile[v] + (t.discardPile[v] + CountOf(pile, v))
                         + HandsHold(t.hand, v) + PlatesHold(t.duelPlates, v)
                         + CountOf(t.pendingDraws, v) - t.copied[v]
      BY <1>4, <2>1 DEF Held
    <3>2. Held(t, v) = t.drawPile[v] + t.discardPile[v] + HandsHold(t.hand, v)
                         + PlatesHold(t.duelPlates, v) + CountOf(t.pendingDraws, v)
                         - t.copied[v]
      BY DEF Held
    <3> QED  BY ONLY <2>3, <3>1, <3>2
  <2>5. Held(t, v) \in Int
    BY <1>1, HeldIsNat
  <2> QED  BY <1>5, <2>2, <2>3, <2>4, <2>5 DEF InGame
<1>7. \A v \in Values :
        InGame(u, pile', trickPileForPick', market', v) <= CopiesPerValue
  BY <1>6 DEF Counted
<1>8. mode # "RODIZIO" /\ eliminated' = {} =>
        \A v \in Values : InGame(u, pile', trickPileForPick', market', v) = CopiesPerValue
  BY <1>5, <1>6 DEF Counted
<1>9. /\ \A s \in eliminated' : u.hand[s] = << >>
      /\ eliminated' = {} => \A s \in players : u.pendingDraws[s] = None
      /\ PlatesUsed(u.duelPassCount, u.duelPlates)
  BY <1>4, <1>5 DEF HandsOn
<1> QED  BY <1>1, <1>2, <1>4, <1>5, <1>7, <1>8, <1>9, GoesOnCards

\* The common end of a pass.
LEMMA AfterPassCards ==
  ASSUME IInv, CardInv, InPlay, TypeOK', UNCHANGED config, NEW t \in Tables, NEW p \in players,
         Counted(t, pile, trickPileForPick, market), trickPileForPick = << >>,
         \A s \in eliminated : t.hand[s] = << >>,
         eliminated = {} => \A s \in players : t.pendingDraws[s] = None,
         PlatesUsed(t.duelPassCount, t.duelPlates),
         AfterPass(t, p)
  PROVE  CardInv'
<1> DEFINE passes  == consecutivePasses + 1
           counted == /\ consecutivePasses' = passes
                      /\ UNCHANGED <<pile, saborVars, lastPlayerId, isFirstTurn,
                                     outOfRound, trickPileForPick>>
<1>1. /\ ConfigType /\ TrickType /\ eliminated \in SUBSET players
      /\ Cardinality(players \ eliminated) >= 2
      /\ pile \in Seq(Values) /\ trickPileForPick \in Seq(Values) /\ market \in Cards
      /\ gameLoser = None
  BY InPlayFacts, CardFacts DEF TrickType, TurnType
<1>2. HandsOn(t, eliminated)
  <2>1. \A v \in Values : Held(t, v) <= CopiesPerValue
    BY <1>1, CountedHeld
  <2> QED  BY <2>1 DEF HandsOn
<1>3. CASE passes < Cardinality(PlayersInRound) - 1
  <2>1. /\ counted /\ AdvanceTurn(eliminated, outOfRound) /\ SetTable(t)
        /\ UNCHANGED gameVars
    BY <1>3 DEF AfterPass
  <2>2. phase' = "PLAYER_TURN" /\ pile' = pile /\ trickPileForPick' = trickPileForPick
        /\ market' = market /\ eliminated' = eliminated /\ gameLoser' = gameLoser
    BY <2>1 DEF AdvanceTurn, gameVars
  <2>3. /\ \A v \in Values :
             InGame(t, pile', trickPileForPick', market', v) <= CopiesPerValue
        /\ mode # "RODIZIO" /\ eliminated' = {} =>
             \A v \in Values :
               InGame(t, pile', trickPileForPick', market', v) = CopiesPerValue
    BY <2>2 DEF Counted
  <2> QED  BY <1>1, <2>1, <2>2, <2>3, GoesOnCards
<1>4. CASE ~(passes < Cardinality(PlayersInRound) - 1) /\ pile = << >>
  <2>1. ResolveRoundEnd(t, eliminated, tokensLeft, StalemateLoser(t.hand), counted)
    BY <1>4 DEF AfterPass
  <2>2. StalemateLoser(t.hand) \in players \ eliminated
    <3>1. t.hand \in [players -> Seq(Values)]
      BY DEF Tables
    <3>2. StalemateLoser(t.hand) \in PlayersInRound
      BY <1>1, <3>1, Seats, SomeoneInRound, StalemateLoserExists
    <3> QED  BY <3>2 DEF PlayersInRound, ActivePlayers
  <2>3. /\ counted => \A v \in Values :
             InGame(t, pile', trickPileForPick', market, v) <= CopiesPerValue
        /\ counted /\ mode # "RODIZIO" /\ eliminated = {} =>
             \A v \in Values :
               InGame(t, pile', trickPileForPick', market, v) = CopiesPerValue
    BY DEF Counted
  <2> HIDE DEF counted
  <2> QED  BY <1>1, <1>2, <2>1, <2>2, <2>3, RoundEndCards
<1>5. CASE ~(passes < Cardinality(PlayersInRound) - 1) /\ pile # << >>
  <2>1. ResolveWipe(t, IF lastPlayerId = None THEN p ELSE lastPlayerId)
    BY <1>5 DEF AfterPass
  <2>2. (IF lastPlayerId = None THEN p ELSE lastPlayerId) \in players
    BY <1>1 DEF TrickType
  <2> QED  BY <1>2, <2>1, <2>2, WipeCards
<1> QED  BY <1>3, <1>4, <1>5

-------------------------------------------------------------------------------
(* The handlers. *)

\* The cards of a play are off the table, and the pile on the discard pile when their
\* player leaves the round with them.
LEMMA PlayedCards ==
  ASSUME IInv, InPlay, NEW p \in players, NEW indices \in Selections(p),
         NEW plateCards \in Seq(Values), NEW taken \in Seq(Values),
         \A v \in Values : CountOf(taken, v) <= duelPlates[p][v],
         NEW t \in Tables,
         \A s \in players : t.hand[s] = IF s = p THEN Unselected(hand[p], indices) ELSE hand[s],
         \A s \in players \ {p} : t.duelPlates[s] = duelPlates[s],
         \A v \in Values : t.duelPlates[p][v] = duelPlates[p][v] - CountOf(taken, v),
         \A v \in Values : t.copied[v] = copied[v] + CountOf(plateCards, v) - CountOf(taken, v),
         t.drawPile = drawPile, t.pendingDraws = pendingDraws, t.duelPassCount = duelPassCount,
         t.discardPile = IF LeavesRound(Unselected(hand[p], indices))
                         THEN Plus(discardPile, pile) ELSE discardPile
  PROVE  /\ \A v \in Values :
              /\ LeavesRound(Unselected(hand[p], indices)) =>
                   Held(t, v) + CountOf(Selected(hand[p], indices) \o plateCards, v)
                     = Held(Table, v) + CountOf(pile, v)
              /\ ~LeavesRound(Unselected(hand[p], indices)) =>
                   Held(t, v) + CountOf(Selected(hand[p], indices) \o plateCards, v)
                     = Held(Table, v)
         /\ PlatesUsed(duelPassCount, duelPlates) => PlatesUsed(t.duelPassCount, t.duelPlates)
<1> DEFINE left   == Unselected(hand[p], indices)
           chosen == Selected(hand[p], indices)
<1>1. /\ ConfigType /\ TableType /\ Table \in Tables
      /\ pile \in Seq(Values) /\ hand \in [players -> Seq(Values)] /\ discardPile \in Cards
      /\ duelPlates \in [players -> Cards] /\ duelPassCount \in [players -> Nat]
  BY InPlayFacts DEF TrickType, TableType
<1>2. indices = {} \/ \E i, j \in DOMAIN hand[p] : indices = i..j
  BY DEF Selections
<1>3. chosen \in Seq(Values) /\ left \in Seq(Values)
  BY <1>1, <1>2, PlayType
<1>4. t.hand \in [players -> Seq(Values)] /\ t.duelPlates \in [players -> Cards]
  BY DEF Tables
<1>5. /\ Table.drawPile = drawPile /\ Table.discardPile = discardPile /\ Table.hand = hand
      /\ Table.duelPlates = duelPlates /\ Table.pendingDraws = pendingDraws
      /\ Table.copied = copied
  BY DEF Table
<1>6. ASSUME NEW v \in Values
      PROVE  /\ LeavesRound(left) =>
                  Held(t, v) + CountOf(chosen \o plateCards, v) = Held(Table, v) + CountOf(pile, v)
             /\ ~LeavesRound(left) =>
                  Held(t, v) + CountOf(chosen \o plateCards, v) = Held(Table, v)
  <2>1. /\ CountOf(hand[p], v) \in Nat /\ CountOf(left, v) \in Nat /\ HandsHold(hand, v) \in Nat
        /\ HandsHold(t.hand, v) = HandsHold(hand, v) - CountOf(hand[p], v) + CountOf(left, v)
    <3>1. t.hand[p] = left /\ \A s \in players \ {p} : t.hand[s] = hand[s]
      OBVIOUS
    <3> HIDE DEF left
    <3>2. /\ CountOf(hand[p], v) \in Nat /\ CountOf(t.hand[p], v) \in Nat
          /\ HandsHold(hand, v) \in Nat
          /\ HandsHold(t.hand, v)
               = HandsHold(hand, v) - CountOf(hand[p], v) + CountOf(t.hand[p], v)
      BY <1>1, <1>4, <3>1, HandChanges
    <3> QED  BY <3>1, <3>2
  <2>2. CountOf(chosen, v) \in Nat /\ CountOf(chosen, v) + CountOf(left, v) = CountOf(hand[p], v)
    BY <1>1, <1>2, <1>3, CountOfPlay, CountOfNat
  <2>3. CountOf(plateCards, v) \in Nat /\ CountOf(taken, v) \in Nat
        /\ CountOf(chosen \o plateCards, v) = CountOf(chosen, v) + CountOf(plateCards, v)
    <3> HIDE DEF chosen
    <3> QED  BY <1>3, CountOfNat, CountOfConcat
  <2>4. /\ duelPlates[p][v] \in Nat /\ PlatesHold(duelPlates, v) \in Nat
        /\ PlatesHold(t.duelPlates, v) = PlatesHold(duelPlates, v) - CountOf(taken, v)
    <3>1. /\ duelPlates[p][v] \in Nat /\ t.duelPlates[p][v] \in Nat
          /\ PlatesHold(duelPlates, v) \in Nat
          /\ PlatesHold(t.duelPlates, v)
               = PlatesHold(duelPlates, v) - duelPlates[p][v] + t.duelPlates[p][v]
      BY <1>1, <1>4, PlatesChange
    <3>2. t.duelPlates[p][v] = duelPlates[p][v] - CountOf(taken, v)
      OBVIOUS
    <3> QED  BY <2>3, <3>1, <3>2
  <2>5. /\ LeavesRound(left) => t.discardPile[v] = discardPile[v] + CountOf(pile, v)
        /\ ~LeavesRound(left) => t.discardPile[v] = discardPile[v]
    BY <1>1, PlusHolds
  <2>6. /\ drawPile[v] \in Nat /\ discardPile[v] \in Nat /\ CountOf(pendingDraws, v) \in Nat
        /\ CountOf(pile, v) \in Nat /\ copied[v] \in Nat
    <3>1. Table.drawPile[v] \in Nat /\ Table.discardPile[v] \in Nat
          /\ CountOf(Table.pendingDraws, v) \in Nat /\ Table.copied[v] \in Nat
      BY <1>1, HeldIsNat
    <3> QED  BY <1>1, <1>5, <3>1, CountOfNat
  <2> HIDE DEF left, chosen
  <2>7. ASSUME NEW x \in Nat, t.discardPile[v] = discardPile[v] + x
        PROVE  Held(t, v) + CountOf(chosen \o plateCards, v) = Held(Table, v) + x
    <3>1. HandsHold(t.hand, v) - HandsHold(Table.hand, v) = 0 - CountOf(chosen, v)
      <4>1. HandsHold(t.hand, v) - HandsHold(hand, v) = 0 - CountOf(chosen, v)
        BY <2>1, <2>2
      <4> QED  BY <1>5, <4>1
    <3>2. PlatesHold(t.duelPlates, v) - PlatesHold(Table.duelPlates, v)
            = 0 - CountOf(taken, v)
      <4>1. PlatesHold(t.duelPlates, v) - PlatesHold(duelPlates, v) = 0 - CountOf(taken, v)
        BY <2>3, <2>4
      <4> QED  BY <1>5, <4>1
    <3>3. t.drawPile[v] - Table.drawPile[v] = 0 /\ t.discardPile[v] - Table.discardPile[v] = x
      <4>1. t.drawPile[v] - drawPile[v] = 0 /\ t.discardPile[v] - discardPile[v] = x
        BY <2>6, <2>7
      <4> QED  BY <1>5, <4>1
    <3>4. CountOf(t.pendingDraws, v) - CountOf(Table.pendingDraws, v) = 0
      BY <1>5, <2>6
    <3>5. t.copied[v] - Table.copied[v] = CountOf(plateCards, v) - CountOf(taken, v)
      <4>1. t.copied[v] - copied[v] = CountOf(plateCards, v) - CountOf(taken, v)
        BY <2>3, <2>6
      <4> QED  BY <1>5, <4>1
    <3>6. Held(t, v) = Held(Table, v) + 0 + x + (0 - CountOf(chosen, v))
                         + (0 - CountOf(taken, v)) + 0
                         - (CountOf(plateCards, v) - CountOf(taken, v))
          /\ Held(Table, v) \in Int
      BY <1>1, <3>1, <3>2, <3>3, <3>4, <3>5, HeldDiffers
    <3> QED  BY <2>2, <2>3, <3>6
  <2>8. Held(Table, v) \in Int /\ discardPile[v] + 0 = discardPile[v]
    BY <1>1, <2>6, HeldIsNat
  <2>9. ~LeavesRound(left) =>
           Held(t, v) + CountOf(chosen \o plateCards, v) = Held(Table, v) + 0
    BY <2>5, <2>7, <2>8
  <2>10. LeavesRound(left) =>
           Held(t, v) + CountOf(chosen \o plateCards, v) = Held(Table, v) + CountOf(pile, v)
    BY <2>5, <2>6, <2>7
  <2> QED  BY <2>8, <2>9, <2>10
<1>7. ASSUME PlatesUsed(duelPassCount, duelPlates), NEW s \in players
      PROVE  duelPassCount[s] + SizeOf(t.duelPlates[s]) <= PlatesPerPlayer
  <2>1. /\ duelPlates[s] \in [Values -> Nat] /\ t.duelPlates[s] \in [Values -> Nat]
        /\ duelPassCount[s] \in Nat
    BY <1>1, <1>4 DEF Cards
  <2>2. \A v \in Values : t.duelPlates[s][v] <= duelPlates[s][v]
    <3> SUFFICES ASSUME NEW v \in Values
                 PROVE  t.duelPlates[s][v] <= duelPlates[s][v]
      OBVIOUS
    <3>1. CountOf(taken, v) \in Nat /\ duelPlates[s][v] \in Nat
      BY <1>3, <2>1, CountOfNat
    <3>2. s = p => t.duelPlates[s][v] = duelPlates[s][v] - CountOf(taken, v)
      OBVIOUS
    <3>3. s # p => t.duelPlates[s][v] = duelPlates[s][v]
      OBVIOUS
    <3> QED  BY <3>1, <3>2, <3>3
  <2>3. SizeOf(t.duelPlates[s]) <= SizeOf(duelPlates[s])
        /\ SizeOf(t.duelPlates[s]) \in Nat /\ SizeOf(duelPlates[s]) \in Nat
    BY <2>1, <2>2, ValuesFinite, SizeOfSmaller, CardsInFinite
  <2>4. duelPassCount[s] + SizeOf(duelPlates[s]) <= PlatesPerPlayer
    BY <1>7 DEF PlatesUsed
  <2> QED  BY <2>1, <2>3, <2>4 DEF PlatesPerPlayer
<1> QED  BY <1>6, <1>7 DEF PlatesUsed

\* applyPlayCards.
LEMMA PlayKeepsCards ==
  ASSUME IInv, CardInv, TypeOK', NEW p \in players, Play(p)
  PROVE  CardInv'
<1>0. PICK indices \in Selections(p), plateCards \in PlateLists :
        \E taken \in PlatesOf(plateCards) : PlayCards(p, indices, plateCards, taken)
  BY DEF Play
<1>1. PICK taken \in PlatesOf(plateCards) : PlayCards(p, indices, plateCards, taken)
  BY <1>0
<1>2. InPlay /\ phase = "PLAYER_TURN" /\ p \in PlayersInRound
  BY <1>1, TurnOfOneInRound DEF PlayCards
<1>3. /\ ConfigType /\ TableType /\ TrickType /\ TurnType
      /\ eliminated \in SUBSET players /\ Cardinality(players \ eliminated) >= 2
      /\ Cardinality(PlayersInRound) >= 2
      /\ Table \in Tables
      /\ pile \in Seq(Values) /\ trickPileForPick \in Seq(Values) /\ market \in Cards
      /\ hand \in [players -> Seq(Values)] /\ duelPlates \in [players -> Cards]
  BY <1>2, InPlayFacts DEF TrickType, TurnType, TableType
<1>4. /\ gameLoser = None /\ Counted(Table, pile, trickPileForPick, market)
      /\ \A s \in eliminated : hand[s] = << >>
      /\ PlatesUsed(duelPassCount, duelPlates)
      /\ trickPileForPick = << >>
      /\ eliminated = {} => \A s \in players : pendingDraws[s] = None
  BY <1>2, CardFacts
<1> DEFINE played     == Selected(hand[p], indices) \o plateCards
           left       == Unselected(hand[p], indices)
           empties    == LeavesRound(left)
           t          == [Table EXCEPT
                            !.hand[p] = left,
                            !.duelPlates[p] = [v \in Values |-> @[v] - CountOf(taken, v)],
                            !.copied = [v \in Values |-> @[v] + CountOf(plateCards, v)
                                                             - CountOf(taken, v)],
                            !.discardPile = IF empties THEN Plus(@, pile) ELSE @]
           out        == IF empties THEN outOfRound \union {p} ELSE outOfRound
           remaining  == ActivePlayers \ out
           trick      == /\ pile' = played
                         /\ consecutivePasses' = 0
                         /\ lastPlayerId' = p
                         /\ isFirstTurn' = FALSE
                         /\ outOfRound' = out
                         /\ IF isSabor(played)
                            THEN saborActive' = TRUE /\ saborMinRequired' = Len(played)
                            ELSE IF saborActive /\ ~isSameCategory(played)
                            THEN saborActive' = FALSE /\ saborMinRequired' = 0
                            ELSE UNCHANGED saborVars
           goesOn     == /\ trick
                         /\ SetTable(t)
                         /\ UNCHANGED lastWiperId
                         /\ UNCHANGED gameVars
<1>5. \A v \in Values : CountOf(taken, v) <= duelPlates[p][v]
  BY <1>1 DEF PlayCards
<1>6. /\ plateCards \in Seq(Values) /\ taken \in Seq(Values) /\ played \in Seq(Values) /\ left \in Seq(Values)
      /\ t \in Tables
  BY <1>1, <1>3, <1>5, PlatesTyped, PlayedTableTyped
<1>7. UNCHANGED config /\ UNCHANGED players /\ UNCHANGED mode
  BY <1>1 DEF PlayCards, config
<1>8. /\ \A s \in players : t.hand[s] = IF s = p THEN left ELSE hand[s]
      /\ \A s \in players \ {p} : t.duelPlates[s] = duelPlates[s]
      /\ \A v \in Values : t.duelPlates[p][v] = duelPlates[p][v] - CountOf(taken, v)
      /\ \A v \in Values : t.copied[v] = copied[v] + CountOf(plateCards, v) - CountOf(taken, v)
      /\ t.drawPile = drawPile /\ t.pendingDraws = pendingDraws
      /\ t.duelPassCount = duelPassCount
      /\ t.discardPile = IF empties THEN Plus(discardPile, pile) ELSE discardPile
  <2>1. t.hand = [hand EXCEPT ![p] = left]
    BY DEF Table
  <2>2. t.duelPlates
          = [duelPlates EXCEPT ![p] = [v \in Values |-> duelPlates[p][v] - CountOf(taken, v)]]
    BY DEF Table
  <2>3. t.drawPile = drawPile /\ t.pendingDraws = pendingDraws
        /\ t.duelPassCount = duelPassCount
        /\ t.discardPile = (IF empties THEN Plus(discardPile, pile) ELSE discardPile)
        /\ t.copied = [v \in Values |-> copied[v] + CountOf(plateCards, v) - CountOf(taken, v)]
    BY DEF Table
  <2> HIDE DEF t, left
  <2> QED  BY <1>3, <2>1, <2>2, <2>3
<1>9. /\ \A v \in Values :
           /\ empties => Held(t, v) + CountOf(played, v) = Held(Table, v) + CountOf(pile, v)
           /\ ~empties => Held(t, v) + CountOf(played, v) = Held(Table, v)
      /\ PlatesUsed(t.duelPassCount, t.duelPlates)
  <2> HIDE DEF t
  <2> QED  BY <1>1, <1>2, <1>4, <1>5, <1>6, <1>8, PlayedCards
<1> HIDE DEF played, left, t
<1>10. ASSUME NEW v \in Values
       PROVE  /\ empties => InGame(t, played, trickPileForPick, market, v)
                              = InGame(Table, pile, trickPileForPick, market, v)
              /\ ~empties => InGame(t, played, pile, market, v)
                               = InGame(Table, pile, trickPileForPick, market, v)
  <2>1. /\ Held(t, v) \in Int /\ Held(Table, v) \in Int /\ CountOf(played, v) \in Nat
        /\ CountOf(pile, v) \in Nat /\ market[v] \in Nat
        /\ CountOf(trickPileForPick, v) = 0
    BY <1>3, <1>4, <1>6, HeldIsNat, CountOfNat, CountOfFew DEF Cards
  <2>2. InGame(Table, pile, trickPileForPick, market, v)
          = Held(Table, v) + CountOf(pile, v) + market[v]
    BY <2>1 DEF InGame
  <2>3. InGame(t, played, trickPileForPick, market, v)
          = Held(t, v) + CountOf(played, v) + market[v]
    BY <2>1 DEF InGame
  <2>4. InGame(t, played, pile, market, v)
          = Held(t, v) + CountOf(played, v) + CountOf(pile, v) + market[v]
    BY <2>1 DEF InGame
  <2> QED  BY <1>9, <2>1, <2>2, <2>3, <2>4
<1>11. /\ empties => Counted(t, played, trickPileForPick, market)
       /\ ~empties => Counted(t, played, pile, market)
  BY <1>4, <1>10 DEF Counted
<1>12. /\ \A s \in eliminated : t.hand[s] = << >>
       /\ eliminated = {} => \A s \in players : t.pendingDraws[s] = None
  BY <1>2, <1>3, <1>4, <1>8 DEF PlayersInRound, ActivePlayers
<1>13. CASE /\ empties
            /\ RoundIsOver(remaining)
            /\ ResolveRoundEnd(t, eliminated, tokensLeft, CHOOSE s \in remaining : TRUE,
                               trick /\ UNCHANGED trickPileForPick)
  <2> DEFINE loser == CHOOSE s \in remaining : TRUE
             rest  == trick /\ UNCHANGED trickPileForPick
  <2>1. loser \in players \ eliminated
    <3>1. remaining = PlayersInRound \ {p}
      BY <1>13 DEF PlayersInRound
    <3>2. loser \in PlayersInRound
      BY <1>3, <3>1, InRoundFinite, OneLess
    <3> QED  BY <3>2 DEF PlayersInRound, ActivePlayers
  <2>2. HandsOn(t, eliminated)
    <3>1. Counted(t, played, trickPileForPick, market)
      BY <1>11, <1>13
    <3>2. \A v \in Values : Held(t, v) <= CopiesPerValue
      BY <1>3, <1>6, <3>1, CountedHeld
    <3> QED  BY <1>9, <1>12, <3>2 DEF HandsOn
  <2>3. /\ rest => \A v \in Values :
             InGame(t, pile', trickPileForPick', market, v) <= CopiesPerValue
        /\ rest /\ mode # "RODIZIO" /\ eliminated = {} =>
             \A v \in Values :
               InGame(t, pile', trickPileForPick', market, v) = CopiesPerValue
    BY <1>11, <1>13 DEF Counted
  <2>4. ResolveRoundEnd(t, eliminated, tokensLeft, loser, rest)
    BY <1>13
  <2> HIDE DEF loser, rest
  <2> QED  BY <1>3, <1>4, <1>6, <1>7, <2>1, <2>2, <2>3, <2>4, RoundEndCards
<1>14. CASE \/ /\ empties
               /\ ~RoundIsOver(remaining)
               /\ AdvanceTurn(eliminated, out)
               /\ goesOn /\ UNCHANGED trickPileForPick
            \/ /\ ~empties /\ pile # << >>
               /\ phase' = "TRICK_PICK"
               /\ trickPileForPick' = pile
               /\ goesOn /\ UNCHANGED currentTurnIndex
            \/ /\ ~empties /\ pile = << >>
               /\ AdvanceTurn(eliminated, out)
               /\ goesOn /\ UNCHANGED trickPileForPick
  <2>1. /\ phase' \in {"PLAYER_TURN", "TRICK_PICK"}
        /\ phase' # "TRICK_PICK" => trickPileForPick' = trickPileForPick
    BY <1>14 DEF AdvanceTurn
  <2>2. /\ SetTable(t) /\ pile' = played /\ market' = market /\ eliminated' = eliminated
        /\ gameLoser' = gameLoser
    BY <1>14 DEF gameVars
  <2>3. Counted(t, pile', trickPileForPick', market')
    <3>1. Counted(t, played, trickPileForPick', market)
      BY <1>4, <1>11, <1>14
    <3> QED  BY <2>2, <3>1 DEF Counted
  <2>4. /\ \A v \in Values :
             InGame(t, pile', trickPileForPick', market', v) <= CopiesPerValue
        /\ mode # "RODIZIO" /\ eliminated' = {} =>
             \A v \in Values :
               InGame(t, pile', trickPileForPick', market', v) = CopiesPerValue
    BY <2>2, <2>3 DEF Counted
  <2>5. phase' # "TRICK_PICK" => trickPileForPick' = << >>
    BY <1>4, <2>1
  <2>6. phase' \notin {"DEALING", "GAME_OVER"}
    BY <2>1
  <2> QED  BY <1>3, <1>4, <1>6, <1>7, <1>9, <1>12, <2>2, <2>4, <2>5, <2>6, GoesOnCards
<1> QED  BY <1>1, <1>13, <1>14 DEF PlayCards, played, left, t

LEMMA OneIsNat ==
  ASSUME NEW c, NEW v \in Values
  PROVE  One(c, v) \in Nat /\ One(None, v) = 0
<1>1. v # None
  BY ValuesAreNat DEF None
<1> QED  BY <1>1 DEF One

\* A card that was drawn is forgotten.
LEMMA ForgetDrawn ==
  ASSUME TypeOK, NEW p \in players, NEW t, t = [Table EXCEPT !.pendingDraws[p] = None]
  PROVE  /\ t \in Tables
         /\ t.hand = hand /\ t.drawPile = drawPile /\ t.discardPile = discardPile
         /\ t.duelPlates = duelPlates /\ t.duelPassCount = duelPassCount
         /\ t.copied = copied
         /\ t.pendingDraws = [pendingDraws EXCEPT ![p] = None]
         /\ \A v \in Values : /\ Held(Table, v) \in Int /\ One(pendingDraws[p], v) \in Nat
                              /\ Held(t, v) = Held(Table, v) - One(pendingDraws[p], v)
<1>1. ConfigType /\ TableType /\ Table \in Tables
      /\ pendingDraws \in [players -> Values \union {None}]
  BY TableTyped DEF TypeOK, TableType
<1>2. /\ t.hand = hand /\ t.drawPile = drawPile /\ t.discardPile = discardPile
      /\ t.duelPlates = duelPlates /\ t.duelPassCount = duelPassCount
      /\ t.copied = copied /\ Table.copied = copied
      /\ t.pendingDraws = [pendingDraws EXCEPT ![p] = None]
  BY DEF Table
<1>3. t \in Tables
  BY <1>1 DEF Tables, Table
<1>4. ASSUME NEW v \in Values
      PROVE  /\ Held(Table, v) \in Int /\ One(pendingDraws[p], v) \in Nat
             /\ Held(t, v) = Held(Table, v) - One(pendingDraws[p], v)
  <2> DEFINE after == [pendingDraws EXCEPT ![p] = None]
  <2>1. /\ CountOf(pendingDraws, v) \in Nat /\ CountOf(after, v) \in Nat
        /\ CountOf(after, v) = CountOf(pendingDraws, v) - One(pendingDraws[p], v) + One(None, v)
    BY <1>1, DrawnChanges
  <2>2. One(pendingDraws[p], v) \in Nat /\ One(None, v) = 0
    BY OneIsNat
  <2> HIDE DEF after
  <2>3. /\ Table.hand = hand /\ Table.drawPile = drawPile /\ Table.discardPile = discardPile
        /\ Table.duelPlates = duelPlates /\ Table.pendingDraws = pendingDraws
    BY DEF Table
  <2>4. /\ drawPile[v] \in Nat /\ discardPile[v] \in Nat
        /\ HandsHold(hand, v) \in Nat /\ PlatesHold(duelPlates, v) \in Nat
        /\ Held(Table, v) \in Int
    BY <1>1, <2>3, HeldIsNat
  <2>5. t.pendingDraws = after
    BY <1>2 DEF after
  <2>6. CountOf(t.pendingDraws, v) - CountOf(Table.pendingDraws, v)
          = 0 - One(pendingDraws[p], v)
    <3>1. CountOf(after, v) - CountOf(pendingDraws, v) = 0 - One(pendingDraws[p], v)
      BY <2>1, <2>2
    <3> QED  BY <2>3, <2>5, <3>1
  <2>7. /\ t.drawPile[v] - Table.drawPile[v] = 0
        /\ t.discardPile[v] - Table.discardPile[v] = 0
        /\ HandsHold(t.hand, v) - HandsHold(Table.hand, v) = 0
        /\ PlatesHold(t.duelPlates, v) - PlatesHold(Table.duelPlates, v) = 0
    BY <1>2, <2>3, <2>4
  <2>8. Held(t, v) = Held(Table, v) + 0 + 0 + 0 + 0 + (0 - One(pendingDraws[p], v))
    <3>1. t.copied = Table.copied
      BY <1>2 DEF Table
    <3>2. Held(t, v) = Held(Table, v) + (t.drawPile[v] - Table.drawPile[v])
                         + (t.discardPile[v] - Table.discardPile[v])
                         + (HandsHold(t.hand, v) - HandsHold(Table.hand, v))
                         + (PlatesHold(t.duelPlates, v) - PlatesHold(Table.duelPlates, v))
                         + (CountOf(t.pendingDraws, v) - CountOf(Table.pendingDraws, v))
      BY ONLY <1>1, <1>3, <3>1, v \in Values, HeldChanges
    <3> QED  BY ONLY <2>6, <2>7, <3>2
  <2> QED  BY <2>2, <2>4, <2>8
<1> QED  BY <1>2, <1>3, <1>4

\* A card goes from the draw pile into a hand.
LEMMA DrawIntoHand ==
  ASSUME ConfigType, NEW t \in Tables, NEW u \in Tables, NEW p \in players,
         NEW c \in Values, NEW v \in Values, NEW i \in 0..Len(t.hand[p]),
         u.drawPile[v] = t.drawPile[v] - One(c, v),
         u.hand[p] = InsertAt(t.hand[p], i, <<c>>),
         \A s \in players \ {p} : u.hand[s] = t.hand[s],
         u.discardPile = t.discardPile, u.duelPlates = t.duelPlates,
         u.pendingDraws = t.pendingDraws, u.copied = t.copied
  PROVE  Held(u, v) = Held(t, v)
<1>1. t.hand \in [players -> Seq(Values)] /\ u.hand \in [players -> Seq(Values)]
      /\ <<c>> \in Seq(Values)
  BY DEF Tables
<1>2. One(c, v) \in Nat
  BY OneIsNat
<1>3. CountOf(u.hand[p], v) = CountOf(t.hand[p], v) + One(c, v)
  <2>1. t.hand[p] \in Seq(Values)
    BY <1>1
  <2>2. CountOf(InsertAt(t.hand[p], i, <<c>>), v) = CountOf(t.hand[p], v) + CountOf(<<c>>, v)
    BY <1>1, <2>1, CountOfInsertAt
  <2> QED  BY <2>2, CountOfFew
<1>4. /\ CountOf(t.hand[p], v) \in Nat /\ HandsHold(t.hand, v) \in Nat
      /\ HandsHold(u.hand, v)
           = HandsHold(t.hand, v) - CountOf(t.hand[p], v) + CountOf(u.hand[p], v)
  BY <1>1, HandChanges
<1>5. HandsHold(u.hand, v) - HandsHold(t.hand, v) = One(c, v)
  BY <1>2, <1>3, <1>4
<1>6. /\ t.drawPile[v] \in Nat /\ t.discardPile[v] \in Nat
      /\ PlatesHold(t.duelPlates, v) \in Nat /\ CountOf(t.pendingDraws, v) \in Nat
  BY HeldIsNat
<1>7. /\ u.drawPile[v] - t.drawPile[v] = 0 - One(c, v)
      /\ u.discardPile[v] - t.discardPile[v] = 0
      /\ PlatesHold(u.duelPlates, v) - PlatesHold(t.duelPlates, v) = 0
      /\ CountOf(u.pendingDraws, v) - CountOf(t.pendingDraws, v) = 0
  BY <1>2, <1>6
<1>8. Held(u, v) = Held(t, v) + (0 - One(c, v)) + 0 + One(c, v) + 0 + 0 /\ Held(t, v) \in Int
  BY <1>5, <1>7, HeldChanges
<1> QED  BY <1>2, <1>8

\* The cards of a choice go into the hand or onto the discard pile.
LEMMA PutCardsHolds ==
  ASSUME ConfigType, NEW t \in Tables, NEW p \in players, NEW i \in 0..Len(t.hand[p]),
         NEW cards \in Seq(Values), NEW action, NEW u, u = PutCards(t, p, action, i, cards)
  PROVE  /\ u \in Tables
         /\ \A s \in players \ {p} : u.hand[s] = t.hand[s]
         /\ u.pendingDraws = t.pendingDraws /\ u.duelPlates = t.duelPlates
         /\ u.duelPassCount = t.duelPassCount /\ u.copied = t.copied
         /\ \A v \in Values : Held(u, v) = Held(t, v) + CountOf(cards, v)
<1>1. /\ u \in Tables /\ t.hand \in [players -> Seq(Values)] /\ t.discardPile \in Cards
      /\ u.hand \in [players -> Seq(Values)]
  <2>1. u \in Tables
    BY PutCardsTyped
  <2> QED  BY <2>1 DEF Tables
<1>2. /\ u.drawPile = t.drawPile /\ u.pendingDraws = t.pendingDraws
      /\ u.duelPlates = t.duelPlates /\ u.duelPassCount = t.duelPassCount
      /\ u.copied = t.copied
  BY DEF PutCards, Tables
<1>3. /\ action = "insert" => u.hand = [t.hand EXCEPT ![p] = InsertAt(t.hand[p], i, cards)]
                              /\ u.discardPile = t.discardPile
      /\ action # "insert" => u.hand = t.hand /\ u.discardPile = Plus(t.discardPile, cards)
  BY DEF PutCards, Tables
<1>4. \A s \in players \ {p} : u.hand[s] = t.hand[s]
  BY <1>1, <1>3
<1>5. action = "insert" => u.hand[p] = InsertAt(t.hand[p], i, cards)
  BY <1>1, <1>3
<1>6. ASSUME NEW v \in Values
      PROVE  Held(u, v) = Held(t, v) + CountOf(cards, v)
  <2>1. /\ t.drawPile[v] \in Nat /\ t.discardPile[v] \in Nat /\ HandsHold(t.hand, v) \in Nat
        /\ PlatesHold(t.duelPlates, v) \in Nat /\ CountOf(t.pendingDraws, v) \in Nat
        /\ Held(t, v) \in Int /\ CountOf(cards, v) \in Nat
    BY HeldIsNat, CountOfNat
  <2>2. /\ u.drawPile[v] - t.drawPile[v] = 0
        /\ PlatesHold(u.duelPlates, v) - PlatesHold(t.duelPlates, v) = 0
        /\ CountOf(u.pendingDraws, v) - CountOf(t.pendingDraws, v) = 0
    BY <1>2, <2>1
  <2> DEFINE putDown  == u.discardPile[v] - t.discardPile[v]
             takenUp  == HandsHold(u.hand, v) - HandsHold(t.hand, v)
  <2>3. Held(u, v) = Held(t, v) + putDown + takenUp /\ putDown \in Int /\ takenUp \in Int
    <3>1. /\ putDown \in Int /\ takenUp \in Int
          /\ Held(u, v) = Held(t, v) + (u.drawPile[v] - t.drawPile[v])
                           + putDown + takenUp
                           + (PlatesHold(u.duelPlates, v) - PlatesHold(t.duelPlates, v))
                           + (CountOf(u.pendingDraws, v) - CountOf(t.pendingDraws, v))
      <4>1. t \in Tables /\ u \in Tables /\ u.copied = t.copied
        BY <1>1, <1>2
      <4>2. Held(u, v) = Held(t, v) + (u.drawPile[v] - t.drawPile[v])
                           + (u.discardPile[v] - t.discardPile[v])
                           + (HandsHold(u.hand, v) - HandsHold(t.hand, v))
                           + (PlatesHold(u.duelPlates, v) - PlatesHold(t.duelPlates, v))
                           + (CountOf(u.pendingDraws, v) - CountOf(t.pendingDraws, v))
        BY ONLY <4>1, ConfigType, v \in Values, HeldChanges
      <4>3. putDown \in Int /\ takenUp \in Int
        BY <1>1, HeldIsNat
      <4> QED  BY <4>2, <4>3
    <3> HIDE DEF putDown, takenUp
    <3> QED  BY <2>1, <2>2, <3>1
  <2>4. CASE action = "insert"
    <3>1. /\ CountOf(t.hand[p], v) \in Nat
          /\ HandsHold(u.hand, v)
               = HandsHold(t.hand, v) - CountOf(t.hand[p], v) + CountOf(u.hand[p], v)
      BY <1>1, <1>4, HandChanges
    <3>2. CountOf(u.hand[p], v) = CountOf(t.hand[p], v) + CountOf(cards, v)
      <4>1. t.hand[p] \in Seq(Values)
        BY <1>1
      <4>2. CountOf(InsertAt(t.hand[p], i, cards), v)
              = CountOf(t.hand[p], v) + CountOf(cards, v)
        BY <4>1, CountOfInsertAt
      <4> QED  BY <1>5, <2>4, <4>2
    <3>3. HandsHold(u.hand, v) - HandsHold(t.hand, v) = CountOf(cards, v)
      BY <2>1, <3>1, <3>2
    <3>4. u.discardPile[v] - t.discardPile[v] = 0
      BY <1>3, <2>1, <2>4
    <3>5. takenUp = CountOf(cards, v) /\ putDown = 0
      BY <3>3, <3>4
    <3> HIDE DEF putDown, takenUp
    <3> QED  BY <2>1, <2>3, <3>5
  <2>5. CASE action # "insert"
    <3>1. HandsHold(u.hand, v) - HandsHold(t.hand, v) = 0
      BY <1>3, <2>1, <2>5
    <3>2. u.discardPile[v] = t.discardPile[v] + CountOf(cards, v)
      BY <1>1, <1>3, <2>5, PlusHolds
    <3>3. u.discardPile[v] - t.discardPile[v] = CountOf(cards, v)
      BY <2>1, <3>2
    <3>4. takenUp = 0 /\ putDown = CountOf(cards, v)
      BY <3>1, <3>3
    <3> HIDE DEF putDown, takenUp
    <3> QED  BY <2>1, <2>3, <3>4
  <2> QED  BY <2>4, <2>5
<1> QED  BY <1>1, <1>2, <1>4, <1>6

\* A duel pass takes a plate off the table and is counted.
LEMMA TakePlateHolds ==
  ASSUME TypeOK, NEW p \in players, NEW c \in Values, duelPlates[p][c] > 0,
         NEW t, t = TakePlate(Table, p, c)
  PROVE  /\ t \in Tables /\ t.hand = hand /\ t.pendingDraws = pendingDraws
         /\ t.copied = copied
         /\ \A v \in Values : /\ Held(Table, v) \in Int /\ One(c, v) \in Nat
                              /\ Held(t, v) = Held(Table, v) - One(c, v)
         /\ PlatesUsed(duelPassCount, duelPlates) => PlatesUsed(t.duelPassCount, t.duelPlates)
<1>1. /\ ConfigType /\ TableType /\ Table \in Tables
      /\ duelPlates \in [players -> Cards] /\ duelPassCount \in [players -> Nat]
  BY TableTyped DEF TypeOK, TableType
<1>2. t \in Tables /\ t.hand = hand /\ t.duelPlates \in [players -> Cards]
      /\ t.duelPassCount \in [players -> Nat]
  <2>1. t \in Tables /\ t.hand = hand
    BY <1>1, TakePlateTyped
  <2> QED  BY <2>1 DEF Tables
<1> DEFINE plates == [duelPlates[p] EXCEPT ![c] = duelPlates[p][c] - 1]
<1>3. /\ t.pendingDraws = pendingDraws /\ t.drawPile = drawPile /\ t.discardPile = discardPile
      /\ t.copied = copied /\ Table.copied = copied
      /\ t.duelPlates = [duelPlates EXCEPT ![p] = plates]
      /\ t.duelPassCount = [duelPassCount EXCEPT ![p] = duelPassCount[p] + 1]
  BY DEF TakePlate, Table
<1>4. /\ t.duelPlates[p] = plates /\ \A s \in players \ {p} : t.duelPlates[s] = duelPlates[s]
      /\ t.duelPassCount[p] = duelPassCount[p] + 1
      /\ \A s \in players \ {p} : t.duelPassCount[s] = duelPassCount[s]
  <2> HIDE DEF plates
  <2> QED  BY <1>1, <1>3
<1>5. ASSUME NEW v \in Values
      PROVE  /\ duelPlates[p][v] \in Nat
             /\ t.duelPlates[p][v] = duelPlates[p][v] - One(c, v)
  <2>1. duelPlates[p] \in [Values -> Nat] /\ duelPlates[p][v] \in Nat
    BY <1>1 DEF Cards
  <2>2. plates[v] = IF v = c THEN duelPlates[p][v] - 1 ELSE duelPlates[p][v]
    BY <2>1
  <2> HIDE DEF plates
  <2> QED  BY <1>4, <2>1, <2>2 DEF One
<1>6. ASSUME NEW v \in Values
      PROVE  /\ Held(Table, v) \in Int /\ One(c, v) \in Nat
             /\ Held(t, v) = Held(Table, v) - One(c, v)
  <2>1. One(c, v) \in Nat
    BY OneIsNat
  <2>2. /\ Table.hand = hand /\ Table.drawPile = drawPile /\ Table.discardPile = discardPile
        /\ Table.duelPlates = duelPlates /\ Table.pendingDraws = pendingDraws
    BY DEF Table
  <2>3. /\ drawPile[v] \in Nat /\ discardPile[v] \in Nat
        /\ HandsHold(hand, v) \in Nat /\ PlatesHold(duelPlates, v) \in Nat
        /\ CountOf(pendingDraws, v) \in Nat /\ Held(Table, v) \in Int
    BY <1>1, <2>2, HeldIsNat
  <2>4. PlatesHold(t.duelPlates, v)
          = PlatesHold(duelPlates, v) - duelPlates[p][v] + t.duelPlates[p][v]
    <3> HIDE DEF plates
    <3> QED  BY <1>1, <1>2, <1>4, PlatesChange
  <2>5. PlatesHold(t.duelPlates, v) - PlatesHold(Table.duelPlates, v) = 0 - One(c, v)
    <3>1. PlatesHold(t.duelPlates, v) - PlatesHold(duelPlates, v) = 0 - One(c, v)
      BY <1>5, <2>1, <2>3, <2>4
    <3> QED  BY <2>2, <3>1
  <2>6. /\ t.drawPile[v] - Table.drawPile[v] = 0
        /\ t.discardPile[v] - Table.discardPile[v] = 0
        /\ HandsHold(t.hand, v) - HandsHold(Table.hand, v) = 0
        /\ CountOf(t.pendingDraws, v) - CountOf(Table.pendingDraws, v) = 0
    BY <1>2, <1>3, <2>2, <2>3
  <2>7. Held(t, v) = Held(Table, v) + 0 + 0 + 0 + (0 - One(c, v)) + 0
    BY <1>1, <1>2, <1>3, <2>5, <2>6, HeldChanges
  <2> QED  BY <2>1, <2>3, <2>7
<1>7. ASSUME PlatesUsed(duelPassCount, duelPlates), NEW s \in players
      PROVE  t.duelPassCount[s] + SizeOf(t.duelPlates[s]) <= PlatesPerPlayer
  <2>1. duelPassCount[s] + SizeOf(duelPlates[s]) <= PlatesPerPlayer
    BY <1>7 DEF PlatesUsed
  <2>2. CASE s = p
    <3>1. duelPlates[p] \in [Values -> Nat] /\ duelPlates[p][c] - 1 \in Nat
          /\ duelPassCount[p] \in Nat /\ duelPlates[p][c] \in Nat
      BY <1>1 DEF Cards
    <3>2. /\ SizeOf(plates) = SizeOf(duelPlates[p]) - duelPlates[p][c] + (duelPlates[p][c] - 1)
          /\ SizeOf(duelPlates[p]) \in Nat
      BY <3>1, ValuesFinite, SizeOfExcept, CardsInFinite
    <3>3. SizeOf(t.duelPlates[p]) = SizeOf(duelPlates[p]) - 1
      BY <1>4, <3>1, <3>2
    <3> QED  BY <1>4, <2>1, <2>2, <3>1, <3>2, <3>3 DEF PlatesPerPlayer
  <2>3. CASE s # p
    BY <1>4, <2>1, <2>3
  <2> QED  BY <2>2, <2>3
<1> QED  BY <1>2, <1>3, <1>6, <1>7 DEF PlatesUsed

\* The first round.
LEMMA StartKeepsCards ==
  ASSUME IInv, CardInv, TypeOK', Start
  PROVE  CardInv'
<1>1. phase = "DEALING" /\ StartRound(Table, {}, None, None)
  BY DEF Start
<1>2. UNCHANGED config /\ eliminated' = eliminated /\ gameLoser' = gameLoser
  BY DEF Start, config
<1>3. UNCHANGED players /\ UNCHANGED mode
  BY <1>2 DEF config
<1>4. /\ ConfigType /\ eliminated = {} /\ gameLoser = None /\ Table \in Tables
      /\ Cardinality(players \ {}) >= 2
  <2>1. ConfigType /\ eliminated = {} /\ gameLoser = None /\ Table \in Tables
    BY <1>1, TableTyped DEF IInv, TypeOK, FreshBeforeDeal, CardInv, LoserAtTheEnd
  <2>2. Cardinality(players) \in 2..6 /\ players \ {} = players
    BY <2>1, Seats
  <2> QED  BY <2>1, <2>2
<1>5. \A v \in Values : Held(Table, v) <= CopiesPerValue
  <2> SUFFICES ASSUME NEW v \in Values
               PROVE  Held(Table, v) <= CopiesPerValue
    OBVIOUS
  <2>1. /\ CountsByValue(v) = Held(Table, v) + CountOf(pile, v) + CountOf(trickPileForPick, v)
                                + market[v] + copied[v]
        /\ copied[v] \in Nat
        /\ Held(Table, v) \in Int /\ CountOf(pile, v) \in Nat
        /\ CountOf(trickPileForPick, v) \in Nat /\ market[v] \in Nat
    BY CountsNow DEF IInv, CountsAgree, InGame
  <2>2. CountsByValue(v) <= CopiesPerValue + copied[v] /\ CopiesPerValue \in Nat
    BY EngineAssumption DEF CardInv, CopiesAccounted
  <2> QED  BY <2>1, <2>2
<1>6. /\ \A s \in players : Table.pendingDraws[s] = None
      /\ PlatesUsed(Table.duelPassCount, Table.duelPlates)
  BY <1>1, <1>4 DEF CardInv, DrawnInTurn, DuelPassesUsePlates, PlatesUsed, Table
<1>7. /\ \A v \in Values : CountsByValue(v)' <= CopiesPerValue + copied'[v]
      /\ mode # "RODIZIO" =>
           \A v \in Values : CountsByValue(v)' = CopiesPerValue + copied'[v]
      /\ \A s \in players : pendingDraws'[s] = None
      /\ DuelPassesUsePlates'
  <2>1. PICK elim \in SUBSET players : elim = {}
    OBVIOUS
  <2>2. StartRound(Table, elim, None, None) /\ \A s \in elim : Table.hand[s] = << >>
        /\ Cardinality(players \ elim) >= 2
    BY <1>1, <1>4, <2>1
  <2> QED  BY <1>2, <1>4, <1>5, <1>6, <2>1, <2>2, StartRoundCards
<1>8. phase' = "PLAYER_TURN" /\ trickPileForPick' = << >>
  BY <1>1 DEF StartRound
<1>9. CopiesAccounted' /\ CardIntegrity'
  BY <1>3, <1>7 DEF CopiesAccounted, CardIntegrity
<1>10. LeaversHoldNone' /\ LoserAtTheEnd' /\ OfferedOnce' /\ DrawnInTurn'
  BY <1>2, <1>3, <1>4, <1>7, <1>8
     DEF LeaversHoldNone, LoserAtTheEnd, OfferedOnce, DrawnInTurn
<1> QED  BY <1>7, <1>9, <1>10 DEF CardInv

\* A handler of a round that goes on, with all cards of t still in the game.
LEMMA HandlerCards ==
  ASSUME IInv, CardInv, InPlay, TypeOK', UNCHANGED config,
         UNCHANGED <<eliminated, gameLoser, market>>,
         NEW t \in Tables, SetTable(t),
         Counted(t, pile', trickPileForPick', market),
         phase' \in Phases \ {"DEALING", "GAME_OVER"},
         phase' # "TRICK_PICK" => trickPileForPick' = << >>,
         \A s \in eliminated : t.hand[s] = << >>,
         eliminated = {} =>
           \A s \in players : t.pendingDraws[s] # None =>
             phase' = "PASS_PICK" /\ s = CurrentPlayer' /\ ~IsDuel',
         PlatesUsed(t.duelPassCount, t.duelPlates)
  PROVE  CardInv'
<1>1. ConfigType /\ gameLoser = None
  BY CardFacts DEF IInv, TypeOK
<1>2. eliminated' = eliminated /\ gameLoser' = gameLoser /\ market' = market
  OBVIOUS
<1>3. /\ \A v \in Values :
           InGame(t, pile', trickPileForPick', market', v) <= CopiesPerValue
      /\ mode # "RODIZIO" /\ eliminated' = {} =>
           \A v \in Values :
             InGame(t, pile', trickPileForPick', market', v) = CopiesPerValue
  BY <1>2 DEF Counted
<1>4. phase' \notin {"DEALING", "GAME_OVER"}
  OBVIOUS
<1> QED  BY <1>1, <1>2, <1>3, <1>4, GoesOnCards

\* The table is as it was.
LEMMA SameTable ==
  ASSUME UNCHANGED tableVars
  PROVE  SetTable(Table)
BY DEF tableVars, SetTable, Table

\* recoverStuckTurn.
LEMMA RecoverKeepsCards ==
  ASSUME IInv, CardInv, TypeOK', RecoverStuckTurn
  PROVE  CardInv'
<1>1. InPlay /\ phase = "PLAYER_TURN" /\ phase' = "PLAYER_TURN"
  BY DEF RecoverStuckTurn, InPlay, Phases, AdvanceTurn
<1>2. /\ UNCHANGED config /\ UNCHANGED tableVars /\ UNCHANGED <<eliminated, gameLoser, market>>
      /\ pile' = pile /\ trickPileForPick' = trickPileForPick
  BY DEF RecoverStuckTurn, gameVars, trickVars, config, tableVars
<1>3. /\ Table \in Tables /\ SetTable(Table)
      /\ Table.hand = hand /\ Table.pendingDraws = pendingDraws
      /\ Table.duelPassCount = duelPassCount /\ Table.duelPlates = duelPlates
  BY <1>1, <1>2, InPlayFacts, SameTable DEF Table
<1>4. /\ Counted(Table, pile, trickPileForPick, market)
      /\ \A s \in eliminated : hand[s] = << >>
      /\ PlatesUsed(duelPassCount, duelPlates)
      /\ trickPileForPick = << >>
      /\ eliminated = {} => \A s \in players : pendingDraws[s] = None
  BY <1>1, CardFacts
<1>5. phase' \in Phases \ {"DEALING", "GAME_OVER"}
  BY <1>1 DEF Phases
<1> QED  BY <1>1, <1>2, <1>3, <1>4, <1>5, HandlerCards

\* applyPassTurn.
LEMMA PassKeepsCards ==
  ASSUME IInv, CardInv, TypeOK', NEW p \in players, NEW i \in Places(p), PassTurn(p, i)
  PROVE  CardInv'
<1>1. InPlay /\ phase = "PLAYER_TURN" /\ p \in PlayersInRound
  BY TurnOfOneInRound DEF PassTurn
<1>2. UNCHANGED config /\ TypeOK /\ ConfigType /\ TableType
      /\ drawPile \in Cards /\ hand \in [players -> Seq(Values)]
  BY DEF PassTurn, config, IInv, TypeOK, TableType
<1>3. /\ Counted(Table, pile, trickPileForPick, market)
      /\ \A s \in eliminated : hand[s] = << >>
      /\ PlatesUsed(duelPassCount, duelPlates)
      /\ trickPileForPick = << >>
      /\ eliminated = {} => \A s \in players : pendingDraws[s] = None
  BY <1>1, CardFacts
<1>4. /\ pile \in Seq(Values) /\ trickPileForPick \in Seq(Values) /\ market \in Cards
      /\ Table \in Tables /\ pendingDraws \in [players -> Values \union {None}]
  BY <1>2, TableTyped DEF TypeOK, TrickType, TurnType, TableType
<1> DEFINE t == [Table EXCEPT !.pendingDraws[p] = None]
<1>5. /\ t \in Tables
      /\ t.hand = hand /\ t.drawPile = drawPile /\ t.discardPile = discardPile
      /\ t.duelPlates = duelPlates /\ t.duelPassCount = duelPassCount
      /\ t.copied = copied
      /\ t.pendingDraws = [pendingDraws EXCEPT ![p] = None]
      /\ \A v \in Values : /\ Held(Table, v) \in Int /\ One(pendingDraws[p], v) \in Nat
                           /\ Held(t, v) = Held(Table, v) - One(pendingDraws[p], v)
  BY <1>2, ForgetDrawn
<1> HIDE DEF t
<1>6. eliminated = {} => \A s \in players : t.pendingDraws[s] = None
  BY <1>3, <1>4, <1>5
<1>7. ASSUME NEW u \in Tables, \A v \in Values : Held(u, v) = Held(t, v)
      PROVE  Counted(u, pile, trickPileForPick, market)
  <2>1. ASSUME NEW v \in Values
        PROVE  /\ InGame(u, pile, trickPileForPick, market, v)
                    <= InGame(Table, pile, trickPileForPick, market, v)
               /\ eliminated = {} => InGame(u, pile, trickPileForPick, market, v)
                                       = InGame(Table, pile, trickPileForPick, market, v)
               /\ InGame(u, pile, trickPileForPick, market, v) \in Int
               /\ InGame(Table, pile, trickPileForPick, market, v) \in Int
    <3>1. /\ Held(u, v) \in Int /\ CountOf(pile, v) \in Nat
          /\ CountOf(trickPileForPick, v) \in Nat /\ market[v] \in Nat
      BY <1>2, <1>4, HeldIsNat, CountOfNat DEF Cards
    <3>2. /\ Held(Table, v) \in Int /\ One(pendingDraws[p], v) \in Nat
          /\ Held(u, v) = Held(Table, v) - One(pendingDraws[p], v)
      BY <1>5, <1>7
    <3>3. eliminated = {} => One(pendingDraws[p], v) = 0
      BY <1>3, OneIsNat
    <3> QED  BY <3>1, <3>2, <3>3 DEF InGame
  <2>2. \A v \in Values : InGame(u, pile, trickPileForPick, market, v) <= CopiesPerValue
    <3> SUFFICES ASSUME NEW v \in Values
                 PROVE  InGame(u, pile, trickPileForPick, market, v) <= CopiesPerValue
      OBVIOUS
    <3>1. InGame(Table, pile, trickPileForPick, market, v) <= CopiesPerValue
          /\ CopiesPerValue \in Nat
      BY <1>3, EngineAssumption DEF Counted
    <3> QED  BY <2>1, <3>1
  <2>3. mode # "RODIZIO" /\ eliminated = {} =>
          \A v \in Values : InGame(u, pile, trickPileForPick, market, v) = CopiesPerValue
    BY <1>3, <2>1 DEF Counted
  <2> QED  BY <2>2, <2>3 DEF Counted
<1>8. CASE IsEmptyBag(drawPile)
  <2>1. AfterPass(t, p)
    BY <1>8 DEF PassTurn, t
  <2>2. Counted(t, pile, trickPileForPick, market)
    BY <1>5, <1>7
  <2> QED  BY <1>1, <1>2, <1>3, <1>5, <1>6, <2>1, <2>2, AfterPassCards
<1>9. CASE ~IsEmptyBag(drawPile)
  <2>1. PICK c \in Values :
          /\ drawPile[c] > 0
          /\ AfterPass([t EXCEPT !.drawPile[c] = @ - 1,
                                 !.hand[p] = InsertAt(@, i, <<c>>)], p)
    BY <1>9 DEF PassTurn, t
  <2> DEFINE u     == [t EXCEPT !.drawPile[c] = @ - 1, !.hand[p] = InsertAt(@, i, <<c>>)]
             less  == [drawPile EXCEPT ![c] = drawPile[c] - 1]
             after == [hand EXCEPT ![p] = InsertAt(hand[p], i, <<c>>)]
  <2>2. AfterPass(u, p)
    BY <2>1
  <2>3. less \in Cards /\ \A v \in Values : less[v] = drawPile[v] - One(c, v)
    <3>1. less \in Cards
      BY <1>2, <2>1 DEF Cards
    <3>2. \A v \in Values : drawPile[v] \in Nat
                            /\ less[v] = IF v = c THEN drawPile[v] - 1 ELSE drawPile[v]
      BY <1>2 DEF Cards
    <3> HIDE DEF less
    <3> QED  BY <3>1, <3>2 DEF One
  <2>4. hand[p] \in Seq(Values) /\ <<c>> \in Seq(Values) /\ i \in 0..Len(hand[p])
    BY <1>2 DEF Places
  <2>5. InsertAt(hand[p], i, <<c>>) \in Seq(Values)
    BY <2>4, InsertAtType
  <2>6. /\ after \in [players -> Seq(Values)] /\ after[p] = InsertAt(hand[p], i, <<c>>)
        /\ \A s \in players \ {p} : after[s] = hand[s]
    BY <1>2, <2>5
  <2>7. /\ u \in Tables /\ u.hand = after /\ u.drawPile = less
        /\ u.discardPile = t.discardPile /\ u.duelPlates = t.duelPlates
        /\ u.pendingDraws = t.pendingDraws /\ u.duelPassCount = t.duelPassCount
        /\ u.copied = t.copied
    <3>1. u = [t EXCEPT !.drawPile = less, !.hand = after]
      BY <1>5 DEF t, Table
    <3> HIDE DEF u, less, after
    <3> QED  BY <1>5, <2>3, <2>6, <3>1 DEF Tables
  <2> HIDE DEF u, less, after
  <2>8. \A v \in Values : Held(u, v) = Held(t, v)
    <3> SUFFICES ASSUME NEW v \in Values
                 PROVE  Held(u, v) = Held(t, v)
      OBVIOUS
    <3>1. /\ u.drawPile[v] = t.drawPile[v] - One(c, v)
          /\ i \in 0..Len(t.hand[p]) /\ u.hand[p] = InsertAt(t.hand[p], i, <<c>>)
          /\ \A s \in players \ {p} : u.hand[s] = t.hand[s]
      BY <1>5, <2>3, <2>4, <2>6, <2>7
    <3>2. /\ u.discardPile = t.discardPile /\ u.duelPlates = t.duelPlates
          /\ u.pendingDraws = t.pendingDraws /\ u.copied = t.copied
          /\ u \in Tables /\ t \in Tables /\ ConfigType
      BY <1>2, <1>5, <2>7
    <3> QED  BY ONLY <3>1, <3>2, p \in players, c \in Values, v \in Values, DrawIntoHand
  <2>9. Counted(u, pile, trickPileForPick, market)
    BY <1>7, <2>7, <2>8
  <2>10. \A s \in eliminated : u.hand[s] = << >>
    <3>1. \A s \in eliminated : s \in players \ {p}
      BY <1>1, <1>2 DEF TypeOK, GameType, PlayersInRound, ActivePlayers
    <3> QED  BY <1>3, <2>6, <2>7, <3>1
  <2> QED  BY <1>1, <1>2, <1>3, <1>5, <1>6, <2>2, <2>7, <2>9, <2>10, AfterPassCards
<1> QED  BY <1>8, <1>9

\* applyDrawCard outside a duel: the card waits.
LEMMA DrawKeepsCards ==
  ASSUME IInv, CardInv, TypeOK', NEW p \in players, DrawCard(p)
  PROVE  CardInv'
<1>1. InPlay /\ phase = "PLAYER_TURN" /\ p = CurrentPlayer /\ ~IsDuel
  BY TurnOfOneInRound DEF DrawCard
<1>2. PICK c \in Values :
        /\ drawPile[c] > 0
        /\ drawPile' = [drawPile EXCEPT ![c] = @ - 1]
        /\ pendingDraws' = [pendingDraws EXCEPT ![p] = c]
  BY DEF DrawCard
<1>3. /\ phase' = "PASS_PICK"
      /\ UNCHANGED config /\ UNCHANGED <<eliminated, gameLoser, market>>
      /\ pile' = pile /\ trickPileForPick' = trickPileForPick
      /\ hand' = hand /\ discardPile' = discardPile /\ duelPlates' = duelPlates
      /\ duelPassCount' = duelPassCount /\ copied' = copied
      /\ players' = players /\ currentTurnIndex' = currentTurnIndex
  BY DEF DrawCard, config, gameVars, trickVars
<1>4. /\ ConfigType /\ Table \in Tables /\ drawPile \in Cards
      /\ pile \in Seq(Values) /\ trickPileForPick \in Seq(Values) /\ market \in Cards
      /\ pendingDraws \in [players -> Values \union {None}]
  BY <1>1, InPlayFacts DEF TableType, TrickType, TurnType
<1>5. /\ Counted(Table, pile, trickPileForPick, market)
      /\ \A s \in eliminated : hand[s] = << >>
      /\ PlatesUsed(duelPassCount, duelPlates)
      /\ trickPileForPick = << >>
      /\ eliminated = {} => \A s \in players : pendingDraws[s] = None
  BY <1>1, CardFacts
<1> DEFINE less  == [drawPile EXCEPT ![c] = @ - 1]
           drawn == [pendingDraws EXCEPT ![p] = c]
           t     == [Table EXCEPT !.drawPile = less, !.pendingDraws = drawn]
<1>6. less \in Cards /\ \A v \in Values : less[v] = drawPile[v] - One(c, v)
  <2>1. less \in Cards
    BY <1>2, <1>4 DEF Cards
  <2>2. \A v \in Values : drawPile[v] \in Nat
                          /\ less[v] = IF v = c THEN drawPile[v] - 1 ELSE drawPile[v]
    BY <1>4 DEF Cards
  <2> HIDE DEF less
  <2> QED  BY <2>1, <2>2 DEF One
<1>7. /\ t \in Tables /\ t.drawPile = less /\ t.pendingDraws = drawn
      /\ t.hand = hand /\ t.discardPile = discardPile /\ t.duelPlates = duelPlates
      /\ t.duelPassCount = duelPassCount /\ t.copied = copied /\ Table.copied = copied
  <2>1. drawn \in [players -> Values \union {None}]
    BY <1>4
  <2> HIDE DEF less, drawn
  <2> QED  BY <1>4, <1>6, <2>1 DEF Tables, Table
<1>8. SetTable(t)
  <2> HIDE DEF t
  <2> QED  BY <1>2, <1>3, <1>7 DEF SetTable
<1> HIDE DEF t, less
<1>9. ASSUME NEW v \in Values
      PROVE  /\ Held(t, v) = Held(Table, v) - One(pendingDraws[p], v)
             /\ Held(Table, v) \in Int /\ One(pendingDraws[p], v) \in Nat
  <2>1. One(c, v) \in Nat /\ One(pendingDraws[p], v) \in Nat
    BY OneIsNat
  <2>2. /\ CountOf(pendingDraws, v) \in Nat /\ CountOf(drawn, v) \in Nat
        /\ CountOf(drawn, v) = CountOf(pendingDraws, v) - One(pendingDraws[p], v) + One(c, v)
    BY <1>4, DrawnChanges
  <2> HIDE DEF drawn
  <2>3. /\ Table.hand = hand /\ Table.drawPile = drawPile /\ Table.discardPile = discardPile
        /\ Table.duelPlates = duelPlates /\ Table.pendingDraws = pendingDraws
    BY DEF Table
  <2>4. /\ drawPile[v] \in Nat /\ discardPile[v] \in Nat
        /\ HandsHold(hand, v) \in Nat /\ PlatesHold(duelPlates, v) \in Nat
        /\ Held(Table, v) \in Int
    BY <1>4, <2>3, HeldIsNat
  <2>5. CountOf(t.pendingDraws, v) - CountOf(Table.pendingDraws, v)
          = One(c, v) - One(pendingDraws[p], v)
    <3>1. CountOf(drawn, v) - CountOf(pendingDraws, v) = One(c, v) - One(pendingDraws[p], v)
      BY <2>1, <2>2
    <3> QED  BY <1>7, <2>3, <3>1
  <2>6. t.drawPile[v] - Table.drawPile[v] = 0 - One(c, v)
    <3>1. less[v] - drawPile[v] = 0 - One(c, v)
      BY <1>6, <2>1, <2>4
    <3> QED  BY <1>7, <2>3, <3>1
  <2>7. /\ t.discardPile[v] - Table.discardPile[v] = 0
        /\ HandsHold(t.hand, v) - HandsHold(Table.hand, v) = 0
        /\ PlatesHold(t.duelPlates, v) - PlatesHold(Table.duelPlates, v) = 0
    BY <1>7, <2>3, <2>4
  <2>8. Held(t, v) = Held(Table, v) + (0 - One(c, v)) + 0 + 0 + 0
                       + (One(c, v) - One(pendingDraws[p], v))
    BY <1>4, <1>7, <2>5, <2>6, <2>7, HeldChanges
  <2> QED  BY <2>1, <2>4, <2>8
<1>10. ASSUME NEW v \in Values
       PROVE  /\ InGame(t, pile, trickPileForPick, market, v) <= CopiesPerValue
              /\ mode # "RODIZIO" /\ eliminated = {} =>
                   InGame(t, pile, trickPileForPick, market, v) = CopiesPerValue
  <2>1. /\ CountOf(pile, v) \in Nat /\ CountOf(trickPileForPick, v) \in Nat /\ market[v] \in Nat
        /\ CopiesPerValue \in Nat
    BY <1>4, CountOfNat, EngineAssumption DEF Cards
  <2>2. eliminated = {} => One(pendingDraws[p], v) = 0
    BY <1>5, OneIsNat
  <2>3. /\ Held(Table, v) + CountOf(pile, v) + CountOf(trickPileForPick, v) + market[v]
             <= CopiesPerValue
        /\ mode # "RODIZIO" /\ eliminated = {} =>
             Held(Table, v) + CountOf(pile, v) + CountOf(trickPileForPick, v) + market[v]
               = CopiesPerValue
    BY <1>5 DEF Counted, InGame
  <2> QED  BY <1>9, <2>1, <2>2, <2>3 DEF InGame
<1>11. Counted(t, pile', trickPileForPick', market)
  <2>1. Counted(t, pile, trickPileForPick, market)
    BY <1>10 DEF Counted
  <2> QED  BY <1>3, <2>1
<1>12. ~IsDuel' /\ CurrentPlayer' = CurrentPlayer
  BY <1>1, <1>3 DEF IsDuel, CurrentPlayer, ActivePlayers
<1>13. eliminated = {} =>
         \A s \in players : t.pendingDraws[s] # None =>
           phase' = "PASS_PICK" /\ s = CurrentPlayer' /\ ~IsDuel'
  <2>1. eliminated = {} => \A s \in players \ {p} : t.pendingDraws[s] = None
    BY <1>4, <1>5, <1>7
  <2> QED  BY <1>1, <1>3, <1>12, <2>1
<1>14. phase' \in Phases \ {"DEALING", "GAME_OVER"}
  BY <1>3 DEF Phases
<1>15. /\ \A s \in eliminated : t.hand[s] = << >>
       /\ PlatesUsed(t.duelPassCount, t.duelPlates)
       /\ phase' # "TRICK_PICK" => trickPileForPick' = << >>
  BY <1>3, <1>5, <1>7
<1> QED  BY <1>1, <1>3, <1>7, <1>8, <1>11, <1>13, <1>14, <1>15, HandlerCards

\* applyDrawCard in a duel.
LEMMA DuelPassKeepsCards ==
  ASSUME IInv, CardInv, TypeOK', NEW p \in players, DuelPass(p)
  PROVE  CardInv'
<1>1. InPlay /\ phase = "PLAYER_TURN" /\ p \in PlayersInRound
  BY TurnOfOneInRound DEF DuelPass
<1>2. /\ ConfigType /\ Table \in Tables
      /\ eliminated \in SUBSET players /\ Cardinality(players \ eliminated) >= 2
      /\ pile \in Seq(Values) /\ trickPileForPick \in Seq(Values) /\ market \in Cards
  BY <1>1, InPlayFacts DEF TrickType, TurnType
<1>3. /\ gameLoser = None /\ Counted(Table, pile, trickPileForPick, market)
      /\ \A s \in eliminated : hand[s] = << >>
      /\ PlatesUsed(duelPassCount, duelPlates)
      /\ trickPileForPick = << >>
      /\ eliminated = {} => \A s \in players : pendingDraws[s] = None
  BY <1>1, CardFacts
<1>4. /\ Table.hand = hand /\ Table.pendingDraws = pendingDraws
      /\ Table.duelPassCount = duelPassCount /\ Table.duelPlates = duelPlates
  BY DEF Table
<1> DEFINE rest == UNCHANGED <<trickVars, outOfRound, trickPileForPick>>
<1>5. CASE IsEmptyBag(duelPlates[p])
  <2>1. ResolveRoundEnd(Table, eliminated, tokensLeft, p, rest) /\ UNCHANGED config
    BY <1>5 DEF DuelPass, config
  <2>2. HandsOn(Table, eliminated)
    <3>1. \A v \in Values : Held(Table, v) <= CopiesPerValue
      BY <1>2, <1>3, CountedHeld
    <3> QED  BY <1>3, <1>4, <3>1 DEF HandsOn
  <2>3. rest => pile' = pile /\ trickPileForPick' = trickPileForPick
    BY DEF trickVars
  <2>4. /\ rest => \A v \in Values :
             InGame(Table, pile', trickPileForPick', market, v) <= CopiesPerValue
        /\ rest /\ mode # "RODIZIO" /\ eliminated = {} =>
             \A v \in Values :
               InGame(Table, pile', trickPileForPick', market, v) = CopiesPerValue
    BY <1>3, <2>3 DEF Counted
  <2>5. p \in players \ eliminated
    BY <1>1 DEF PlayersInRound, ActivePlayers
  <2> HIDE DEF rest
  <2> QED  BY <1>2, <1>3, <2>1, <2>2, <2>4, <2>5, RoundEndCards
<1>6. CASE ~IsEmptyBag(duelPlates[p])
  <2>1. /\ phase' = "DUEL_PASS_PICK"
        /\ UNCHANGED config /\ UNCHANGED <<eliminated, gameLoser, market>>
        /\ UNCHANGED tableVars /\ pile' = pile /\ trickPileForPick' = trickPileForPick
    BY <1>6 DEF DuelPass, config, gameVars, trickVars, tableVars
  <2>2. SetTable(Table)
    BY <2>1, SameTable
  <2>3. Counted(Table, pile', trickPileForPick', market)
    BY <1>3, <2>1
  <2>4. phase' \in Phases \ {"DEALING", "GAME_OVER"}
    BY <2>1 DEF Phases
  <2> QED  BY <1>1, <1>2, <1>3, <1>4, <2>1, <2>2, <2>3, <2>4, HandlerCards
<1> QED  BY <1>5, <1>6

\* applyDuelPassPick.
LEMMA PickPlateKeepsCards ==
  ASSUME IInv, GameInv, CardInv, TypeOK', NEW p \in players, PickPlate(p)
  PROVE  CardInv'
<1>1. TypeOK /\ TableType
  BY DEF IInv, TypeOK
<1>2. PICK c \in Values, action \in {"insert", "discard"}, i \in Places(p) :
        DuelPassPick(p, c, action, i)
  <2>1. PICK c \in Values : \/ \E i \in Places(p) : DuelPassPick(p, c, "insert", i)
                            \/ DuelPassPick(p, c, "discard", 0)
    BY DEF PickPlate
  <2>2. 0 \in Places(p)
    BY <1>1, FirstPlace
  <2> QED  BY <2>1, <2>2
<1> DEFINE same  == UNCHANGED <<trickVars, outOfRound, trickPileForPick>>
           taken == TakePlate(Table, p, c)
           t     == PutCards(taken, p, action, i, <<c>>)
<1>3. /\ phase = "DUEL_PASS_PICK" /\ pendingDuelPick = p /\ duelPlates[p][c] > 0
      /\ IF t.duelPassCount[p] >= DuelPassLimit
         THEN ResolveRoundEnd(t, eliminated, tokensLeft, p, same)
         ELSE /\ AdvanceTurn(eliminated, outOfRound)
              /\ SetTable(t)
              /\ same
              /\ UNCHANGED lastWiperId
              /\ UNCHANGED gameVars
      /\ UNCHANGED config
  BY <1>2 DEF DuelPassPick
<1>4. InPlay /\ p \in PlayersInRound
  BY <1>3 DEF InPlay, Phases, GameInv, DuelPickInRound
<1>5. /\ ConfigType /\ Table \in Tables
      /\ eliminated \in SUBSET players /\ Cardinality(players \ eliminated) >= 2
      /\ pile \in Seq(Values) /\ trickPileForPick \in Seq(Values) /\ market \in Cards
  BY <1>4, InPlayFacts DEF TrickType, TurnType
<1>6. /\ gameLoser = None /\ Counted(Table, pile, trickPileForPick, market)
      /\ \A s \in eliminated : hand[s] = << >>
      /\ PlatesUsed(duelPassCount, duelPlates)
      /\ trickPileForPick = << >>
      /\ eliminated = {} => \A s \in players : pendingDraws[s] = None
  BY <1>3, <1>4, CardFacts
<1>7. /\ taken \in Tables /\ taken.hand = hand /\ taken.pendingDraws = pendingDraws
      /\ \A v \in Values : /\ Held(Table, v) \in Int /\ One(c, v) \in Nat
                           /\ Held(taken, v) = Held(Table, v) - One(c, v)
      /\ PlatesUsed(taken.duelPassCount, taken.duelPlates)
  BY <1>1, <1>3, <1>6, TakePlateHolds
<1>8. i \in 0..Len(taken.hand[p]) /\ <<c>> \in Seq(Values)
  BY <1>2, <1>7 DEF Places
<1> HIDE DEF taken
<1>9. /\ t \in Tables
      /\ \A s \in players \ {p} : t.hand[s] = taken.hand[s]
      /\ t.pendingDraws = taken.pendingDraws /\ t.duelPlates = taken.duelPlates
      /\ t.duelPassCount = taken.duelPassCount
      /\ \A v \in Values : Held(t, v) = Held(taken, v) + CountOf(<<c>>, v)
  <2> DEFINE cards == <<c>>
  <2>1. cards \in Seq(Values) /\ t = PutCards(taken, p, action, i, cards)
    BY <1>8
  <2> HIDE DEF cards, t
  <2>2. /\ t \in Tables
        /\ \A s \in players \ {p} : t.hand[s] = taken.hand[s]
        /\ t.pendingDraws = taken.pendingDraws /\ t.duelPlates = taken.duelPlates
        /\ t.duelPassCount = taken.duelPassCount
        /\ \A v \in Values : Held(t, v) = Held(taken, v) + CountOf(cards, v)
    BY <1>5, <1>7, <1>8, <2>1, PutCardsHolds
  <2> QED  BY <2>2 DEF cards
<1> HIDE DEF t
<1>10. \A v \in Values : Held(t, v) = Held(Table, v)
  <2> SUFFICES ASSUME NEW v \in Values
               PROVE  Held(t, v) = Held(Table, v)
    OBVIOUS
  <2>1. CountOf(<<c>>, v) = One(c, v)
    BY CountOfFew
  <2>2. /\ Held(Table, v) \in Int /\ One(c, v) \in Nat
        /\ Held(taken, v) = Held(Table, v) - One(c, v)
        /\ Held(t, v) = Held(taken, v) + One(c, v)
    BY <1>7, <1>9, <2>1
  <2> QED  BY <2>2
<1>11. Counted(t, pile, trickPileForPick, market)
  BY <1>6, <1>10 DEF Counted, InGame
<1>12. /\ \A s \in eliminated : t.hand[s] = << >>
       /\ eliminated = {} => \A s \in players : t.pendingDraws[s] = None
       /\ PlatesUsed(t.duelPassCount, t.duelPlates)
  BY <1>4, <1>5, <1>6, <1>7, <1>9 DEF PlayersInRound, ActivePlayers
<1>13. same => pile' = pile /\ trickPileForPick' = trickPileForPick
  BY DEF trickVars
<1>14. CASE t.duelPassCount[p] >= DuelPassLimit
  <2>1. ResolveRoundEnd(t, eliminated, tokensLeft, p, same) /\ UNCHANGED config
    BY <1>3, <1>14
  <2>2. HandsOn(t, eliminated)
    <3>1. \A v \in Values : Held(t, v) <= CopiesPerValue
      BY <1>5, <1>9, <1>11, CountedHeld
    <3> QED  BY <1>12, <3>1 DEF HandsOn
  <2>3. /\ same => \A v \in Values :
             InGame(t, pile', trickPileForPick', market, v) <= CopiesPerValue
        /\ same /\ mode # "RODIZIO" /\ eliminated = {} =>
             \A v \in Values :
               InGame(t, pile', trickPileForPick', market, v) = CopiesPerValue
    BY <1>11, <1>13 DEF Counted
  <2>4. p \in players \ eliminated
    BY <1>4 DEF PlayersInRound, ActivePlayers
  <2> HIDE DEF same
  <2> QED  BY <1>5, <1>6, <1>9, <2>1, <2>2, <2>3, <2>4, RoundEndCards
<1>15. CASE ~(t.duelPassCount[p] >= DuelPassLimit)
  <2>1. /\ phase' = "PLAYER_TURN" /\ SetTable(t) /\ same
        /\ UNCHANGED <<eliminated, gameLoser, market>> /\ UNCHANGED config
    BY <1>3, <1>15 DEF AdvanceTurn, gameVars
  <2>2. Counted(t, pile', trickPileForPick', market) /\ trickPileForPick' = << >>
    BY <1>6, <1>11, <1>13, <2>1
  <2>3. phase' \in Phases \ {"DEALING", "GAME_OVER"}
    BY <2>1 DEF Phases
  <2> QED  BY <1>4, <1>9, <1>12, <2>1, <2>2, <2>3, HandlerCards
<1> QED  BY <1>14, <1>15

\* applyInsertDrawn.
LEMMA InsertKeepsAllCards ==
  ASSUME IInv, CardInv, TypeOK', NEW p \in players, Insert(p)
  PROVE  CardInv'
<1>1. TypeOK /\ TableType
  BY DEF IInv, TypeOK
<1>2. PICK action \in {"insert", "discard"}, i \in Places(p) : InsertDrawn(p, action, i)
  BY <1>1, FirstPlace DEF Insert
<1>3. InPlay /\ phase = "PASS_PICK" /\ p = CurrentPlayer /\ p \in PlayersInRound
  BY <1>2, TurnOfOneInRound DEF InsertDrawn
<1>4. /\ ConfigType /\ Table \in Tables
      /\ eliminated \in SUBSET players
      /\ pendingDraws \in [players -> Values \union {None}]
  BY <1>3, InPlayFacts DEF TableType
<1>5. /\ Counted(Table, pile, trickPileForPick, market)
      /\ \A s \in eliminated : hand[s] = << >>
      /\ PlatesUsed(duelPassCount, duelPlates)
      /\ trickPileForPick = << >>
      /\ eliminated = {} => \A s \in players \ {p} : pendingDraws[s] = None
  BY <1>3, CardFacts DEF CardInv, DrawnInTurn
<1> DEFINE drawn == IF pendingDraws[p] = None THEN << >> ELSE <<pendingDraws[p]>>
           b == [Table EXCEPT !.pendingDraws[p] = None]
           t == PutCards(b, p, action, i, drawn)
<1>6. AfterPass(t, p) /\ UNCHANGED config
  BY <1>2 DEF InsertDrawn, config
<1>7. drawn \in Seq(Values) /\ \A v \in Values : CountOf(drawn, v) = One(pendingDraws[p], v)
  <2>1. pendingDraws[p] \in Values \union {None}
    BY <1>4
  <2>2. drawn \in Seq(Values)
    BY <2>1, EmptySeq
  <2>3. ASSUME NEW v \in Values
        PROVE  CountOf(drawn, v) = One(pendingDraws[p], v)
    BY CountOfFew, OneIsNat
  <2> QED  BY <2>2, <2>3
<1> HIDE DEF drawn
<1>8. /\ b \in Tables
      /\ b.hand = hand /\ b.drawPile = drawPile /\ b.discardPile = discardPile
      /\ b.duelPlates = duelPlates /\ b.duelPassCount = duelPassCount
      /\ b.pendingDraws = [pendingDraws EXCEPT ![p] = None]
      /\ \A v \in Values : /\ Held(Table, v) \in Int /\ One(pendingDraws[p], v) \in Nat
                           /\ Held(b, v) = Held(Table, v) - One(pendingDraws[p], v)
  BY <1>1, ForgetDrawn
<1>9. i \in 0..Len(b.hand[p])
  BY <1>2, <1>8 DEF Places
<1> HIDE DEF b
<1>10. /\ t \in Tables
       /\ \A s \in players \ {p} : t.hand[s] = b.hand[s]
       /\ t.pendingDraws = b.pendingDraws /\ t.duelPlates = b.duelPlates
       /\ t.duelPassCount = b.duelPassCount
       /\ \A v \in Values : Held(t, v) = Held(b, v) + CountOf(drawn, v)
  BY <1>4, <1>7, <1>8, <1>9, PutCardsHolds
<1> HIDE DEF t
<1>11. \A v \in Values : Held(t, v) = Held(Table, v)
  <2> SUFFICES ASSUME NEW v \in Values
               PROVE  Held(t, v) = Held(Table, v)
    OBVIOUS
  <2>1. /\ Held(Table, v) \in Int /\ One(pendingDraws[p], v) \in Nat
        /\ Held(b, v) = Held(Table, v) - One(pendingDraws[p], v)
        /\ Held(t, v) = Held(b, v) + One(pendingDraws[p], v)
    BY <1>7, <1>8, <1>10
  <2> QED  BY <2>1
<1>12. Counted(t, pile, trickPileForPick, market)
  BY <1>5, <1>11 DEF Counted, InGame
<1>13. /\ \A s \in eliminated : t.hand[s] = << >>
       /\ PlatesUsed(t.duelPassCount, t.duelPlates)
  BY <1>3, <1>4, <1>5, <1>8, <1>10 DEF PlayersInRound, ActivePlayers
<1>14. eliminated = {} => \A s \in players : t.pendingDraws[s] = None
  BY <1>4, <1>5, <1>8, <1>10
<1> QED  BY <1>3, <1>5, <1>6, <1>10, <1>12, <1>13, <1>14, AfterPassCards

\* applyTrickPick.
LEMMA PickTrickKeepsCards ==
  ASSUME IInv, CardInv, TypeOK', NEW p \in players, PickTrick(p)
  PROVE  CardInv'
<1>1. TypeOK /\ TableType
  BY DEF IInv, TypeOK
<1>2. PICK action \in {"take", "discard"}, i \in Places(p) : TrickPick(p, action, i)
  BY <1>1, FirstPlace DEF PickTrick
<1>3. InPlay /\ phase = "TRICK_PICK" /\ p \in PlayersInRound
  BY <1>2, TurnOfOneInRound DEF TrickPick
<1>4. /\ ConfigType /\ Table \in Tables
      /\ eliminated \in SUBSET players
      /\ pile \in Seq(Values) /\ trickPileForPick \in Seq(Values) /\ market \in Cards
  BY <1>3, InPlayFacts DEF TrickType, TurnType
<1>5. /\ Counted(Table, pile, trickPileForPick, market)
      /\ \A s \in eliminated : hand[s] = << >>
      /\ PlatesUsed(duelPassCount, duelPlates)
      /\ eliminated = {} => \A s \in players : pendingDraws[s] = None
  BY <1>3, CardFacts
<1> DEFINE choice == IF action = "take" THEN "insert" ELSE "discard"
           t      == PutCards(Table, p, choice, i, trickPileForPick)
<1>6. /\ phase' = "PLAYER_TURN" /\ trickPileForPick' = << >> /\ pile' = pile
      /\ UNCHANGED config /\ UNCHANGED <<eliminated, gameLoser, market>>
      /\ SetTable(t)
  <2>1. /\ phase' = "PLAYER_TURN" /\ trickPileForPick' = << >> /\ pile' = pile
        /\ UNCHANGED config /\ UNCHANGED <<eliminated, gameLoser, market>>
    BY <1>2 DEF TrickPick, AdvanceTurn, config, gameVars, trickVars
  <2>2. UNCHANGED <<drawPile, pendingDraws, duelPlates, duelPassCount, copied>>
    BY <1>2 DEF TrickPick
  <2>3. CASE action = "take"
    <3>1. hand' = [hand EXCEPT ![p] = InsertAt(@, i, trickPileForPick)]
          /\ discardPile' = discardPile
      BY <1>2, <2>3 DEF TrickPick
    <3> QED  BY <2>1, <2>2, <2>3, <3>1 DEF SetTable, PutCards, Table
  <2>4. CASE action # "take"
    <3>1. hand' = hand /\ discardPile' = Plus(discardPile, trickPileForPick)
      BY <1>2, <2>4 DEF TrickPick
    <3> QED  BY <2>1, <2>2, <2>4, <3>1 DEF SetTable, PutCards, Table
  <2> QED  BY <2>3, <2>4
<1>7. /\ t \in Tables
      /\ \A s \in players \ {p} : t.hand[s] = Table.hand[s]
      /\ t.pendingDraws = Table.pendingDraws /\ t.duelPlates = Table.duelPlates
      /\ t.duelPassCount = Table.duelPassCount
      /\ \A v \in Values : Held(t, v) = Held(Table, v) + CountOf(trickPileForPick, v)
  <2>1. i \in 0..Len(Table.hand[p])
    BY <1>2 DEF Places, Table
  <2> HIDE DEF choice
  <2> QED  BY <1>4, <2>1, PutCardsHolds
<1>8. /\ Table.hand = hand /\ Table.pendingDraws = pendingDraws
      /\ Table.duelPlates = duelPlates /\ Table.duelPassCount = duelPassCount
  BY DEF Table
<1> HIDE DEF t
<1>9. Counted(t, pile', trickPileForPick', market)
  <2>1. \A v \in Values : InGame(t, pile, << >>, market, v)
                            = InGame(Table, pile, trickPileForPick, market, v)
    <3> SUFFICES ASSUME NEW v \in Values
                 PROVE  InGame(t, pile, << >>, market, v)
                          = InGame(Table, pile, trickPileForPick, market, v)
      OBVIOUS
    <3>1. /\ Held(Table, v) \in Int /\ CountOf(pile, v) \in Nat
          /\ CountOf(trickPileForPick, v) \in Nat /\ market[v] \in Nat
          /\ CountOf(<< >>, v) = 0
      BY <1>4, HeldIsNat, CountOfNat, CountOfFew DEF Cards
    <3>2. Held(t, v) = Held(Table, v) + CountOf(trickPileForPick, v)
      BY <1>7
    <3>3. InGame(t, pile, << >>, market, v)
            = (Held(Table, v) + CountOf(trickPileForPick, v)) + CountOf(pile, v) + 0 + market[v]
      BY <3>1, <3>2 DEF InGame
    <3>4. InGame(Table, pile, trickPileForPick, market, v)
            = Held(Table, v) + CountOf(pile, v) + CountOf(trickPileForPick, v) + market[v]
      BY DEF InGame
    <3> QED  BY <3>1, <3>3, <3>4
  <2>2. Counted(t, pile, << >>, market)
    BY <1>5, <2>1 DEF Counted
  <2> QED  BY <1>6, <2>2
<1>10. /\ \A s \in eliminated : t.hand[s] = << >>
       /\ eliminated = {} => \A s \in players : t.pendingDraws[s] = None
       /\ PlatesUsed(t.duelPassCount, t.duelPlates)
  BY <1>3, <1>4, <1>5, <1>7, <1>8 DEF PlayersInRound, ActivePlayers
<1>11. phase' \in Phases \ {"DEALING", "GAME_OVER"}
  BY <1>6 DEF Phases
<1> QED  BY <1>3, <1>6, <1>7, <1>9, <1>10, <1>11, HandlerCards

\* applyInsertDrawn outside its phase: until somebody leaves, no card is forgotten.
LEMMA LateInsertKeepsCards ==
  ASSUME IInv, CardInv, TypeOK', NEW p \in players, LateInsertDrawn(p)
  PROVE  CardInv'
<1>1. InPlay /\ phase # "PASS_PICK" /\ pendingDraws[p] # None
  BY DEF LateInsertDrawn
<1>2. /\ UNCHANGED config /\ UNCHANGED <<eliminated, gameLoser, market>>
      /\ phase' = phase /\ pile' = pile /\ trickPileForPick' = trickPileForPick
      /\ pendingDraws' = [pendingDraws EXCEPT ![p] = None]
      /\ UNCHANGED <<hand, drawPile, discardPile, duelPlates, duelPassCount, copied>>
  BY DEF LateInsertDrawn, config, gameVars, trickVars
<1>3. /\ TypeOK /\ ConfigType /\ Table \in Tables
      /\ pile \in Seq(Values) /\ trickPileForPick \in Seq(Values) /\ market \in Cards
  BY <1>1, InPlayFacts DEF TrickType, TurnType
<1>4. /\ Counted(Table, pile, trickPileForPick, market)
      /\ \A s \in eliminated : hand[s] = << >>
      /\ PlatesUsed(duelPassCount, duelPlates)
      /\ phase # "TRICK_PICK" => trickPileForPick = << >>
      /\ eliminated # {}
  BY <1>1, CardFacts
<1> DEFINE t == [Table EXCEPT !.pendingDraws[p] = None]
<1>5. /\ t \in Tables
      /\ t.hand = hand /\ t.drawPile = drawPile /\ t.discardPile = discardPile
      /\ t.duelPlates = duelPlates /\ t.duelPassCount = duelPassCount
      /\ t.copied = copied
      /\ t.pendingDraws = [pendingDraws EXCEPT ![p] = None]
      /\ \A v \in Values : /\ Held(Table, v) \in Int /\ One(pendingDraws[p], v) \in Nat
                           /\ Held(t, v) = Held(Table, v) - One(pendingDraws[p], v)
  BY <1>3, ForgetDrawn
<1> HIDE DEF t
<1>6. SetTable(t)
  BY <1>2, <1>5 DEF SetTable
<1>7. \A v \in Values : InGame(t, pile, trickPileForPick, market, v) <= CopiesPerValue
  <2> SUFFICES ASSUME NEW v \in Values
               PROVE  InGame(t, pile, trickPileForPick, market, v) <= CopiesPerValue
    OBVIOUS
  <2>1. /\ CountOf(pile, v) \in Nat /\ CountOf(trickPileForPick, v) \in Nat /\ market[v] \in Nat
        /\ CopiesPerValue \in Nat
    BY <1>3, CountOfNat, EngineAssumption DEF Cards
  <2>2. /\ Held(Table, v) \in Int /\ One(pendingDraws[p], v) \in Nat
        /\ Held(t, v) = Held(Table, v) - One(pendingDraws[p], v)
    BY <1>5
  <2>3. Held(Table, v) + CountOf(pile, v) + CountOf(trickPileForPick, v) + market[v]
          <= CopiesPerValue
    BY <1>4 DEF Counted, InGame
  <2> QED  BY <2>1, <2>2, <2>3 DEF InGame
<1>8. Counted(t, pile', trickPileForPick', market)
  <2>1. Counted(t, pile, trickPileForPick, market)
    BY <1>4, <1>7 DEF Counted
  <2> QED  BY <1>2, <2>1
<1>9. /\ \A s \in eliminated : t.hand[s] = << >>
      /\ PlatesUsed(t.duelPassCount, t.duelPlates)
      /\ phase' # "TRICK_PICK" => trickPileForPick' = << >>
  BY <1>2, <1>4, <1>5
<1>10. phase' \in Phases \ {"DEALING", "GAME_OVER"}
  BY <1>1, <1>2 DEF InPlay
<1> QED  BY <1>1, <1>2, <1>4, <1>5, <1>6, <1>8, <1>9, <1>10, HandlerCards

\* applyMarketSwap.
LEMMA SwapKeepsCards ==
  ASSUME IInv, CardInv, TypeOK', NEW p \in players, Swap(p)
  PROVE  CardInv'
<1>1. PICK i \in DOMAIN hand[p], w \in Values : MarketSwap(p, i, w)
  BY DEF Swap
<1>2. /\ ConfigType /\ Table \in Tables /\ market \in Cards
      /\ hand \in [players -> Seq(Values)] /\ hand[p] \in Seq(Values)
      /\ eliminated \in SUBSET players
  BY TableTyped DEF IInv, TypeOK, TableType, TurnType, GameType
<1> DEFINE old   == hand[p][i]
           swapped == [hand[p] EXCEPT ![i] = w]
           after == [hand EXCEPT ![p] = swapped]
           open  == [market EXCEPT ![w] = @ - 1]
           t     == [Table EXCEPT !.hand = after]
<1>3. /\ market[w] > 0 /\ hand' = after /\ market' = Plus(open, <<old>>)
      /\ UNCHANGED <<drawPile, discardPile, pendingDraws, duelPlates, duelPassCount, copied>>
      /\ pile' = pile /\ trickPileForPick' = trickPileForPick
      /\ phase' = phase /\ eliminated' = eliminated /\ gameLoser' = gameLoser
      /\ currentTurnIndex' = currentTurnIndex
      /\ UNCHANGED players /\ UNCHANGED mode
  BY <1>1 DEF MarketSwap, trickVars, config
<1>4. old \in Values /\ swapped \in Seq(Values) /\ i \in DOMAIN hand[p]
      /\ DOMAIN swapped = DOMAIN hand[p] /\ swapped[i] = w
      /\ \A j \in DOMAIN hand[p] \ {i} : swapped[j] = hand[p][j]
  BY <1>2
<1>5. /\ after \in [players -> Seq(Values)] /\ after[p] = swapped
      /\ \A s \in players \ {p} : after[s] = hand[s]
  <2> HIDE DEF swapped
  <2> QED  BY <1>2, <1>4
<1>6. open \in Cards /\ \A v \in Values : open[v] = market[v] - One(w, v)
  <2>1. open \in Cards
    BY <1>2, <1>3 DEF Cards
  <2>2. \A v \in Values : market[v] \in Nat
                          /\ open[v] = IF v = w THEN market[v] - 1 ELSE market[v]
    BY <1>2 DEF Cards
  <2> HIDE DEF open
  <2> QED  BY <2>1, <2>2 DEF One
<1>7. /\ t \in Tables /\ t.hand = after
      /\ t.drawPile = drawPile /\ t.discardPile = discardPile
      /\ t.pendingDraws = pendingDraws /\ t.duelPlates = duelPlates
      /\ t.duelPassCount = duelPassCount /\ t.copied = copied /\ Table.copied = copied
  <2> HIDE DEF after
  <2> QED  BY <1>2, <1>5 DEF Tables, Table
<1>8. SetTable(t)
  <2> HIDE DEF t
  <2> QED  BY <1>3, <1>7 DEF SetTable
<1> HIDE DEF t, after, swapped, open, old
<1>9. ASSUME NEW v \in Values
      PROVE  CountsByValue(v)' = CountsByValue(v)
  <2>1. One(old, v) \in Nat /\ One(w, v) \in Nat
    BY OneIsNat
  <2>2. CountOf(swapped, v) = CountOf(hand[p], v) - One(old, v) + One(w, v)
    <3>1. IsFiniteSet(DOMAIN hand[p])
      <4>1. DOMAIN hand[p] = 1..Len(hand[p]) /\ Len(hand[p]) \in Nat
        BY <1>2
      <4>2. 1 \in Int /\ Len(hand[p]) \in Int
        BY <4>1
      <4> QED  BY <4>1, <4>2, FS_Interval
    <3>2. CountOf(swapped, v) = CountOf(hand[p], v) - One(hand[p][i], v) + One(swapped[i], v)
      BY <1>4, <3>1, CountOfExcept
    <3> QED  BY <1>4, <3>2 DEF old
  <2>3. /\ CountOf(hand[p], v) \in Nat /\ HandsHold(hand, v) \in Nat
        /\ HandsHold(after, v) = HandsHold(hand, v) - CountOf(hand[p], v) + CountOf(after[p], v)
    BY <1>2, <1>5, HandChanges
  <2>4. HandsHold(after, v) - HandsHold(hand, v) = One(w, v) - One(old, v)
    BY <1>5, <2>1, <2>2, <2>3
  <2>5. /\ Table.hand = hand /\ Table.drawPile = drawPile /\ Table.discardPile = discardPile
        /\ Table.duelPlates = duelPlates /\ Table.pendingDraws = pendingDraws
    BY DEF Table
  <2>6. /\ drawPile[v] \in Nat /\ discardPile[v] \in Nat
        /\ PlatesHold(duelPlates, v) \in Nat /\ CountOf(pendingDraws, v) \in Nat
        /\ Held(Table, v) \in Int
    BY <1>2, <2>5, HeldIsNat
  <2>7. /\ t.drawPile[v] - Table.drawPile[v] = 0
        /\ t.discardPile[v] - Table.discardPile[v] = 0
        /\ PlatesHold(t.duelPlates, v) - PlatesHold(Table.duelPlates, v) = 0
        /\ CountOf(t.pendingDraws, v) - CountOf(Table.pendingDraws, v) = 0
        /\ HandsHold(t.hand, v) - HandsHold(Table.hand, v) = One(w, v) - One(old, v)
    BY <1>7, <2>4, <2>5, <2>6
  <2>8. Held(t, v) = Held(Table, v) + 0 + 0 + (One(w, v) - One(old, v)) + 0 + 0
    BY <1>2, <1>7, <2>7, HeldChanges
  <2>9. market'[v] = market[v] - One(w, v) + One(old, v)
    <3>1. <<old>> \in Seq(Values)
      BY <1>4
    <3>2. Plus(open, <<old>>)[v] = open[v] + CountOf(<<old>>, v)
      BY <1>6, <3>1, PlusHolds
    <3>3. CountOf(<<old>>, v) = One(old, v)
      BY CountOfFew
    <3> QED  BY <1>3, <1>6, <3>2, <3>3
  <2>10. CountsByValue(v)' = InGame(t, pile', trickPileForPick', market', v) + copied[v]
    BY <1>2, <1>3, <1>7, <1>8, CountsNext
  <2>11. /\ CountsByValue(v) = Held(Table, v) + CountOf(pile, v) + CountOf(trickPileForPick, v)
                                + market[v] + copied[v]
         /\ CountOf(pile, v) \in Nat /\ CountOf(trickPileForPick, v) \in Nat
         /\ market[v] \in Nat /\ copied[v] \in Nat
    <3>1. CountsAgree
      BY CountsNow DEF IInv
    <3> QED  BY <3>1 DEF CountsAgree, InGame
  <2>12. CountsByValue(v)' = (Held(Table, v) + (One(w, v) - One(old, v))) + CountOf(pile, v)
                               + CountOf(trickPileForPick, v)
                               + (market[v] - One(w, v) + One(old, v)) + copied[v]
    <3>1. Held(t, v) = Held(Table, v) + (One(w, v) - One(old, v))
      BY <2>1, <2>6, <2>8
    <3> QED  BY <1>3, <2>9, <2>10, <3>1 DEF InGame
  <2> QED  BY <2>1, <2>6, <2>11, <2>12
<1>10. CopiesAccounted' /\ CardIntegrity'
  BY <1>3, <1>9 DEF CardInv, CopiesAccounted, CardIntegrity
<1>11. LeaversHoldNone'
  <2> SUFFICES ASSUME phase # "GAME_OVER", NEW s \in eliminated
               PROVE  hand'[s] = << >>
    BY <1>3 DEF LeaversHoldNone
  <2>1. hand[s] = << >>
    BY DEF CardInv, LeaversHoldNone
  <2>2. DOMAIN << >> = {}
    OBVIOUS
  <2>3. s # p
    BY <1>1, <2>1, <2>2
  <2> QED  BY <1>2, <1>3, <1>5, <2>1, <2>3
<1>12. LoserAtTheEnd' /\ OfferedOnce' /\ DuelPassesUsePlates'
  BY <1>3 DEF CardInv, LoserAtTheEnd, OfferedOnce, DuelPassesUsePlates
<1>13. DrawnInTurn'
  BY <1>3 DEF CardInv, DrawnInTurn, CurrentPlayer, IsDuel, ActivePlayers
<1> QED  BY <1>10, <1>11, <1>12, <1>13 DEF CardInv

\* A leaver's hand is given up, a card it had drawn is forgotten.
LEMMA GiveUpHolds ==
  ASSUME TypeOK, NEW p \in players, NEW t, t = GiveUpHand(Table, p)
  PROVE  /\ t \in Tables /\ t.hand[p] = << >>
         /\ \A s \in players \ {p} : t.hand[s] = hand[s]
         /\ t.duelPlates = duelPlates /\ t.duelPassCount = duelPassCount
         /\ \A v \in Values : /\ Held(Table, v) \in Int /\ One(pendingDraws[p], v) \in Nat
                              /\ Held(t, v) = Held(Table, v) - One(pendingDraws[p], v)
<1>1. /\ ConfigType /\ TableType /\ Table \in Tables
      /\ hand \in [players -> Seq(Values)] /\ hand[p] \in Seq(Values) /\ discardPile \in Cards
  BY TableTyped DEF TypeOK, TableType
<1> DEFINE b     == [Table EXCEPT !.pendingDraws[p] = None]
           after == [hand EXCEPT ![p] = << >>]
<1>2. /\ b \in Tables
      /\ b.hand = hand /\ b.drawPile = drawPile /\ b.discardPile = discardPile
      /\ b.duelPlates = duelPlates /\ b.duelPassCount = duelPassCount /\ b.copied = copied
      /\ b.pendingDraws = [pendingDraws EXCEPT ![p] = None]
      /\ \A v \in Values : /\ Held(Table, v) \in Int /\ One(pendingDraws[p], v) \in Nat
                           /\ Held(b, v) = Held(Table, v) - One(pendingDraws[p], v)
  BY ForgetDrawn
<1>3. t \in Tables
  BY <1>1, GiveUpHandTyped
<1>4. /\ t.hand = after /\ t.drawPile = drawPile /\ t.discardPile = Plus(discardPile, hand[p])
      /\ t.duelPlates = duelPlates /\ t.duelPassCount = duelPassCount /\ t.copied = copied
      /\ t.pendingDraws = [pendingDraws EXCEPT ![p] = None]
  BY DEF GiveUpHand, CopyHand, Table
<1>5. after \in [players -> Seq(Values)] /\ after[p] = << >>
      /\ \A s \in players \ {p} : after[s] = hand[s]
  BY <1>1, EmptySeq
<1> HIDE DEF b, after
<1>6. ASSUME NEW v \in Values
      PROVE  Held(t, v) = Held(Table, v) - One(pendingDraws[p], v)
  <2>1. CountOf(<< >>, v) = 0
    BY CountOfFew
  <2>2. /\ CountOf(hand[p], v) \in Nat /\ HandsHold(hand, v) \in Nat
        /\ HandsHold(after, v) = HandsHold(hand, v) - CountOf(hand[p], v) + CountOf(after[p], v)
    BY <1>1, <1>5, HandChanges
  <2>3. HandsHold(after, v) - HandsHold(hand, v) = 0 - CountOf(hand[p], v)
    BY <1>5, <2>1, <2>2
  <2>4. t.discardPile[v] = discardPile[v] + CountOf(hand[p], v)
    BY <1>1, <1>4, PlusHolds
  <2>5. /\ b.drawPile[v] \in Nat /\ b.discardPile[v] \in Nat
        /\ PlatesHold(b.duelPlates, v) \in Nat /\ CountOf(b.pendingDraws, v) \in Nat
        /\ Held(b, v) \in Int
    BY <1>1, <1>2, HeldIsNat
  <2>6. /\ t.drawPile[v] - b.drawPile[v] = 0
        /\ t.discardPile[v] - b.discardPile[v] = CountOf(hand[p], v)
        /\ PlatesHold(t.duelPlates, v) - PlatesHold(b.duelPlates, v) = 0
        /\ CountOf(t.pendingDraws, v) - CountOf(b.pendingDraws, v) = 0
        /\ HandsHold(t.hand, v) - HandsHold(b.hand, v) = 0 - CountOf(hand[p], v)
    <3>1. t.drawPile = b.drawPile /\ t.duelPlates = b.duelPlates
          /\ t.pendingDraws = b.pendingDraws /\ b.discardPile = discardPile
          /\ t.hand = after /\ b.hand = hand
      BY <1>2, <1>4
    <3>2. t.discardPile[v] - b.discardPile[v] = CountOf(hand[p], v)
      BY <2>2, <2>4, <2>5, <3>1
    <3> QED  BY <2>3, <2>5, <3>1, <3>2
  <2>7. Held(t, v) = Held(b, v) + 0 + CountOf(hand[p], v) + (0 - CountOf(hand[p], v)) + 0 + 0
    <3>1. ConfigType /\ b \in Tables /\ t.copied = b.copied
      BY <1>1, <1>2, <1>4
    <3>2. Held(t, v) = Held(b, v) + (t.drawPile[v] - b.drawPile[v])
                         + (t.discardPile[v] - b.discardPile[v])
                         + (HandsHold(t.hand, v) - HandsHold(b.hand, v))
                         + (PlatesHold(t.duelPlates, v) - PlatesHold(b.duelPlates, v))
                         + (CountOf(t.pendingDraws, v) - CountOf(b.pendingDraws, v))
      BY ONLY <3>1, <1>3, v \in Values, HeldChanges
    <3> QED  BY ONLY <2>6, <3>2
  <2>8. Held(t, v) = Held(b, v)
    BY <2>2, <2>5, <2>7
  <2> QED  BY <1>2, <2>8
<1>7. t.hand[p] = << >> /\ \A s \in players \ {p} : t.hand[s] = hand[s]
  BY <1>4, <1>5
<1> QED  BY <1>2, <1>3, <1>4, <1>6, <1>7

\* removePlayerFromGame.
LEMMA RemoveKeepsCards ==
  ASSUME IInv, CardInv, TypeOK', NEW p \in players, RemovePlayerFromGame(p)
  PROVE  CardInv'
<1> DEFINE t       == GiveUpHand(Table, p)
           elim    == eliminated \union {p}
           out     == outOfRound \union {p}
           tokens  == [tokensLeft EXCEPT ![p] = 0]
           active  == players \ elim
           inRound == active \ out
           gone    == /\ outOfRound' = out
                      /\ UNCHANGED <<trickVars, trickPileForPick>>
<1>1. InPlay /\ p \notin eliminated
  BY DEF RemovePlayerFromGame
<1>2. /\ TypeOK /\ ConfigType /\ Table \in Tables
      /\ Cardinality(PlayersInRound) >= 2
      /\ eliminated \in SUBSET players /\ Cardinality(players \ eliminated) >= 2
      /\ pile \in Seq(Values) /\ trickPileForPick \in Seq(Values) /\ market \in Cards
  BY <1>1, InPlayFacts DEF TrickType, TurnType
<1>3. UNCHANGED config /\ UNCHANGED players /\ UNCHANGED mode
  BY DEF RemovePlayerFromGame, config
<1>4. /\ gameLoser = None /\ Counted(Table, pile, trickPileForPick, market)
      /\ \A s \in eliminated : hand[s] = << >>
      /\ PlatesUsed(duelPassCount, duelPlates)
      /\ phase # "TRICK_PICK" => trickPileForPick = << >>
      /\ eliminated = {} /\ IsDuel => \A s \in players : pendingDraws[s] = None
  BY <1>1, CardFacts
<1>5. /\ t \in Tables /\ t.hand[p] = << >>
      /\ \A s \in players \ {p} : t.hand[s] = hand[s]
      /\ t.duelPlates = duelPlates /\ t.duelPassCount = duelPassCount
      /\ \A v \in Values : /\ Held(Table, v) \in Int /\ One(pendingDraws[p], v) \in Nat
                           /\ Held(t, v) = Held(Table, v) - One(pendingDraws[p], v)
  BY <1>2, GiveUpHolds
<1> HIDE DEF t
<1>6. elim \in SUBSET players /\ elim # {} /\ \A s \in elim : t.hand[s] = << >>
  BY <1>2, <1>4, <1>5
<1>7. ASSUME NEW v \in Values
      PROVE  /\ InGame(t, pile, trickPileForPick, market, v) <= CopiesPerValue
             /\ mode # "RODIZIO" /\ eliminated = {} /\ IsDuel =>
                  InGame(t, pile, trickPileForPick, market, v) = CopiesPerValue
             /\ Held(t, v) <= CopiesPerValue
  <2>1. /\ CountOf(pile, v) \in Nat /\ CountOf(trickPileForPick, v) \in Nat /\ market[v] \in Nat
        /\ CopiesPerValue \in Nat
    BY <1>2, CountOfNat, EngineAssumption DEF Cards
  <2>2. /\ Held(Table, v) \in Int /\ One(pendingDraws[p], v) \in Nat
        /\ Held(t, v) = Held(Table, v) - One(pendingDraws[p], v)
    BY <1>5
  <2>3. eliminated = {} /\ IsDuel => One(pendingDraws[p], v) = 0
    BY <1>4, OneIsNat
  <2>4. /\ Held(Table, v) + CountOf(pile, v) + CountOf(trickPileForPick, v) + market[v]
             <= CopiesPerValue
        /\ mode # "RODIZIO" /\ eliminated = {} =>
             Held(Table, v) + CountOf(pile, v) + CountOf(trickPileForPick, v) + market[v]
               = CopiesPerValue
    BY <1>4 DEF Counted, InGame
  <2> QED  BY <2>1, <2>2, <2>3, <2>4 DEF InGame
<1>8. gone => pile' = pile /\ trickPileForPick' = trickPileForPick
  BY DEF trickVars
<1>9. inRound = PlayersInRound \ {p} /\ active = (players \ eliminated) \ {p}
  BY DEF PlayersInRound, ActivePlayers
<1>10. /\ IsFiniteSet(inRound) /\ (CHOOSE s \in inRound : TRUE) \in inRound
       /\ IsFiniteSet(active) /\ Cardinality(active) \in Nat
       /\ Cardinality(active) = Cardinality(players \ eliminated) - 1
  <2>1. IsFiniteSet(PlayersInRound) /\ IsFiniteSet(players \ eliminated)
    BY <1>2, InRoundFinite DEF ActivePlayers
  <2>2. /\ IsFiniteSet(inRound) /\ (CHOOSE s \in inRound : TRUE) \in inRound
    <3> HIDE DEF inRound
    <3> QED  BY <1>2, <1>9, <2>1, OneLess
  <2>3. /\ IsFiniteSet(active) /\ Cardinality(active) \in Nat
        /\ Cardinality(active) = Cardinality(players \ eliminated) - 1
    <3>1. p \in players \ eliminated
      BY <1>1
    <3> HIDE DEF active
    <3> QED  BY <1>9, <2>1, <3>1, FS_RemoveElement, FS_CardinalityType
  <2> QED  BY <2>2, <2>3
<1>11. CASE Cardinality(active) <= 1 /\ GameOver(t, elim, tokens, p) /\ gone
  <2>1. /\ phase' = "GAME_OVER" /\ gameLoser' = p /\ eliminated' = elim /\ SetTable(t)
        /\ market' = market
    BY <1>11 DEF GameOver
  <2>2. IsDuel
    <3>1. Cardinality(players \ eliminated) = 2
      <4>1. Cardinality(players \ eliminated) \in Nat
        BY <1>2, InRoundFinite DEF ActivePlayers
      <4> HIDE DEF active
      <4> QED  BY <1>2, <1>10, <1>11, <4>1
    <3> QED  BY <3>1 DEF IsDuel, ActivePlayers
  <2>3. pile' = pile /\ trickPileForPick' = trickPileForPick
    BY <1>8, <1>11
  <2>4. eliminated' \subseteq {gameLoser'} => eliminated = {}
    BY <1>1, <2>1
  <2>5. /\ \A v \in Values :
             InGame(t, pile', trickPileForPick', market', v) <= CopiesPerValue
        /\ mode # "RODIZIO" /\ eliminated' \subseteq {gameLoser'} =>
             \A v \in Values :
               InGame(t, pile', trickPileForPick', market', v) = CopiesPerValue
    BY <1>7, <2>1, <2>2, <2>3, <2>4
  <2>6. eliminated' # {} /\ PlatesUsed(t.duelPassCount, t.duelPlates)
    BY <1>4, <1>5, <1>6, <2>1
  <2> QED  BY <1>2, <1>3, <1>5, <2>1, <2>5, <2>6, GameOverCards
<1>12. CASE /\ Cardinality(active) > 1 /\ RoundIsOver(inRound)
            /\ ResolveRoundEnd(t, elim, tokens, CHOOSE s \in inRound : TRUE, gone)
  <2> DEFINE loser == CHOOSE s \in inRound : TRUE
  <2>1. loser \in players \ elim /\ Cardinality(players \ elim) >= 2
    BY <1>10, <1>12
  <2>2. HandsOn(t, elim)
    BY <1>4, <1>5, <1>6, <1>7 DEF HandsOn
  <2>3. ResolveRoundEnd(t, elim, tokens, loser, gone)
    BY <1>12
  <2>4. /\ gone => \A v \in Values :
             InGame(t, pile', trickPileForPick', market, v) <= CopiesPerValue
        /\ gone /\ mode # "RODIZIO" /\ elim = {} =>
             \A v \in Values :
               InGame(t, pile', trickPileForPick', market, v) = CopiesPerValue
    BY <1>6, <1>7, <1>8
  <2> HIDE DEF elim, tokens, loser, gone
  <2> QED  BY <1>2, <1>3, <1>4, <1>5, <1>6, <2>1, <2>2, <2>3, <2>4, RoundEndCards
<1>13. CASE /\ ~RoundIsOver(inRound)
            /\ IF phase = "PLAYER_TURN" /\ CurrentPlayer = p
               THEN AdvanceTurn(elim, out)
               ELSE UNCHANGED <<phase, currentTurnIndex>>
            /\ eliminated' = elim
            /\ tokensLeft' = tokens
            /\ SetTable(t)
            /\ gone
            /\ UNCHANGED <<round, market, lastRoundWinnerId, gameLoser, lastWiperId>>
  <2>1. /\ pile' = pile /\ trickPileForPick' = trickPileForPick /\ market' = market
        /\ eliminated' = elim /\ gameLoser' = None
    BY <1>4, <1>8, <1>13
  <2>2. phase' = phase
    BY <1>13 DEF AdvanceTurn
  <2>3. phase' \notin {"DEALING", "GAME_OVER"} /\ (phase' # "TRICK_PICK" => trickPileForPick' = << >>)
    BY <1>1, <1>4, <2>1, <2>2 DEF InPlay
  <2>4. /\ \A v \in Values :
             InGame(t, pile', trickPileForPick', market', v) <= CopiesPerValue
        /\ eliminated' # {} /\ \A s \in eliminated' : t.hand[s] = << >>
        /\ PlatesUsed(t.duelPassCount, t.duelPlates)
    BY <1>4, <1>5, <1>6, <1>7, <2>1
  <2> QED  BY <1>2, <1>3, <1>5, <1>13, <2>1, <2>3, <2>4, GoesOnCards
<1> QED  BY <1>11, <1>12, <1>13 DEF RemovePlayerFromGame, t

-------------------------------------------------------------------------------
(* The theorems. *)

\* Nothing is dealt before the first round.
LEMMA InitCardInv ==
  ASSUME Init
  PROVE  CardInv
<1>1. TypeOK
  BY InitIInv DEF IInv
<1>2. phase = "DEALING" /\ gameLoser = None /\ eliminated = {} /\ trickPileForPick = << >>
      /\ \A s \in players : pendingDraws[s] = None
  BY DEF Init
<1>3. ASSUME NEW v \in Values
      PROVE  CountsByValue(v) <= CopiesPerValue + copied[v]
  <2>1. CountOf(pile, v) = 0 /\ CountOf(trickPileForPick, v) = 0
    BY CountOfFew DEF Init
  <2>2. drawPile[v] = 0 /\ discardPile[v] = 0 /\ market[v] = 0
    BY DEF Init, NoCards
  <2>3. InHands(v) = 0
    <3> DEFINE b == [s \in players |-> CountOf(hand[s], v)]
    <3>1. \A s \in players : CountOf(hand[s], v) = 0
      BY CountOfFew DEF Init
    <3>2. b \in [players -> Nat] /\ \A s \in players : b[s] = 0
      BY <3>1
    <3>3. SizeOf(b) = 0
      <4> HIDE DEF b
      <4> QED  BY <3>2, SizeOfNothing
    <3> QED  BY <3>3 DEF InHands
  <2>4. OnPlates(v) = 0
    <3>1. duelPlates = [s \in players |-> NoCards]
      BY DEF Init
    <3>2. PlatesHold(duelPlates, v) = 0
      BY <3>1, NoPlates
    <3> QED  BY <3>2 DEF OnPlates, PlatesHold
  <2>5. Pending(v) = 0
    <3>1. \A s \in DOMAIN pendingDraws : pendingDraws[s] = None
      BY DEF Init
    <3> QED  BY <3>1, NoneDrawn DEF Pending
  <2>6. CopiesPerValue \in Nat /\ copied[v] = 0
    BY EngineAssumption DEF Init, NoCards
  <2> QED  BY <2>1, <2>2, <2>3, <2>4, <2>5, <2>6 DEF CountsByValue
<1>4. CopiesAccounted /\ CardIntegrity
  BY <1>2, <1>3 DEF CopiesAccounted, CardIntegrity
<1>5. LeaversHoldNone /\ LoserAtTheEnd /\ DrawnInTurn /\ OfferedOnce
  BY <1>2 DEF LeaversHoldNone, LoserAtTheEnd, DrawnInTurn, OfferedOnce
<1>6. DuelPassesUsePlates
  <2>1. SizeOf(NoCards) = 0
    <3>1. NoCards \in [Values -> Nat] /\ \A v \in Values : NoCards[v] = 0
      BY DEF NoCards
    <3> QED  BY <3>1, SizeOfNothing
  <2>2. \A s \in players : duelPassCount[s] = 0 /\ duelPlates[s] = NoCards
    BY DEF Init
  <2> QED  BY <2>1, <2>2 DEF DuelPassesUsePlates, PlatesPerPlayer
<1> QED  BY <1>4, <1>5, <1>6 DEF CardInv

\* Every step of the engine.
LEMMA NextKeepsCards ==
  ASSUME IInv, GameInv, CardInv, TypeOK', [Next]_vars
  PROVE  CardInv'
<1>1. CASE Start
  BY <1>1, StartKeepsCards
<1>2. CASE RecoverStuckTurn
  BY <1>2, RecoverKeepsCards
<1>3. ASSUME NEW p \in players, Move(p)
      PROVE  CardInv'
  <2>1. CASE Play(p)
    BY <2>1, PlayKeepsCards
  <2>2. CASE Pass(p)
    BY <2>2, PassKeepsCards DEF Pass
  <2>3. CASE DrawCard(p)
    BY <2>3, DrawKeepsCards
  <2>4. CASE DrawFromEmptyPile(p)
    <3>1. 0 \in Places(p)
      BY FirstPlace DEF IInv, TypeOK
    <3> QED  BY <2>4, <3>1, PassKeepsCards DEF DrawFromEmptyPile
  <2>5. CASE DuelPass(p)
    BY <2>5, DuelPassKeepsCards
  <2>6. CASE PickPlate(p)
    BY <2>6, PickPlateKeepsCards
  <2>7. CASE Insert(p)
    BY <2>7, InsertKeepsAllCards
  <2>8. CASE PickTrick(p)
    BY <2>8, PickTrickKeepsCards
  <2> QED  BY <1>3, <2>1, <2>2, <2>3, <2>4, <2>5, <2>6, <2>7, <2>8 DEF Move
<1>4. ASSUME NEW p \in players, Swap(p) \/ LateInsertDrawn(p) \/ RemovePlayerFromGame(p)
      PROVE  CardInv'
  BY <1>4, SwapKeepsCards, LateInsertKeepsCards, RemoveKeepsCards
<1>5. CASE UNCHANGED vars
  BY <1>5 DEF vars, CardInv, CopiesAccounted, CardIntegrity, CountsByValue,
              InHands, OnPlates, Pending, LeaversHoldNone, LoserAtTheEnd, DrawnInTurn,
              OfferedOnce, DuelPassesUsePlates, CurrentPlayer, IsDuel, ActivePlayers
<1> QED  BY <1>1, <1>2, <1>3, <1>4, <1>5 DEF Next

-------------------------------------------------------------------------------
(* Where copies come from. *)

\* A new round adds none.
LEMMA StartRoundCopies ==
  ASSUME ConfigType, NEW t \in Tables, NEW elim \in SUBSET players,
         Cardinality(players \ elim) >= 2,
         NEW winner, NEW wiper, StartRound(t, elim, winner, wiper)
  PROVE  copied' \in {t.copied, NoCards}
<1> DEFINE active == players \ elim
           deals  == IF ~(mode = "RODIZIO" /\ round + 1 > 1) THEN Deals(t, active) ELSE {t}
<1>1. active \in SUBSET players /\ Cardinality(active) \in 2..6
  BY StillActive
<1>2. PICK d \in deals : \E m : DealPlates(active, [d EXCEPT !.drawPile = Minus(d.drawPile, m)])
  BY DEF StartRound
<1>3. PICK m : DealPlates(active, [d EXCEPT !.drawPile = Minus(d.drawPile, m)])
  BY <1>2
<1>4. d \in Tables /\ d.copied \in {t.copied, NoCards}
  <2>1. CASE d \in Deals(t, active)
    <3>1. d.copied = NoCards
      BY <2>1 DEF Deals
    <3> HIDE DEF active
    <3> QED  BY <1>1, <2>1, <3>1, DealsTyped
  <2>2. CASE d = t
    BY <2>2
  <2> QED  BY <1>2, <2>1, <2>2
<1> DEFINE e == [d EXCEPT !.drawPile = Minus(d.drawPile, m)]
<1>5. e.copied = d.copied /\ DOMAIN e = DOMAIN d
  BY <1>4 DEF Tables
<1>6. copied' = e.copied
  <2>1. "copied" \in DOMAIN d
    BY <1>4 DEF Tables
  <2> HIDE DEF e, active
  <2> QED  BY <1>3, <1>5, <2>1 DEF DealPlates, SetTable, e
<1> QED  BY <1>4, <1>5, <1>6

\* What a handler leaves behind: the table as it is, or the end of the round or game.
Ended(t, elim) ==
  \/ \E loser : \E u \in {t, [t EXCEPT !.hand = RotateHands(t.hand, players \ elim)]} :
       StartRound(u, elim, loser, None)
  \/ copied' = t.copied

\* The end of a round or of the game adds none.
LEMMA EndedCopies ==
  ASSUME ConfigType, NEW t \in Tables, NEW elim \in SUBSET players,
         Cardinality(players \ elim) >= 2, Ended(t, elim)
  PROVE  copied' \in {t.copied, NoCards}
<1>1. CASE copied' = t.copied
  BY <1>1
<1>2. ASSUME NEW u \in {t, [t EXCEPT !.hand = RotateHands(t.hand, players \ elim)]},
             NEW loser, StartRound(u, elim, loser, None)
      PROVE  copied' \in {t.copied, NoCards}
  <2>1. u \in Tables /\ u.copied = t.copied
    <3>1. RotateHands(t.hand, players \ elim) \in [players -> Seq(Values)]
      BY RotateHandsTyped DEF Tables
    <3> QED  BY <3>1 DEF Tables
  <2> QED  BY <1>2, <2>1, StartRoundCopies
<1> QED  BY <1>1, <1>2 DEF Ended

\* A pass adds none.
LEMMA AfterPassCopies ==
  ASSUME IInv, InPlay, NEW t \in Tables, NEW p, AfterPass(t, p)
  PROVE  copied' \in {t.copied, NoCards}
<1>1. ConfigType /\ eliminated \in SUBSET players /\ Cardinality(players \ eliminated) >= 2
  BY InPlayFacts
<1>2. CASE SetTable(t)
  BY <1>2 DEF SetTable
<1>3. CASE Ended(t, eliminated)
  BY <1>1, <1>3, EndedCopies
<1>4. ASSUME NEW wiper, ResolveWipe(t, wiper)
      PROVE  copied' \in {t.copied, NoCards}
  <2>1. [t EXCEPT !.discardPile = Plus(@, pile)].copied = t.copied
    BY DEF Tables
  <2> QED  BY <1>4, <2>1 DEF ResolveWipe, SetTable
<1> DEFINE counted == /\ consecutivePasses' = consecutivePasses + 1
                      /\ UNCHANGED <<pile, saborVars, lastPlayerId, isFirstTurn,
                                     outOfRound, trickPileForPick>>
           loser   == StalemateLoser(t.hand)
<1>5. SetTable(t) \/ (\E wiper : ResolveWipe(t, wiper))
        \/ ResolveRoundEnd(t, eliminated, tokensLeft, loser, counted)
  BY DEF AfterPass
<1>6. ResolveRoundEnd(t, eliminated, tokensLeft, loser, counted) => Ended(t, eliminated)
  <2> HIDE DEF counted, loser
  <2> QED  BY DEF ResolveRoundEnd, GameOver, SetTable, Ended
<1> QED  BY <1>2, <1>3, <1>4, <1>5, <1>6

\* A play adds cards only with the plates of a duel.
LEMMA PlayCopies ==
  ASSUME IInv, NEW p \in players, Play(p)
  PROVE  copied' \in {copied, NoCards} \/ IsDuel
<1>0. PICK indices \in Selections(p), plateCards \in PlateLists :
        \E taken \in PlatesOf(plateCards) : PlayCards(p, indices, plateCards, taken)
  BY DEF Play
<1>1. PICK taken \in PlatesOf(plateCards) : PlayCards(p, indices, plateCards, taken)
  BY <1>0
<1>2. CASE plateCards # << >>
  BY <1>1, <1>2 DEF PlayCards
<1>3. CASE plateCards = << >>
  <2>1. InPlay
    BY <1>1 DEF PlayCards, HasTurn, InPlay, Phases
  <2>2. /\ ConfigType /\ TableType /\ pile \in Seq(Values) /\ copied \in Cards
        /\ eliminated \in SUBSET players /\ Cardinality(players \ eliminated) >= 2
    BY <2>1, InPlayFacts DEF TrickType, TableType
  <2> DEFINE left == Unselected(hand[p], indices)
             t    == [Table EXCEPT
                        !.hand[p] = left,
                        !.duelPlates[p] = [v \in Values |-> @[v] - CountOf(taken, v)],
                        !.copied = [v \in Values |-> @[v] + CountOf(plateCards, v)
                                                         - CountOf(taken, v)],
                        !.discardPile = IF LeavesRound(left) THEN Plus(@, pile) ELSE @]
  <2>3. \A v \in Values : CountOf(taken, v) <= duelPlates[p][v]
    BY <1>1 DEF PlayCards
  <2>4. t \in Tables
    BY <2>2, <2>3, PlayedTableTyped
  <2>5. t.copied = [v \in Values |-> copied[v] + CountOf(plateCards, v) - CountOf(taken, v)]
    BY DEF Table
  <2>6. t.copied = copied
    <3>1. plateCards \in Seq(Values) /\ taken = plateCards
      BY <1>3, PlatesTyped DEF PlatesOf
    <3>2. \A v \in Values : copied[v] + CountOf(plateCards, v) - CountOf(taken, v) = copied[v]
      <4> TAKE v \in Values
      <4>1. CountOf(plateCards, v) \in Nat /\ copied[v] \in Nat
        BY <2>2, <3>1, CountOfNat DEF Cards
      <4> QED  BY <3>1, <4>1
    <3> HIDE DEF t
    <3> QED  BY <2>2, <2>5, <3>2 DEF Cards
  <2>7. SetTable(t) \/ Ended(t, eliminated)
    BY <1>1 DEF PlayCards, ResolveRoundEnd, GameOver, Ended
  <2> HIDE DEF t
  <2> QED  BY <2>2, <2>4, <2>6, <2>7, EndedCopies DEF SetTable
<1> QED  BY <1>2, <1>3

\* The other handlers.
LEMMA MoveCopies ==
  ASSUME IInv, NEW p \in players, Move(p)
  PROVE  copied' \in {copied, NoCards} \/ IsDuel
<1>1. /\ ConfigType /\ TableType /\ Table \in Tables /\ Table.copied = copied
      /\ Table.hand = hand /\ Table.pendingDraws = pendingDraws
  BY TableTyped DEF IInv, TypeOK, Table
<1> DEFINE b == [Table EXCEPT !.pendingDraws[p] = None]
<1>2. b \in Tables /\ b.copied = copied /\ b.hand = hand
  BY <1>1 DEF Tables, Table
<1>3. ASSUME NEW i \in Places(p), PassTurn(p, i)
      PROVE  copied' \in {copied, NoCards}
  <2>1. InPlay
    BY <1>3 DEF PassTurn, HasTurn, InPlay, Phases
  <2>2. CASE IsEmptyBag(drawPile)
    <3>1. AfterPass(b, p)
      BY <1>3, <2>2 DEF PassTurn
    <3> HIDE DEF b
    <3> QED  BY <1>2, <2>1, <3>1, AfterPassCopies
  <2>3. CASE ~IsEmptyBag(drawPile)
    <3>1. PICK c \in Values :
            /\ drawPile[c] > 0
            /\ AfterPass([b EXCEPT !.drawPile[c] = @ - 1,
                                   !.hand[p] = InsertAt(@, i, <<c>>)], p)
      BY <1>3, <2>3 DEF PassTurn
    <3> DEFINE u == [b EXCEPT !.drawPile[c] = @ - 1, !.hand[p] = InsertAt(@, i, <<c>>)]
    <3>2. [drawPile EXCEPT ![c] = @ - 1] \in Cards
      BY <1>1, <3>1 DEF TableType, Cards
    <3>3. InsertAt(hand[p], i, <<c>>) \in Seq(Values)
      <4>1. hand[p] \in Seq(Values) /\ <<c>> \in Seq(Values)
        BY <1>1 DEF TableType
      <4>2. i \in 0..Len(hand[p])
        BY <1>3 DEF Places
      <4> QED  BY <4>1, <4>2, InsertAtType
    <3>4. [hand EXCEPT ![p] = InsertAt(hand[p], i, <<c>>)] \in [players -> Seq(Values)]
      BY <1>1, <3>3 DEF TableType
    <3>5. u = [b EXCEPT !.drawPile = [drawPile EXCEPT ![c] = @ - 1],
                        !.hand = [hand EXCEPT ![p] = InsertAt(hand[p], i, <<c>>)]]
      BY DEF Table
    <3>6. u \in Tables /\ u.copied = copied
      <4> HIDE DEF b, u
      <4> QED  BY <1>2, <3>2, <3>4, <3>5 DEF Tables
    <3>7. AfterPass(u, p)
      BY <3>1
    <3> HIDE DEF u
    <3> QED  BY <2>1, <3>6, <3>7, AfterPassCopies
  <2> QED  BY <2>2, <2>3
<1>4. CASE PickPlate(p)
  <2>1. PICK v \in Values, action \in {"insert", "discard"}, i \in Places(p) :
          DuelPassPick(p, v, action, i)
    BY <1>1, <1>4, FirstPlace DEF PickPlate
  <2>2. InPlay /\ duelPlates[p][v] > 0
    BY <2>1 DEF DuelPassPick, InPlay, Phases
  <2>3. eliminated \in SUBSET players /\ Cardinality(players \ eliminated) >= 2
    BY <2>2, InPlayFacts
  <2> DEFINE taken == TakePlate(Table, p, v)
             t     == PutCards(taken, p, action, i, <<v>>)
  <2>4. taken \in Tables /\ taken.hand = hand
    BY <1>1, <2>2, TakePlateTyped
  <2>5. taken.copied = copied
    BY <1>1 DEF TakePlate, Tables
  <2>6. t \in Tables
    <3>1. i \in 0..Len(taken.hand[p]) /\ <<v>> \in Seq(Values)
      BY <2>4 DEF Places
    <3> HIDE DEF taken
    <3> QED  BY <2>4, <3>1, PutCardsTyped
  <2>7. t.copied = copied
    <3> HIDE DEF taken
    <3> QED  BY <2>4, <2>5 DEF PutCards, Tables
  <2>8. SetTable(t) \/ Ended(t, eliminated)
    BY <2>1 DEF DuelPassPick, ResolveRoundEnd, GameOver, Ended
  <2> HIDE DEF t
  <2> QED  BY <1>1, <2>3, <2>6, <2>7, <2>8, EndedCopies DEF SetTable
<1>5. CASE Insert(p)
  <2>1. PICK action \in {"insert", "discard"}, i \in Places(p) : InsertDrawn(p, action, i)
    BY <1>1, <1>5, FirstPlace DEF Insert
  <2>2. InPlay
    BY <2>1 DEF InsertDrawn, HasTurn, InPlay, Phases
  <2> DEFINE drawn == IF pendingDraws[p] = None THEN << >> ELSE <<pendingDraws[p]>>
             t     == PutCards(b, p, action, i, drawn)
  <2>3. AfterPass(t, p)
    BY <2>1 DEF InsertDrawn
  <2>4. drawn \in Seq(Values) /\ i \in 0..Len(b.hand[p])
    <3>1. pendingDraws[p] \in Values \union {None}
      BY <1>1 DEF TableType
    <3> QED  BY <1>2, <3>1, EmptySeq DEF Places
  <2>5. t \in Tables /\ t.copied = copied
    <3> HIDE DEF b, drawn
    <3> QED  BY <1>2, <2>4, PutCardsTyped DEF PutCards, Tables
  <2> HIDE DEF t
  <2> QED  BY <2>2, <2>3, <2>5, AfterPassCopies
<1>6. CASE DrawCard(p) \/ PickTrick(p)
  BY <1>6 DEF DrawCard, PickTrick, TrickPick
<1>7. CASE Play(p)
  BY <1>7, PlayCopies
<1>8. CASE Pass(p) \/ DrawFromEmptyPile(p)
  BY <1>1, <1>3, <1>8, FirstPlace DEF Pass, DrawFromEmptyPile
<1>9. CASE DuelPass(p)
  BY <1>9 DEF DuelPass
<1> QED  BY <1>4, <1>5, <1>6, <1>7, <1>8, <1>9 DEF Move

\* A departure adds none.
LEMMA RemoveCopies ==
  ASSUME IInv, NEW p \in players, RemovePlayerFromGame(p)
  PROVE  copied' \in {copied, NoCards}
<1> DEFINE t      == GiveUpHand(Table, p)
           elim   == eliminated \union {p}
           active == players \ elim
<1>1. InPlay
  BY DEF RemovePlayerFromGame
<1>2. ConfigType /\ TableType /\ elim \in SUBSET players
  BY <1>1, InPlayFacts
<1>3. t \in Tables /\ t.copied = copied
  BY <1>2, GiveUpHandTyped DEF GiveUpHand, CopyHand, Table
<1>4. SetTable(t) \/ (Cardinality(active) > 1 /\ Ended(t, elim))
  BY DEF RemovePlayerFromGame, ResolveRoundEnd, GameOver, Ended
<1>5. Cardinality(active) \in Nat
  <2>1. active \in SUBSET players /\ IsFiniteSet(players)
    BY <1>2, Seats
  <2> HIDE DEF active
  <2> QED  BY <2>1, FS_Subset, FS_CardinalityType
<1>6. CASE SetTable(t)
  BY <1>3, <1>6 DEF SetTable
<1>7. CASE Cardinality(active) > 1 /\ Ended(t, elim)
  <2>1. Cardinality(players \ elim) >= 2
    BY <1>5, <1>7
  <2> HIDE DEF t, elim
  <2> QED  BY <1>2, <1>3, <1>7, <2>1, EndedCopies
<1> QED  BY <1>4, <1>6, <1>7

LEMMA StepCopies ==
  ASSUME IInv, [Next]_vars
  PROVE  copied' \in {copied, NoCards} \/ IsDuel
<1>1. CASE Start
  <2>1. /\ ConfigType /\ Table \in Tables /\ Table.copied = copied
        /\ StartRound(Table, {}, None, None)
    BY <1>1, TableTyped DEF IInv, TypeOK, Start, Table
  <2>2. Cardinality(players \ {}) >= 2
    BY <2>1, Seats
  <2> QED  BY <2>1, <2>2, StartRoundCopies
<1>2. CASE RecoverStuckTurn
  BY <1>2 DEF RecoverStuckTurn, tableVars
<1>3. ASSUME NEW p \in players, Swap(p) \/ LateInsertDrawn(p)
      PROVE  copied' = copied
  BY <1>3 DEF Swap, MarketSwap, LateInsertDrawn
<1>4. CASE UNCHANGED vars
  BY <1>4 DEF vars
<1> QED  BY <1>1, <1>2, <1>3, <1>4, MoveCopies, RemoveCopies DEF Next

\* Nobody comes back into a game.
LEMMA PlayersOnlyLeave ==
  [Abstract!Next]_(Abstract!vars) => players' = players /\ eliminated \subseteq eliminated'
BY DEF Abstract!Next, Abstract!vars, Abstract!Begin, Abstract!Escape, Abstract!EndRound,
       Abstract!Abandon, Abstract!LoseRound

LEMMA StepKeepsCopies ==
  ASSUME IInv, GameInv, IInv', CopiesOnlyInDuel, [Next]_vars
  PROVE  CopiesOnlyInDuel'
<1>1. players' = players /\ eliminated \subseteq eliminated'
  BY StepAdvances, PlayersOnlyLeave
<1>2. /\ ActivePlayers' \in SUBSET ActivePlayers /\ IsFiniteSet(ActivePlayers)
  <2>1. ActivePlayers \in SUBSET players /\ IsFiniteSet(players)
    BY Seats DEF IInv, TypeOK, ActivePlayers
  <2> QED  BY <1>1, <2>1, FS_Subset DEF ActivePlayers
<1>3. /\ Cardinality(ActivePlayers') \in Nat /\ Cardinality(ActivePlayers) \in Nat
      /\ Cardinality(ActivePlayers') <= Cardinality(ActivePlayers)
  BY <1>2, FS_Subset, FS_CardinalityType
<1>4. copied' \in {copied, NoCards} \/ IsDuel
  BY StepCopies
<1> QED  BY <1>3, <1>4 DEF CopiesOnlyInDuel, IsDuel, ActivePlayers

\* The inductive invariant of the cards, on top of that of the game.
THEOREM CardsInductive == Spec => [](IInv /\ GameInv /\ CardInv)
<1>1. Init => IInv /\ GameInv /\ CardInv
  BY InitIInv, InitGameInv, InitCardInv
<1>2. IInv /\ GameInv /\ CardInv /\ [Next]_vars => IInv' /\ GameInv' /\ CardInv'
  <2> SUFFICES ASSUME IInv, GameInv, CardInv, [Next]_vars
               PROVE  IInv' /\ GameInv' /\ CardInv'
    OBVIOUS
  <2>1. IInv' /\ GameInv'
    BY NextKeepsIInv, StepAdvances
  <2>2. TypeOK'
    BY <2>1 DEF IInv
  <2> QED  BY <2>1, <2>2, NextKeepsCards
<1> QED  BY <1>1, <1>2, PTL DEF Spec

\* What assertCardIntegrity asserts, for every deck, mode that deals anew and number of
\* players: until the first player abandons the game, every copy of every card is in
\* exactly one place, but for those that repeated plates have added.
THEOREM CardsAreKept == Spec => []CardIntegrity
<1>1. CardInv => CardIntegrity
  BY DEF CardInv
<1> QED  BY <1>1, CardsInductive, PTL

\* Whatever the mode and whoever leaves, no card comes into being but by a plate that a
\* play lists twice, and none at all while more than two players are left.
THEOREM CopiesComeFromPlates == Spec => []OnlyPlatesDuplicate
<1>1. Init => CopiesOnlyInDuel
  BY DEF Init, CopiesOnlyInDuel
<1>2. /\ IInv /\ GameInv /\ CardInv /\ IInv' /\ CopiesOnlyInDuel /\ [Next]_vars
      => CopiesOnlyInDuel'
  BY StepKeepsCopies
<1>3. CardInv /\ CopiesOnlyInDuel => OnlyPlatesDuplicate
  BY DEF CardInv, OnlyPlatesDuplicate
<1> QED  BY <1>1, <1>2, <1>3, CardsInductive, PTL DEF Spec

\* What the engine keeps twice agrees: the sabor fields with the pile, the duel passes
\* with the plates they used up.
THEOREM FieldsStayAgreed == Spec => []FieldsAgree
<1>1. GameInv /\ CardInv => FieldsAgree
  BY DEF GameInv, CardInv, FieldsAgree
<1> QED  BY <1>1, CardsInductive, PTL
===============================================================================
