-------------------------------- MODULE Rules --------------------------------
(***************************************************************************)
(* The legality rules of a play: src/src/game/engine/rules.ts.  A card is  *)
(* represented by its value: buildDeck (deck.ts) fixes the category of a   *)
(* card to its value, and nothing in the rules reads the id or the         *)
(* variant.  A list of indices without duplicates is the set of its        *)
(* elements.  Positions count from 1.                                      *)
(***************************************************************************)
EXTENDS Naturals, Sequences

CONSTANT Values          \* the card values in play, a subset of 1..7

FoodCategories ==
  << "SUSHI", "RAMEN", "TACO", "PIZZA", "CURRY", "BURGER", "DESSERT" >>

ASSUME ValuesAssumption == Values \subseteq DOMAIN FoodCategories

\* buildDeck: the category of a card is a function of its value.
Category(v) == FoodCategories[v]

\* Adjacent positions of the hand: no gap between two selected ones.
isContiguous(indices) ==
  /\ indices # {}
  /\ \A i, j \in indices : \A k \in i..j : k \in indices

isSameValue(cards) ==
  /\ cards # << >>
  /\ \A i \in DOMAIN cards : cards[i] = cards[1]

isSameCategory(cards) ==
  /\ cards # << >>
  /\ \A i \in DOMAIN cards : Category(cards[i]) = Category(cards[1])

\* Mutant: a sabor needs three cards.
isSaborOfThree(cards) == Len(cards) > 2 /\ isSameCategory(cards)

\* The sabor: two cards or more of one category.
isSabor(cards) == Len(cards) >= 2 /\ isSameCategory(cards)

\* A play beats the pile with more cards, or with as many of a higher value,
\* and while the sabor is active it has at least saborMinRequired cards.
beatsPlay(played, pile, saborActive, saborMinRequired) ==
  /\ saborActive => Len(played) >= saborMinRequired
  /\ \/ pile = << >>
     \/ Len(played) > Len(pile)
     \/ Len(played) = Len(pile) /\ played[1] > pile[1]

\* The cards of a contiguous selection, in the order of the hand.
Selected(hand, indices) ==
  IF indices = {} THEN << >>
  ELSE LET first == CHOOSE i \in indices : \A j \in indices : i <= j
           last  == CHOOSE i \in indices : \A j \in indices : j <= i
       IN  SubSeq(hand, first, last)

\* The hand without a contiguous selection.
Unselected(hand, indices) ==
  IF indices = {} THEN hand
  ELSE LET first == CHOOSE i \in indices : \A j \in indices : i <= j
           last  == CHOOSE i \in indices : \A j \in indices : j <= i
       IN  SubSeq(hand, 1, first - 1) \o SubSeq(hand, last + 1, Len(hand))

validatePlayIndices(hand, indices, pile, saborActive, saborMinRequired, plateCards) ==
  /\ indices # {} \/ plateCards # << >>
  /\ indices \subseteq DOMAIN hand
  /\ indices # {} => isContiguous(indices)
  /\ LET allCards == Selected(hand, indices) \o plateCards
     IN  /\ isSameValue(allCards)
         /\ beatsPlay(allCards, pile, saborActive, saborMinRequired)
=============================================================================
