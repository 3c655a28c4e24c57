----------------------------- MODULE EngineLemmas -----------------------------
(***************************************************************************)
(* Facts about the operators GameEngine is built from: the seats in order, *)
(* the turn that moves on, the bags and sequences of cards, and what the   *)
(* endings that several handlers share leave behind.                       *)
(***************************************************************************)
EXTENDS AutoPlay, FiniteSetTheorems, SequenceTheorems, TLAPS

\* A set of naturals that is not empty has a least element.
LEMMA LeastNat ==
  ASSUME NEW S \in SUBSET Nat, S # {}
  PROVE  \E m \in S : \A k \in S : m <= k
<1>1. PICK m \in S : \A k \in S : ~ (<<k, m>> \in OpToRel(<, Nat))
  BY NatLessThanWellFounded, WFMin, Zenon
<1>2. \A k \in S : ~(k < m)
  BY <1>1 DEF OpToRel
<1> QED  BY <1>2

\* The place of a seat in a list sorted by seat is a place of the list.
LEMMA IndexOfRange ==
  ASSUME NEW active \in SUBSET Nat, IsFiniteSet(active), NEW s \in active
  PROVE  IndexOf(active, s) \in 0..(Cardinality(active) - 1)
<1> DEFINE below == {t \in active : t < s}
<1>1. below \in SUBSET (active \ {s})
  OBVIOUS
<1>2. IsFiniteSet(active \ {s}) /\ Cardinality(active \ {s}) = Cardinality(active) - 1
  BY FS_RemoveElement
<1>3. IsFiniteSet(below) /\ Cardinality(below) <= Cardinality(active) - 1
  BY <1>1, <1>2, FS_Subset
<1>4. Cardinality(below) \in Nat /\ Cardinality(active) \in Nat
  BY <1>3, FS_CardinalityType
<1> QED  BY <1>3, <1>4 DEF IndexOf

\* A higher seat has a higher place.
LEMMA IndexOfMonotone ==
  ASSUME NEW active \in SUBSET Nat, IsFiniteSet(active),
         NEW s \in active, NEW t \in active, s < t
  PROVE  IndexOf(active, s) < IndexOf(active, t)
<1> DEFINE S == {u \in active : u < s}
           T == {u \in active : u < t}
<1>1. S \in SUBSET (T \ {s}) /\ s \in T
  <2>1. active \subseteq Nat
    OBVIOUS
  <2>2. \A u \in active : u < s => u < t /\ u # s
    BY <2>1
  <2> QED  BY <2>2
<1>2. T \in SUBSET active
  OBVIOUS
<1>3. IsFiniteSet(T)
  BY <1>2, FS_Subset
<1>4. IsFiniteSet(T \ {s}) /\ Cardinality(T \ {s}) = Cardinality(T) - 1
  BY <1>1, <1>3, FS_RemoveElement
<1>5. IsFiniteSet(S) /\ Cardinality(S) <= Cardinality(T) - 1
  BY <1>1, <1>4, FS_Subset
<1>6. Cardinality(S) \in Nat /\ Cardinality(T) \in Nat
  BY <1>3, <1>5, FS_CardinalityType
<1> QED  BY <1>5, <1>6 DEF IndexOf

\* Every place of the list is some seat's: counting up to the number of seats
\* meets each of them once.
LEMMA PlaceTaken ==
  ASSUME NEW active \in SUBSET Nat, IsFiniteSet(active),
         NEW k \in 0..(Cardinality(active) - 1)
  PROVE  \E s \in active : IndexOf(active, s) = k
<1> DEFINE n == Cardinality(active)
           f == [s \in active |-> IndexOf(active, s)]
<1>1. n \in Nat
  BY FS_CardinalityType
<1>2. f \in [active -> 0..(n - 1)]
  BY IndexOfRange
<1>3. ASSUME NEW a \in active, NEW b \in active, f[a] = f[b]
      PROVE  a = b
  <2>1. CASE a < b
    <3>1. IndexOf(active, a) < IndexOf(active, b)
      BY <2>1, IndexOfMonotone
    <3>2. IndexOf(active, a) \in Int /\ IndexOf(active, b) \in Int
      BY IndexOfRange
    <3> QED  BY <1>3, <3>1, <3>2
  <2>2. CASE b < a
    <3>1. IndexOf(active, b) < IndexOf(active, a)
      BY <2>2, IndexOfMonotone
    <3>2. IndexOf(active, a) \in Int /\ IndexOf(active, b) \in Int
      BY IndexOfRange
    <3> QED  BY <1>3, <3>1, <3>2
  <2> QED  BY <2>1, <2>2
<1>4. f \in Injection(active, 0..(n - 1))
  BY <1>2, <1>3 DEF Injection, IsInjective
<1>5. IsFiniteSet(0..(n - 1)) /\ Cardinality(0..(n - 1)) = n
  BY <1>1, FS_Interval
<1>6. f \in Surjection(active, 0..(n - 1))
  BY <1>4, <1>5, FS_Injection
<1> QED  BY <1>6 DEF Surjection

\* currentPlayer() is always one of the active players, at the place asked for.
LEMMA SeatAtPlace ==
  ASSUME NEW active \in SUBSET Nat, IsFiniteSet(active), active # {}, NEW i \in Nat
  PROVE  /\ SeatAt(active, i) \in active
         /\ IndexOf(active, SeatAt(active, i)) = i % Cardinality(active)
<1>1. Cardinality(active) \in Nat \ {0}
  BY FS_CardinalityType, FS_EmptySet
<1>2. i % Cardinality(active) \in 0..(Cardinality(active) - 1)
  BY <1>1
<1>3. \E s \in active : IndexOf(active, s) = i % Cardinality(active)
  BY <1>2, PlaceTaken
<1> QED  BY <1>3 DEF SeatAt

\* Two players never share a place, so a place tells the seat.
LEMMA SeatOfPlace ==
  ASSUME NEW active \in SUBSET Nat, IsFiniteSet(active),
         NEW s \in active, NEW i \in Nat, IndexOf(active, s) = i % Cardinality(active)
  PROVE  SeatAt(active, i) = s
<1> DEFINE t == SeatAt(active, i)
<1>1. t \in active /\ IndexOf(active, t) = IndexOf(active, s)
  BY SeatAtPlace
<1>2. IndexOf(active, s) \in Int /\ IndexOf(active, t) \in Int
  BY <1>1, IndexOfRange
<1>3. s < t => IndexOf(active, s) < IndexOf(active, t)
  BY <1>1, IndexOfMonotone
<1>4. t < s => IndexOf(active, t) < IndexOf(active, s)
  BY <1>1, IndexOfMonotone
<1>5. s \in Nat /\ t \in Nat
  BY <1>1
<1> HIDE DEF t
<1>6. s = t
  BY <1>1, <1>2, <1>3, <1>4, <1>5
<1> QED  BY <1>6 DEF t

\* An index counts modulo the number of players.
LEMMA SeatAtModulo ==
  ASSUME NEW active, Cardinality(active) \in Nat \ {0}, NEW i \in Nat
  PROVE  SeatAt(active, i % Cardinality(active)) = SeatAt(active, i)
<1>1. (i % Cardinality(active)) % Cardinality(active) = i % Cardinality(active)
  BY SMT
<1> QED  BY <1>1 DEF SeatAt

-------------------------------------------------------------------------------
(* The turn. *)

\* Going round a table of n: from any place, one to n steps lead to any place.
LEMMA StepsLead ==
  ASSUME NEW n \in Nat \ {0}, NEW i \in Nat, NEW j \in 0..(n - 1)
  PROVE  \E k \in 1..n : (i + k) % n = j
<1> DEFINE r == i % n
           q == i \div n
           k == IF j > r THEN j - r ELSE j - r + n
<1>1. i = n * q + r /\ r \in 0..(n - 1) /\ q \in Nat
  BY SMT
<1>2. k \in 1..n
  BY <1>1
<1>3. \A p \in Nat : (n * p + j) % n = j
  BY SMT
<1>4. CASE j > r
  <2>1. i + k = n * q + j
    BY <1>1, <1>4
  <2> QED  BY <1>1, <1>2, <1>3, <2>1
<1>5. CASE ~(j > r)
  <2>1. i + k = n * (q + 1) + j
    BY <1>1, <1>5
  <2>2. q + 1 \in Nat
    BY <1>1
  <2> HIDE DEF k, q, r
  <2>3. (n * (q + 1) + j) % n = j
    BY <1>3, <2>2
  <2>4. (i + k) % n = j
    BY <2>1, <2>3
  <2> QED  BY <1>2, <2>4
<1> QED  BY <1>4, <1>5

\* advanceTurn stops at a place of the list, and at a player still in the round
\* when there is one.
LEMMA NextIndexFinds ==
  ASSUME NEW active \in SUBSET Nat, IsFiniteSet(active), active # {},
         NEW out, currentTurnIndex \in Nat
  PROVE  /\ NextIndex(active, out) \in 0..(Cardinality(active) - 1)
         /\ active \ out # {} => SeatAt(active, NextIndex(active, out)) \in active \ out
<1> DEFINE n    == Cardinality(active)
           hops == {k \in 1..n : SeatAt(active, currentTurnIndex + k) \notin out}
           first == IF hops = {} THEN n ELSE CHOOSE k \in hops : \A j \in hops : k <= j
<1>1. n \in Nat \ {0}
  BY FS_CardinalityType, FS_EmptySet
<1>2. hops # {} => first \in hops
  <2>1. hops \in SUBSET Nat
    BY <1>1
  <2> QED  BY <2>1, LeastNat
<1>3. first \in 1..n
  BY <1>1, <1>2
<1>4. NextIndex(active, out) = (currentTurnIndex + first) % n
  BY DEF NextIndex
<1>5. NextIndex(active, out) \in 0..(n - 1)
  BY <1>1, <1>3, <1>4
<1>6. ASSUME active \ out # {}
      PROVE  SeatAt(active, NextIndex(active, out)) \in active \ out
  <2>1. PICK s \in active : s \notin out
    BY <1>6
  <2>2. IndexOf(active, s) \in 0..(n - 1)
    BY IndexOfRange
  <2>3. PICK k \in 1..n : (currentTurnIndex + k) % n = IndexOf(active, s)
    BY <1>1, <2>2, StepsLead
  <2>4. SeatAt(active, currentTurnIndex + k) = s
    <3> DEFINE i == currentTurnIndex + k
    <3>1. i \in Nat /\ IndexOf(active, s) = i % Cardinality(active)
      BY <1>1, <2>3
    <3> HIDE DEF i, hops, first, n
    <3>2. SeatAt(active, i) = s
      BY <3>1, SeatOfPlace
    <3> QED  BY <3>2 DEF i
  <2>5. first \in hops
    BY <1>2, <2>1, <2>4
  <2>6. SeatAt(active, currentTurnIndex + first) \notin out
    BY <2>5
  <2>7. SeatAt(active, NextIndex(active, out)) = SeatAt(active, currentTurnIndex + first)
    BY <1>1, <1>3, <1>4, SeatAtModulo
  <2>8. SeatAt(active, NextIndex(active, out)) \in active
    BY <1>5, SeatAtPlace
  <2> QED  BY <2>6, <2>7, <2>8
<1> QED  BY <1>5, <1>6

-------------------------------------------------------------------------------
(* Cards. *)

\* Card values are positive numbers.
LEMMA ValuesAreNat == Values \subseteq Nat \ {0}
  BY ValuesAssumption DEF FoodCategories

\* Counting the cards of one value in a list gives a number.
LEMMA CountOfNat ==
  ASSUME NEW s \in Seq(Values), NEW v
  PROVE  CountOf(s, v) \in Nat
<1>1. DOMAIN s = 1..Len(s) /\ Len(s) \in Nat
  BY LenProperties
<1>2. IsFiniteSet(1..Len(s))
  BY <1>1, FS_Interval
<1>3. {i \in DOMAIN s : s[i] = v} \in SUBSET (1..Len(s))
  BY <1>1
<1>4. IsFiniteSet({i \in DOMAIN s : s[i] = v})
  BY <1>2, <1>3, FS_Subset
<1> QED  BY <1>4, FS_CardinalityType DEF CountOf

\* Putting cards on a bag leaves a bag.
LEMMA PlusType ==
  ASSUME NEW b \in Cards, NEW s \in Seq(Values)
  PROVE  Plus(b, s) \in Cards
BY CountOfNat DEF Plus, Cards

\* What a deal takes off a pile, and what it leaves there, are bags of cards.
LEMMA SpliceType ==
  ASSUME NEW b \in Cards, NEW k \in Nat, NEW c \in Splice(b, k)
  PROVE  c \in Cards /\ Minus(b, c) \in Cards
<1>1. c \in [Values -> 0..k] /\ \A v \in Values : c[v] <= b[v]
  BY DEF Splice
<1>2. \A v \in Values : c[v] \in Nat /\ b[v] - c[v] \in Nat
  <2> TAKE v \in Values
  <2>1. c[v] \in 0..k /\ c[v] <= b[v]
    BY <1>1
  <2>2. b[v] \in Nat
    BY DEF Cards
  <2> QED  BY <2>1, <2>2
<1> QED  BY <1>1, <1>2 DEF Cards, Minus

\* The empty bag is a bag.
LEMMA NoCardsType == NoCards \in Cards
  BY DEF NoCards, Cards

\* A hand stays a list of cards, whatever is put into it or played from it.
LEMMA InsertAtType ==
  ASSUME NEW h \in Seq(Values), NEW cards \in Seq(Values), NEW i \in 0..Len(h)
  PROVE  /\ InsertAt(h, i, cards) \in Seq(Values)
         /\ Len(InsertAt(h, i, cards)) = Len(h) + Len(cards)
<1>1. Len(h) \in Nat /\ \A j \in 1..Len(h) : h[j] \in Values
  BY LenProperties, ElementOfSeq
<1>2. /\ SubSeq(h, 1, i) \in Seq(Values)
      /\ Len(SubSeq(h, 1, i)) = i
  <2>1. \A j \in 1..i : h[j] \in Values
    BY <1>1
  <2> QED  BY <1>1, <2>1, SubSeqProperties
<1>3. /\ SubSeq(h, i + 1, Len(h)) \in Seq(Values)
      /\ Len(SubSeq(h, i + 1, Len(h))) = Len(h) - i
  <2>1. \A j \in (i + 1)..Len(h) : h[j] \in Values
    BY <1>1
  <2> QED  BY <1>1, <2>1, SubSeqProperties
<1>4. /\ SubSeq(h, 1, i) \o cards \in Seq(Values)
      /\ Len(SubSeq(h, 1, i) \o cards) = i + Len(cards)
  BY <1>2, ConcatProperties
<1>5. Len(cards) \in Nat
  BY LenProperties
<1> DEFINE left  == SubSeq(h, 1, i) \o cards
           right == SubSeq(h, i + 1, Len(h))
<1>6. InsertAt(h, i, cards) = left \o right
  BY DEF InsertAt
<1> HIDE DEF left, right
<1>7. /\ left \o right \in Seq(Values)
      /\ Len(left \o right) = Len(left) + Len(right)
  <2>1. left \in Seq(Values) /\ right \in Seq(Values)
    BY <1>3, <1>4 DEF left, right
  <2> QED  BY <2>1, ConcatProperties
<1>8. Len(left) = i + Len(cards) /\ Len(right) = Len(h) - i
  BY <1>3, <1>4 DEF left, right
<1>9. Len(left) + Len(right) = Len(h) + Len(cards)
  BY <1>1, <1>5, <1>8
<1> QED  BY <1>6, <1>7, <1>9

\* A run of adjacent cards is a stretch of the hand.
LEMMA RangeOfPlay ==
  ASSUME NEW h \in Seq(Values), NEW a \in 1..Len(h), NEW b \in 1..Len(h), a <= b,
         NEW indices, indices = a..b
  PROVE  /\ Selected(h, indices) = SubSeq(h, a, b)
         /\ Unselected(h, indices) = SubSeq(h, 1, a - 1) \o SubSeq(h, b + 1, Len(h))
<1>1. Len(h) \in Nat
  BY LenProperties
<1>2. a \in Nat /\ b \in Nat /\ a <= b
  BY <1>1
<1>3. a \in a..b /\ b \in a..b
  BY <1>2
<1>4. a..b # {}
  BY <1>3
<1>5. \A j \in a..b : a <= j /\ j <= b
  BY <1>2
<1>6. \A i \in a..b : (\A j \in a..b : i <= j) <=> i = a
  BY <1>2, <1>3, <1>5
<1>7. \A i \in a..b : (\A j \in a..b : j <= i) <=> i = b
  BY <1>2, <1>3, <1>5
<1>8. (CHOOSE i \in a..b : \A j \in a..b : i <= j) = a
  BY <1>3, <1>6
<1>9. (CHOOSE i \in a..b : \A j \in a..b : j <= i) = b
  BY <1>3, <1>7
<1> QED  BY <1>4, <1>8, <1>9 DEF Selected, Unselected

\* Playing adjacent cards: what is played and what stays are both lists of cards.
LEMMA PlayType ==
  ASSUME NEW h \in Seq(Values), NEW indices,
         indices = {} \/ \E i, j \in DOMAIN h : indices = i..j
  PROVE  /\ Selected(h, indices) \in Seq(Values)
         /\ Unselected(h, indices) \in Seq(Values)
<1>1. Len(h) \in Nat /\ DOMAIN h = 1..Len(h) /\ \A j \in 1..Len(h) : h[j] \in Values
  BY LenProperties, ElementOfSeq
<1>2. CASE indices = {}
  BY <1>2, EmptySeq DEF Selected, Unselected
<1>3. CASE indices # {}
  <2>1. PICK a \in 1..Len(h), b \in 1..Len(h) : indices = a..b
    BY <1>1, <1>3
  <2>2. a <= b
    BY <1>1, <1>3, <2>1
  <2>3. /\ Selected(h, indices) = SubSeq(h, a, b)
        /\ Unselected(h, indices) = SubSeq(h, 1, a - 1) \o SubSeq(h, b + 1, Len(h))
    BY <2>1, <2>2, RangeOfPlay
  <2>4. SubSeq(h, a, b) \in Seq(Values)
    <3>1. \A j \in a..b : h[j] \in Values
      BY <1>1, <2>2
    <3> QED  BY <1>1, <3>1, SubSeqProperties
  <2>5. SubSeq(h, 1, a - 1) \in Seq(Values)
    <3>1. \A j \in 1..(a - 1) : h[j] \in Values
      BY <1>1
    <3> QED  BY <1>1, <3>1, SubSeqProperties
  <2>6. SubSeq(h, b + 1, Len(h)) \in Seq(Values)
    <3>1. \A j \in (b + 1)..Len(h) : h[j] \in Values
      BY <1>1
    <3> QED  BY <1>1, <3>1, SubSeqProperties
  <2> QED  BY <2>3, <2>4, <2>5, <2>6, ConcatProperties
<1> QED  BY <1>2, <1>3

\* A list of one card has as many of it as it is long, and none of another.
LEMMA CountOfCopies ==
  ASSUME NEW v \in Values, NEW n \in Nat, NEW w \in Values
  PROVE  /\ Copies(v, n) \in Seq(Values) /\ Len(Copies(v, n)) = n
         /\ CountOf(Copies(v, n), w) = IF w = v THEN n ELSE 0
<1> DEFINE c == Copies(v, n)
<1>1. c \in [1..n -> Values] /\ DOMAIN c = 1..n /\ \A i \in 1..n : c[i] = v
  BY DEF Copies
<1>2. c \in Seq(Values)
  BY <1>1, SeqDef
<1>3. Len(c) = n
  <2> HIDE DEF c
  <2> QED  BY <1>1, <1>2, LenProperties
<1>4. CASE w = v
  <2>1. {i \in DOMAIN c : c[i] = w} = 1..n
    BY <1>1, <1>4
  <2>2. Cardinality(1..n) = n
    BY FS_Interval
  <2> QED  BY <1>2, <1>3, <1>4, <2>1, <2>2 DEF CountOf
<1>5. CASE w # v
  <2>1. {i \in DOMAIN c : c[i] = w} = {}
    BY <1>1, <1>5
  <2> QED  BY <1>2, <1>3, <1>5, <2>1, FS_EmptySet DEF CountOf
<1> QED  BY <1>4, <1>5

\* The plates a client adds to a play are cards of one value, and the plates they can
\* stand for are no more of them; without the one there are none of the other.
LEMMA PlatesTyped ==
  ASSUME NEW plateCards \in PlateLists, NEW taken \in PlatesOf(plateCards)
  PROVE  /\ plateCards \in Seq(Values) /\ taken \in Seq(Values)
         /\ \A v \in Values : CountOf(taken, v) <= CountOf(plateCards, v)
         /\ plateCards = << >> => \A v \in Values : CountOf(plateCards, v) = 0
<1>1. PICK v \in Values, n \in 0..MaxPlateIndices : plateCards = Copies(v, n)
  BY DEF PlateLists
<1>2. n \in Nat
  BY <1>1, EngineAssumption
<1>3. /\ plateCards \in Seq(Values) /\ Len(plateCards) = n
      /\ \A w \in Values : CountOf(plateCards, w) = IF w = v THEN n ELSE 0
  BY <1>1, <1>2, CountOfCopies
<1>4. CASE plateCards = << >>
  <2>1. taken = plateCards
    BY <1>4 DEF PlatesOf
  <2>2. n = 0
    BY <1>3, <1>4
  <2> QED  BY <1>3, <2>1, <2>2
<1>5. CASE plateCards # << >>
  <2>1. PICK k \in 1..n : taken = Copies(plateCards[1], k)
    BY <1>3, <1>5 DEF PlatesOf
  <2>2. plateCards[1] = v /\ k \in Nat /\ k <= n
    BY <1>1, <1>2, <2>1 DEF Copies
  <2>3. /\ taken \in Seq(Values)
        /\ \A w \in Values : CountOf(taken, w) = IF w = v THEN k ELSE 0
    BY <2>1, <2>2, CountOfCopies
  <2> QED  BY <1>2, <1>3, <1>5, <2>2, <2>3
<1> QED  BY <1>4, <1>5

-------------------------------------------------------------------------------
(* How many cards there are: of a value in a list, in a bag, in all the hands. *)

\* The cards of a bag one by one, which SizeOf counts.
CardsIn(b) == UNION {{x} \X (1..b[x]) : x \in DOMAIN b}

\* The same without those under s.
CardsBut(b, s) == UNION {{x} \X (1..b[x]) : x \in DOMAIN b \ {s}}

\* One x of a bag is as many cards as the bag says.
LEMMA CardsOfOne ==
  ASSUME NEW x, NEW n \in Nat
  PROVE  IsFiniteSet({x} \X (1..n)) /\ Cardinality({x} \X (1..n)) = n
<1>1. IsFiniteSet({x}) /\ Cardinality({x}) = 1
  BY FS_Singleton
<1>2. IsFiniteSet(1..n) /\ Cardinality(1..n) = n
  BY FS_Interval
<1>3. /\ IsFiniteSet({x} \X (1..n))
      /\ Cardinality({x} \X (1..n)) = Cardinality({x}) * Cardinality(1..n)
  BY <1>1, <1>2, FS_Product
<1> QED  BY <1>1, <1>2, <1>3

\* A bag over a finite set is finite.
LEMMA CardsInFinite ==
  ASSUME NEW S, IsFiniteSet(S), NEW b \in [S -> Nat]
  PROVE  IsFiniteSet(CardsIn(b)) /\ SizeOf(b) = Cardinality(CardsIn(b)) /\ SizeOf(b) \in Nat
<1> DEFINE Piles == {{x} \X (1..b[x]) : x \in S}
           f     == [x \in S |-> {x} \X (1..b[x])]
<1>1. IsFiniteSet(Piles)
  <2>1. f \in Surjection(S, Piles)
    BY DEF Surjection
  <2> HIDE DEF f, Piles
  <2> QED  BY <2>1, FS_Surjection
<1>2. \A P \in Piles : IsFiniteSet(P)
  <2> TAKE P \in Piles
  <2>1. PICK x \in S : P = {x} \X (1..b[x])
    OBVIOUS
  <2> QED  BY <2>1, CardsOfOne
<1>3. IsFiniteSet(UNION Piles)
  <2> HIDE DEF Piles
  <2> QED  BY <1>1, <1>2, FS_UNION
<1>4. CardsIn(b) = UNION Piles
  BY DEF CardsIn
<1>5. SizeOf(b) = Cardinality(CardsIn(b))
  BY DEF SizeOf, CardsIn
<1> QED  BY <1>3, <1>4, <1>5, FS_CardinalityType

\* The cards under s and the others make up the bag.
LEMMA SizeWithout ==
  ASSUME NEW S, IsFiniteSet(S), NEW b \in [S -> Nat], NEW s \in S
  PROVE  /\ Cardinality(CardsBut(b, s)) \in Nat
         /\ SizeOf(b) = Cardinality(CardsBut(b, s)) + b[s]
<1> DEFINE R == CardsBut(b, s)
           A == {s} \X (1..b[s])
<1>1. CardsIn(b) = R \cup A
  BY DEF CardsIn, CardsBut
<1>2. R \cap A = {}
  BY DEF CardsBut
<1>3. IsFiniteSet(CardsIn(b)) /\ SizeOf(b) = Cardinality(CardsIn(b))
  BY CardsInFinite
<1>4. R \in SUBSET CardsIn(b)
  BY <1>1
<1>5. IsFiniteSet(R)
  <2> HIDE DEF R
  <2> QED  BY <1>3, <1>4, FS_Subset
<1>6. IsFiniteSet(A) /\ Cardinality(A) = b[s]
  BY CardsOfOne
<1>7. Cardinality(R \cup A) = Cardinality(R) + Cardinality(A) - Cardinality(R \cap A)
  <2> HIDE DEF R, A
  <2> QED  BY <1>5, <1>6, FS_Union
<1>8. Cardinality(R \cap A) = 0 /\ Cardinality(R) \in Nat
  <2> HIDE DEF R, A
  <2> QED  BY <1>2, <1>5, FS_EmptySet, FS_CardinalityType
<1> HIDE DEF R, A
<1>9. Cardinality(R \cup A) = Cardinality(R) + b[s]
  BY <1>6, <1>7, <1>8
<1> QED  BY <1>1, <1>3, <1>8, <1>9 DEF R

\* Changing what a bag holds under s changes its size by as much.
LEMMA SizeOfExcept ==
  ASSUME NEW S, IsFiniteSet(S), NEW b \in [S -> Nat], NEW s \in S, NEW n \in Nat
  PROVE  SizeOf([b EXCEPT ![s] = n]) = SizeOf(b) - b[s] + n
<1> DEFINE c == [b EXCEPT ![s] = n]
<1>1. c \in [S -> Nat] /\ c[s] = n
  OBVIOUS
<1>2. CardsBut(c, s) = CardsBut(b, s)
  BY DEF CardsBut
<1>3. SizeOf(b) = Cardinality(CardsBut(b, s)) + b[s] /\ Cardinality(CardsBut(b, s)) \in Nat
  BY SizeWithout
<1>4. SizeOf(c) = Cardinality(CardsBut(c, s)) + c[s]
  <2> HIDE DEF c
  <2> QED  BY <1>1, SizeWithout
<1>5. b[s] \in Nat
  OBVIOUS
<1> HIDE DEF c
<1>6. SizeOf(c) = SizeOf(b) - b[s] + n
  BY <1>1, <1>2, <1>3, <1>4, <1>5
<1> QED  BY <1>6 DEF c

\* A bag that holds no more of anything is not larger.
LEMMA SizeOfSmaller ==
  ASSUME NEW S, IsFiniteSet(S), NEW b \in [S -> Nat], NEW c \in [S -> Nat],
         \A x \in S : c[x] <= b[x]
  PROVE  SizeOf(c) <= SizeOf(b)
<1>1. CardsIn(c) \in SUBSET CardsIn(b)
  <2>1. \A x \in S : 1..c[x] \subseteq 1..b[x]
    OBVIOUS
  <2>2. \A x \in S : {x} \X (1..c[x]) \subseteq {x} \X (1..b[x])
    BY <2>1
  <2> QED  BY <2>2 DEF CardsIn
<1>2. /\ IsFiniteSet(CardsIn(b)) /\ SizeOf(b) = Cardinality(CardsIn(b))
      /\ SizeOf(c) = Cardinality(CardsIn(c))
  BY CardsInFinite
<1> QED  BY <1>1, <1>2, FS_Subset

\* A bag without cards has size zero.
LEMMA SizeOfNothing ==
  ASSUME NEW S, NEW b \in [S -> Nat], \A x \in S : b[x] = 0
  PROVE  SizeOf(b) = 0
<1>1. CardsIn(b) = {}
  BY DEF CardsIn
<1> QED  BY <1>1, FS_EmptySet DEF SizeOf, CardsIn

\* Where nothing is, nothing counts.
LEMMA SizeOfPart ==
  ASSUME NEW b, NEW c, DOMAIN c \subseteq DOMAIN b,
         \A x \in DOMAIN c : c[x] = b[x], \A x \in DOMAIN b \ DOMAIN c : b[x] = 0
  PROVE  SizeOf(c) = SizeOf(b)
<1>1. CardsIn(c) = CardsIn(b)
  BY DEF CardsIn
<1> QED  BY <1>1 DEF SizeOf, CardsIn

\* What is handed round is not more than before: each gets what one other had.
LEMMA SizeOfHandedRound ==
  ASSUME NEW S, IsFiniteSet(S), NEW b \in [S -> Nat], NEW f \in Injection(S, S)
  PROVE  SizeOf([x \in S |-> b[f[x]]]) <= SizeOf(b)
<1> DEFINE c == [x \in S |-> b[f[x]]]
           g == [z \in CardsIn(c) |-> <<f[z[1]], z[2]>>]
<1>1. f \in [S -> S] /\ \A x, y \in S : f[x] = f[y] => x = y
  BY DEF Injection, IsInjective
<1>2. c \in [S -> Nat]
  BY <1>1
<1>3. \A z \in CardsIn(c) : \E x \in S : \E i \in 1..b[f[x]] : z = <<x, i>>
  BY <1>2 DEF CardsIn
<1>4. \A x \in S : \A i \in 1..b[x] : <<x, i>> \in CardsIn(b)
  BY DEF CardsIn
<1>5. g \in [CardsIn(c) -> CardsIn(b)]
  <2>1. \A z \in CardsIn(c) : <<f[z[1]], z[2]>> \in CardsIn(b)
    BY <1>1, <1>3, <1>4
  <2> QED  BY <2>1
<1>6. \A y, z \in CardsIn(c) : g[y] = g[z] => y = z
  BY <1>1, <1>3
<1>7. g \in Injection(CardsIn(c), CardsIn(b))
  BY <1>5, <1>6 DEF Injection, IsInjective
<1>8. IsFiniteSet(CardsIn(b)) /\ SizeOf(b) = Cardinality(CardsIn(b))
  BY CardsInFinite
<1>9. SizeOf(c) = Cardinality(CardsIn(c))
  BY DEF SizeOf, CardsIn
<1> HIDE DEF c, g
<1>10. Cardinality(CardsIn(c)) <= Cardinality(CardsIn(b))
  BY <1>7, <1>8, FS_Injection
<1> QED  BY <1>8, <1>9, <1>10 DEF c

\* One card counts under its value.
One(c, v) == IF c = v THEN 1 ELSE 0

\* Counting one value in a finite family of cards gives a number.
LEMMA CountOfFamily ==
  ASSUME NEW S, IsFiniteSet(S), NEW f, DOMAIN f = S, NEW v
  PROVE  CountOf(f, v) \in Nat
<1> DEFINE D == {i \in S : f[i] = v}
<1>1. D \in SUBSET S
  OBVIOUS
<1>2. Cardinality(D) \in Nat
  <2> HIDE DEF D
  <2> QED  BY <1>1, FS_Subset, FS_CardinalityType
<1> QED  BY <1>2 DEF CountOf

\* Changing one card of the family changes the count by that one.
LEMMA CountOfExcept ==
  ASSUME NEW S, IsFiniteSet(S), NEW f, DOMAIN f = S, NEW g, DOMAIN g = S, NEW s \in S,
         \A x \in S \ {s} : g[x] = f[x], NEW v
  PROVE  CountOf(g, v) = CountOf(f, v) - One(f[s], v) + One(g[s], v)
<1> DEFINE D == {i \in S : f[i] = v}
           E == {i \in S : g[i] = v}
<1>1. CountOf(f, v) = Cardinality(D) /\ CountOf(g, v) = Cardinality(E)
  BY DEF CountOf
<1>2. IsFiniteSet(D)
  <2>1. D \in SUBSET S
    OBVIOUS
  <2> HIDE DEF D
  <2> QED  BY <2>1, FS_Subset
<1>3. E = IF g[s] = v THEN D \cup {s} ELSE D \ {s}
  OBVIOUS
<1>4. s \in D <=> f[s] = v
  OBVIOUS
<1>5. /\ Cardinality(D) \in Nat
      /\ Cardinality(D \cup {s}) = IF s \in D THEN Cardinality(D) ELSE Cardinality(D) + 1
      /\ Cardinality(D \ {s}) = IF s \in D THEN Cardinality(D) - 1 ELSE Cardinality(D)
  <2> HIDE DEF D
  <2> QED  BY <1>2, FS_CardinalityType, FS_AddElement, FS_RemoveElement
<1> HIDE DEF D, E
<1>6. Cardinality(E) = Cardinality(D) - One(f[s], v) + One(g[s], v)
  BY <1>3, <1>4, <1>5 DEF One
<1> QED  BY <1>1, <1>6

\* No card, no count; one card counts under its value.
LEMMA CountOfFew ==
  ASSUME NEW v
  PROVE  CountOf(<< >>, v) = 0 /\ \A c : CountOf(<<c>>, v) = One(c, v)
<1>1. {i \in DOMAIN << >> : << >>[i] = v} = {}
  OBVIOUS
<1>2. ASSUME NEW c
      PROVE  CountOf(<<c>>, v) = One(c, v)
  <2>1. {i \in DOMAIN <<c>> : <<c>>[i] = v} = IF c = v THEN {1} ELSE {}
    OBVIOUS
  <2> QED  BY <2>1, FS_EmptySet, FS_Singleton DEF CountOf, One
<1> QED  BY <1>1, <1>2, FS_EmptySet DEF CountOf

\* Two lists one after the other have the cards of both.
LEMMA CountOfConcat ==
  ASSUME NEW s \in Seq(Values), NEW t \in Seq(Values), NEW v
  PROVE  CountOf(s \o t, v) = CountOf(s, v) + CountOf(t, v)
<1> DEFINE m == Len(s)
           n == Len(t)
           A == {i \in 1..m : s[i] = v}
           T == {j \in 1..n : t[j] = v}
           B == {i \in (m + 1)..(m + n) : t[i - m] = v}
           f == [j \in T |-> j + m]
<1>1. m \in Nat /\ n \in Nat /\ DOMAIN s = 1..m /\ DOMAIN t = 1..n
  BY LenProperties
<1>2. /\ s \o t \in Seq(Values) /\ Len(s \o t) = m + n
      /\ \A i \in 1..(m + n) : (s \o t)[i] = IF i <= m THEN s[i] ELSE t[i - m]
  BY ConcatProperties
<1>3. DOMAIN (s \o t) = 1..(m + n)
  BY <1>2, LenProperties
<1>4. {i \in DOMAIN (s \o t) : (s \o t)[i] = v} = A \cup B
  <2> DEFINE u == s \o t
  <2>1. DOMAIN u = 1..(m + n) /\ \A i \in 1..(m + n) : u[i] = IF i <= m THEN s[i] ELSE t[i - m]
    BY <1>2, <1>3
  <2> HIDE DEF u, m, n
  <2>2. {i \in DOMAIN u : u[i] = v} = A \cup B
    BY <1>1, <2>1
  <2> QED  BY <2>2 DEF u
<1>5. A \cap B = {}
  BY <1>1
<1>6. IsFiniteSet(A) /\ IsFiniteSet(T)
  <2>1. A \in SUBSET (1..m) /\ T \in SUBSET (1..n)
    OBVIOUS
  <2>2. IsFiniteSet(1..m) /\ IsFiniteSet(1..n)
    BY <1>1, FS_Interval
  <2> HIDE DEF A, T
  <2> QED  BY <2>1, <2>2, FS_Subset
<1>7. f \in Bijection(T, B)
  <2> HIDE DEF m, n
  <2>1. f \in [T -> B]
    BY <1>1
  <2>2. \A i, j \in T : f[i] = f[j] => i = j
    BY <1>1
  <2>3. \A i \in B : \E j \in T : f[j] = i
    <3> TAKE i \in B
    <3>1. i - m \in T /\ (i - m) + m = i
      BY <1>1
    <3> QED  BY <3>1
  <2> QED  BY <2>1, <2>2, <2>3 DEF Bijection, Injection, Surjection, IsInjective
<1>8. IsFiniteSet(B) /\ Cardinality(B) = Cardinality(T)
  <2> HIDE DEF B, T, f
  <2> QED  BY <1>6, <1>7, FS_Bijection DEF ExistsBijection
<1>9. Cardinality(A \cup B) = Cardinality(A) + Cardinality(B) - Cardinality(A \cap B)
  <2> HIDE DEF A, B
  <2> QED  BY <1>6, <1>8, FS_Union
<1>10. Cardinality(A \cap B) = 0 /\ Cardinality(A) \in Nat /\ Cardinality(T) \in Nat
  <2> HIDE DEF A, B, T
  <2> QED  BY <1>5, <1>6, FS_EmptySet, FS_CardinalityType
<1>11. CountOf(s \o t, v) = Cardinality(A \cup B)
  BY <1>4 DEF CountOf
<1>12. CountOf(s, v) = Cardinality(A) /\ CountOf(t, v) = Cardinality(T)
  BY <1>1 DEF CountOf
<1> HIDE DEF A, B, T
<1> QED  BY <1>8, <1>9, <1>10, <1>11, <1>12

\* Putting cards into a hand adds them to it.
LEMMA CountOfInsertAt ==
  ASSUME NEW h \in Seq(Values), NEW cards \in Seq(Values), NEW i \in 0..Len(h), NEW v
  PROVE  CountOf(InsertAt(h, i, cards), v) = CountOf(h, v) + CountOf(cards, v)
<1> DEFINE left  == SubSeq(h, 1, i)
           right == SubSeq(h, i + 1, Len(h))
<1>1. Len(h) \in Nat /\ \A j \in 1..Len(h) : h[j] \in Values
  BY LenProperties, ElementOfSeq
<1>2. left \in Seq(Values)
  <2>1. \A j \in 1..i : h[j] \in Values
    BY <1>1
  <2> QED  BY <1>1, <2>1, SubSeqProperties
<1>3. right \in Seq(Values)
  <2>1. \A j \in (i + 1)..Len(h) : h[j] \in Values
    BY <1>1
  <2> QED  BY <1>1, <2>1, SubSeqProperties
<1>4. left \o right = h
  <2>1. 1 \in 1..(Len(h) + 1) /\ i \in (1 - 1)..Len(h) /\ Len(h) \in i..Len(h)
    BY <1>1
  <2>2. SubSeq(h, 1, i) \o SubSeq(h, i + 1, Len(h)) = SubSeq(h, 1, Len(h))
    BY <2>1, ConcatAdjacentSubSeq
  <2> QED  BY <2>2, SubSeqFull
<1>5. InsertAt(h, i, cards) = (left \o cards) \o right
  BY DEF InsertAt
<1> HIDE DEF left, right
<1>6. left \o cards \in Seq(Values)
  BY <1>2, ConcatProperties
<1>7. CountOf(InsertAt(h, i, cards), v)
        = CountOf(left, v) + CountOf(cards, v) + CountOf(right, v)
  <2>1. CountOf((left \o cards) \o right, v) = CountOf(left \o cards, v) + CountOf(right, v)
    BY <1>3, <1>6, CountOfConcat
  <2>2. CountOf(left \o cards, v) = CountOf(left, v) + CountOf(cards, v)
    BY <1>2, CountOfConcat
  <2> QED  BY <1>5, <2>1, <2>2
<1>8. CountOf(h, v) = CountOf(left, v) + CountOf(right, v)
  <2>1. CountOf(left \o right, v) = CountOf(left, v) + CountOf(right, v)
    BY <1>2, <1>3, CountOfConcat
  <2> QED  BY <1>4, <2>1
<1>9. CountOf(left, v) \in Nat /\ CountOf(right, v) \in Nat /\ CountOf(cards, v) \in Nat
  BY <1>2, <1>3, CountOfNat
<1> QED  BY <1>7, <1>8, <1>9

\* A play splits a hand: no card is lost, none is both played and kept.
LEMMA CountOfPlay ==
  ASSUME NEW h \in Seq(Values), NEW indices, NEW v,
         indices = {} \/ \E i, j \in DOMAIN h : indices = i..j
  PROVE  CountOf(Selected(h, indices), v) + CountOf(Unselected(h, indices), v) = CountOf(h, v)
<1>1. Len(h) \in Nat /\ DOMAIN h = 1..Len(h) /\ \A j \in 1..Len(h) : h[j] \in Values
  BY LenProperties, ElementOfSeq
<1>2. CASE indices = {}
  <2>1. Selected(h, indices) = << >> /\ Unselected(h, indices) = h
    BY <1>2 DEF Selected, Unselected
  <2>2. CountOf(<< >>, v) = 0 /\ CountOf(h, v) \in Nat
    BY CountOfFew, CountOfNat
  <2> QED  BY <2>1, <2>2
<1>3. CASE indices # {}
  <2>1. PICK a \in 1..Len(h), b \in 1..Len(h) : indices = a..b
    BY <1>1, <1>3
  <2>2. a <= b
    BY <1>1, <1>3, <2>1
  <2> DEFINE front  == SubSeq(h, 1, a - 1)
             middle == SubSeq(h, a, b)
             back   == SubSeq(h, b + 1, Len(h))
  <2>3. Selected(h, indices) = middle /\ Unselected(h, indices) = front \o back
    BY <2>1, <2>2, RangeOfPlay
  <2>4. middle \in Seq(Values)
    <3>1. \A j \in a..b : h[j] \in Values
      BY <1>1, <2>2
    <3> QED  BY <1>1, <3>1, SubSeqProperties
  <2>5. front \in Seq(Values)
    <3>1. \A j \in 1..(a - 1) : h[j] \in Values
      BY <1>1
    <3> QED  BY <1>1, <3>1, SubSeqProperties
  <2>6. back \in Seq(Values)
    <3>1. \A j \in (b + 1)..Len(h) : h[j] \in Values
      BY <1>1
    <3> QED  BY <1>1, <3>1, SubSeqProperties
  <2>7. front \o middle = SubSeq(h, 1, b)
    <3>1. 1 \in 1..(Len(h) + 1) /\ a - 1 \in (1 - 1)..Len(h) /\ b \in (a - 1)..Len(h)
          /\ (a - 1) + 1 = a
      BY <1>1, <2>2
    <3>2. SubSeq(h, 1, a - 1) \o SubSeq(h, (a - 1) + 1, b) = SubSeq(h, 1, b)
      BY <3>1, ConcatAdjacentSubSeq
    <3> QED  BY <3>1, <3>2
  <2>8. SubSeq(h, 1, b) \o back = h
    <3>1. 1 \in 1..(Len(h) + 1) /\ b \in (1 - 1)..Len(h) /\ Len(h) \in b..Len(h)
      BY <1>1
    <3>2. SubSeq(h, 1, b) \o SubSeq(h, b + 1, Len(h)) = SubSeq(h, 1, Len(h))
      BY <3>1, ConcatAdjacentSubSeq
    <3> QED  BY <3>2, SubSeqFull
  <2> HIDE DEF front, middle, back
  <2>9. front \o middle \in Seq(Values) /\ (front \o middle) \o back = h
    BY <2>4, <2>5, <2>7, <2>8, ConcatProperties
  <2>10. CountOf(h, v) = CountOf(front, v) + CountOf(middle, v) + CountOf(back, v)
    <3>1. CountOf((front \o middle) \o back, v) = CountOf(front \o middle, v) + CountOf(back, v)
      BY <2>6, <2>9, CountOfConcat
    <3>2. CountOf(front \o middle, v) = CountOf(front, v) + CountOf(middle, v)
      BY <2>4, <2>5, CountOfConcat
    <3> QED  BY <2>9, <3>1, <3>2
  <2>11. CountOf(front \o back, v) = CountOf(front, v) + CountOf(back, v)
    BY <2>5, <2>6, CountOfConcat
  <2>12. CountOf(front, v) \in Nat /\ CountOf(middle, v) \in Nat /\ CountOf(back, v) \in Nat
    BY <2>4, <2>5, <2>6, CountOfNat
  <2> QED  BY <2>3, <2>10, <2>11, <2>12
<1> QED  BY <1>2, <1>3

-------------------------------------------------------------------------------
(* The loser of a stalemate. *)

\* A finite set of naturals that is not empty has a greatest element.
LEMMA GreatestNat ==
  ASSUME NEW S \in SUBSET Nat, IsFiniteSet(S), S # {}
  PROVE  \E m \in S : \A k \in S : k <= m
<1>1. Cardinality(S) \in Nat \ {0}
  BY FS_CardinalityType, FS_EmptySet
<1>2. Cardinality(S) - 1 \in 0..(Cardinality(S) - 1)
  BY <1>1
<1>3. PICK m \in S : IndexOf(S, m) = Cardinality(S) - 1
  BY <1>2, PlaceTaken
<1>4. ASSUME NEW k \in S, ~(k <= m)
      PROVE  FALSE
  <2>1. m \in Nat /\ k \in Nat
    OBVIOUS
  <2>2. m < k
    BY <1>4, <2>1
  <2>3. IndexOf(S, m) < IndexOf(S, k)
    BY <2>2, IndexOfMonotone
  <2>4. IndexOf(S, k) \in 0..(Cardinality(S) - 1)
    BY IndexOfRange
  <2> QED  BY <1>1, <1>3, <2>3, <2>4
<1> QED  BY <1>4

\* Among the players in the round one has most cards, the highest seat of those:
\* the loser of a stalemate exists.
LEMMA StalemateLoserExists ==
  ASSUME NEW h \in [players -> Seq(Values)], players \in SUBSET Nat,
         IsFiniteSet(players), PlayersInRound # {}
  PROVE  StalemateLoser(h) \in PlayersInRound
<1> DEFINE P    == PlayersInRound
           Lens == {Len(h[s]) : s \in P}
<1>1. P \in SUBSET players /\ P \in SUBSET Nat
  BY DEF PlayersInRound, ActivePlayers
<1>2. IsFiniteSet(P)
  BY <1>1, FS_Subset
<1>3. \A s \in P : Len(h[s]) \in Nat
  BY <1>1, LenProperties
<1>4. IsFiniteSet(Lens) /\ Lens # {} /\ Lens \in SUBSET Nat
  <2> DEFINE f == [s \in P |-> Len(h[s])]
  <2>1. f \in Surjection(P, Lens)
    BY DEF Surjection
  <2>2. IsFiniteSet(Lens)
    <3> HIDE DEF f, P, Lens
    <3> QED  BY <1>2, <2>1, FS_Surjection
  <2> QED  BY <1>3, <2>2
<1> HIDE DEF Lens
<1>5. PICK m \in Lens : \A k \in Lens : k <= m
  BY <1>4, GreatestNat
<1> DEFINE Most == {s \in P : Len(h[s]) = m}
<1>6. Most \in SUBSET P /\ Most # {}
  BY <1>5 DEF Lens
<1>7. IsFiniteSet(Most) /\ Most \in SUBSET Nat
  BY <1>1, <1>2, <1>6, FS_Subset
<1>8. PICK s \in Most : \A r \in Most : r <= s
  <2> HIDE DEF Most
  <2> QED  BY <1>6, <1>7, GreatestNat
<1>9. s \in P /\ Len(h[s]) = m /\ s \in Nat
  BY <1>1, <1>8
<1>10. ASSUME NEW r \in P, r # s
       PROVE  \/ Len(h[r]) < Len(h[s])
              \/ Len(h[r]) = Len(h[s]) /\ r < s
  <2>1. Len(h[r]) \in Nat /\ m \in Nat /\ r \in Nat /\ Len(h[r]) <= m
    BY <1>1, <1>3, <1>4, <1>5 DEF Lens
  <2>2. Len(h[r]) = m => r <= s
    BY <1>8
  <2> QED  BY <1>9, <1>10, <2>1, <2>2
<1> HIDE DEF P, Most
<1>11. \E x \in P : \A r \in P \ {x} :
         \/ Len(h[r]) < Len(h[x])
         \/ Len(h[r]) = Len(h[x]) /\ r < x
  BY <1>9, <1>10
<1> QED  BY <1>11 DEF StalemateLoser, P

-------------------------------------------------------------------------------
(* The types of the state, and the endings the handlers share. *)

\* What stands on the table, as the handlers hand it on.
Tables ==
  [hand : [players -> Seq(Values)], drawPile : Cards, discardPile : Cards,
   pendingDraws : [players -> Values \union {None}],
   duelPlates : [players -> Cards], duelPassCount : [players -> Nat], copied : Cards]

\* The seats of a game are 1 to n, at most six.
LEMMA Seats ==
  ASSUME ConfigType
  PROVE  /\ players \in SUBSET Nat
         /\ IsFiniteSet(players)
         /\ Cardinality(players) \in 2..6
         /\ None \notin players
<1>1. PICK n \in PlayerCounts : players = 1..n
  BY DEF ConfigType
<1>2. n \in 2..6 /\ 1 \in Int /\ n \in Int
  BY <1>1, EngineAssumption
<1>3. IsFiniteSet(1..n) /\ Cardinality(1..n) = n
  <2>1. /\ IsFiniteSet(1..n)
        /\ Cardinality(1..n) = IF 1 > n THEN 0 ELSE n - 1 + 1
    <3>1. 1 \in Int /\ n \in Int
      BY <1>2
    <3> QED  BY <3>1, FS_Interval, Zenon
  <2> QED  BY <1>2, <2>1
<1>4. players \in SUBSET Nat /\ None \notin players
  BY <1>1, <1>2 DEF None
<1> QED  BY <1>1, <1>2, <1>3, <1>4

\* The table of the engine's fields is a table, and setting one keeps the types.
LEMMA TableTyped ==
  ASSUME TableType
  PROVE  Table \in Tables
BY DEF TableType, Table, Tables

LEMMA SetTableTyped ==
  ASSUME NEW t \in Tables, SetTable(t), UNCHANGED players
  PROVE  TableType'
BY DEF Tables, SetTable, TableType

\* Dealing, for two to six players, leaves bags and hands of cards.
LEMMA DealsTyped ==
  ASSUME ConfigType, NEW t \in Tables, NEW active \in SUBSET players,
         Cardinality(active) \in 2..6, NEW d \in Deals(t, active)
  PROVE  d \in Tables
<1> DEFINE size        == HandSize[Cardinality(active)]
           dealt(h, v) == SizeOf([s \in active |-> CountOf(h[s], v)])
<1>1. size \in Nat
  BY EngineAssumption
<1>2. IsFiniteSet(active)
  BY Seats, FS_Subset
<1>3. PICK h \in [active -> [1..size -> Values]] :
        /\ \A v \in Values : dealt(h, v) <= CopiesPerValue
        /\ d = [hand          |-> [s \in players |-> IF s \in active THEN h[s] ELSE t.hand[s]],
                drawPile      |-> [v \in Values |-> CopiesPerValue - dealt(h, v)],
                discardPile   |-> NoCards,
                pendingDraws  |-> [s \in players |-> None],
                duelPlates    |-> [s \in players |-> NoCards],
                duelPassCount |-> [s \in players |-> 0],
                copied        |-> NoCards]
  BY DEF Deals
<1>4. \A s \in active : h[s] \in Seq(Values)
  <2> TAKE s \in active
  <2>1. h[s] \in [1..size -> Values]
    BY <1>3
  <2> HIDE DEF size
  <2> QED  BY <1>1, <2>1, SeqDef
<1>5. [v \in Values |-> CopiesPerValue - dealt(h, v)] \in Cards
  <2>1. ASSUME NEW v \in Values
        PROVE  CopiesPerValue - dealt(h, v) \in Nat
    <3>1. [s \in active |-> CountOf(h[s], v)] \in [active -> Nat]
      BY <1>4, CountOfNat
    <3>2. SizeOf([s \in active |-> CountOf(h[s], v)]) \in Nat
      BY <1>2, <3>1, CardsInFinite
    <3>3. SizeOf([s \in active |-> CountOf(h[s], v)]) <= CopiesPerValue
      BY <1>3
    <3> QED  BY <3>2, <3>3, EngineAssumption
  <2> QED  BY <2>1 DEF Cards
<1>6. [s \in players |-> IF s \in active THEN h[s] ELSE t.hand[s]] \in [players -> Seq(Values)]
  <2>1. \A s \in players : t.hand[s] \in Seq(Values)
    BY DEF Tables
  <2> QED  BY <1>4, <2>1
<1> QED  BY <1>3, <1>5, <1>6, NoCardsType DEF Tables

\* The plates of a duel are bags taken off the draw pile.
LEMMA DealPlatesTyped ==
  ASSUME UNCHANGED players, NEW active, NEW t \in Tables, DealPlates(active, t)
  PROVE  TableType'
<1>1. CASE Cardinality(active) = 2
  <2>0. PICK first \in Splice(t.drawPile, PlatesPerPlayer) :
          \E second \in Splice(Minus(t.drawPile, first), PlatesPerPlayer) :
            SetTable([t EXCEPT
             !.drawPile = Minus(Minus(t.drawPile, first), second),
             !.duelPlates = [s \in players |-> IF s \notin active THEN NoCards
                                               ELSE IF s = SeatAt(active, 0) THEN first
                                               ELSE second],
             !.duelPassCount = [s \in players |-> 0]])
    BY <1>1 DEF DealPlates
  <2>1. PICK second \in Splice(Minus(t.drawPile, first), PlatesPerPlayer) :
          SetTable([t EXCEPT
           !.drawPile = Minus(Minus(t.drawPile, first), second),
           !.duelPlates = [s \in players |-> IF s \notin active THEN NoCards
                                             ELSE IF s = SeatAt(active, 0) THEN first
                                             ELSE second],
           !.duelPassCount = [s \in players |-> 0]])
    BY <2>0
  <2>2. t.drawPile \in Cards /\ PlatesPerPlayer \in Nat
    BY DEF Tables, PlatesPerPlayer
  <2>3. first \in Cards /\ Minus(t.drawPile, first) \in Cards
    BY <2>2, SpliceType
  <2>4. second \in Cards /\ Minus(Minus(t.drawPile, first), second) \in Cards
    BY <2>2, <2>3, SpliceType
  <2> DEFINE plates == [s \in players |-> IF s \notin active THEN NoCards
                                          ELSE IF s = SeatAt(active, 0) THEN first
                                          ELSE second]
             rest   == Minus(Minus(t.drawPile, first), second)
  <2>5. plates \in [players -> Cards]
    BY <2>3, <2>4, NoCardsType
  <2>6. rest \in Cards
    BY <2>4
  <2>7. SetTable([t EXCEPT !.drawPile = rest, !.duelPlates = plates,
                           !.duelPassCount = [s \in players |-> 0]])
    BY <2>1
  <2> HIDE DEF plates, rest
  <2>8. [t EXCEPT !.drawPile = rest, !.duelPlates = plates,
                  !.duelPassCount = [s \in players |-> 0]] \in Tables
    BY <2>5, <2>6 DEF Tables
  <2> QED  BY <2>7, <2>8, SetTableTyped
<1>2. CASE Cardinality(active) # 2
  BY <1>2, SetTableTyped DEF DealPlates
<1> QED  BY <1>1, <1>2

\* startRound keeps the types when two players or more are active.
LEMMA StartRoundTyped ==
  ASSUME ConfigType, round \in Nat, UNCHANGED players, NEW t \in Tables,
         NEW elim \in SUBSET players, Cardinality(players \ elim) >= 2,
         NEW winner \in players \union {None}, NEW wiper \in players \union {None},
         StartRound(t, elim, winner, wiper)
  PROVE  /\ TableType' /\ TrickType' /\ TurnType'
         /\ phase' = "PLAYER_TURN" /\ outOfRound' = elim
<1> DEFINE active == players \ elim
           n      == Cardinality(active)
<1>1. active \in SUBSET players /\ active \in SUBSET Nat /\ IsFiniteSet(active) /\ n \in 2..6
  <2>1. active \in SUBSET players /\ IsFiniteSet(players) /\ Cardinality(players) \in 2..6
    BY Seats
  <2>2. IsFiniteSet(active) /\ n <= Cardinality(players)
    <3> HIDE DEF active
    <3> QED  BY <2>1, FS_Subset
  <2>3. n \in Nat
    BY <2>2, FS_CardinalityType
  <2>4. active \in SUBSET Nat
    BY Seats
  <2> QED  BY <2>1, <2>2, <2>3, <2>4
<1>2. currentTurnIndex' \in Nat
  <2>1. currentTurnIndex' \in StartingIndices(active, winner, wiper)
    BY DEF StartRound
  <2>2. \A s \in active : IndexOf(active, s) \in Nat
    <3> HIDE DEF active
    <3> QED  BY <1>1, IndexOfRange
  <2> QED  BY <1>1, <2>1, <2>2 DEF StartingIndices
<1> DEFINE markets(d) == IF mode = "MERCADO" THEN Splice(d.drawPile, MarketSize) ELSE {NoCards}
           deals      == IF ~(mode = "RODIZIO" /\ round + 1 > 1) THEN Deals(t, active) ELSE {t}
<1>10. PICK d \in deals :
        \E m \in markets(d) :
           market' = m /\ DealPlates(active, [d EXCEPT !.drawPile = Minus(d.drawPile, m)])
  BY DEF StartRound
<1>3. PICK m \in markets(d) :
        market' = m /\ DealPlates(active, [d EXCEPT !.drawPile = Minus(d.drawPile, m)])
  BY <1>10
<1>4. d \in Tables
  <2> HIDE DEF active
  <2> QED  BY <1>1, <1>10, DealsTyped
<1>5. m \in Cards /\ Minus(d.drawPile, m) \in Cards
  <2>1. d.drawPile \in Cards
    BY <1>4 DEF Tables
  <2>2. CASE mode = "MERCADO"
    BY <1>3, <2>1, <2>2, SpliceType, EngineAssumption
  <2>3. CASE mode # "MERCADO"
    <3>1. m = NoCards
      BY <1>3, <2>3
    <3>2. Minus(d.drawPile, NoCards) \in Cards
      BY <2>1 DEF Minus, NoCards, Cards
    <3> QED  BY <3>1, <3>2, NoCardsType
  <2> QED  BY <2>2, <2>3
<1>6. [d EXCEPT !.drawPile = Minus(d.drawPile, m)] \in Tables
  BY <1>4, <1>5 DEF Tables
<1>7. TableType'
  <2> HIDE DEF active
  <2> QED  BY <1>3, <1>6, DealPlatesTyped
<1>8. TrickType'
  BY EmptySeq DEF StartRound, TrickType
<1>9. TurnType'
  BY <1>2, <1>3, <1>5 DEF StartRound, TurnType, Phases
<1> QED  BY <1>7, <1>8, <1>9 DEF StartRound

-------------------------------------------------------------------------------
(* The inductive invariant, and the ways a handler ends. *)

\* Nothing has happened before the first round.
FreshBeforeDeal == phase = "DEALING" => eliminated = {} /\ outOfRound = {}

IInv == TypeOK /\ AtLeastTwoInRound /\ FreshBeforeDeal

\* What the common parts of the handlers establish.
Running ==
  /\ TableType /\ TrickType /\ TurnType /\ GameType
  /\ AtLeastTwoInRound
  /\ phase # "DEALING"

\* Whoever is in the round is a player; there are finitely many.
LEMMA InRoundFinite ==
  ASSUME ConfigType
  PROVE  /\ IsFiniteSet(ActivePlayers) /\ ActivePlayers \in SUBSET players
         /\ IsFiniteSet(PlayersInRound) /\ PlayersInRound \in SUBSET ActivePlayers
         /\ Cardinality(PlayersInRound) \in Nat /\ Cardinality(ActivePlayers) \in Nat
         /\ Cardinality(PlayersInRound) <= Cardinality(ActivePlayers)
<1>1. ActivePlayers \in SUBSET players /\ PlayersInRound \in SUBSET ActivePlayers
  BY DEF ActivePlayers, PlayersInRound
<1>2. IsFiniteSet(ActivePlayers)
  BY <1>1, Seats, FS_Subset
<1>3. IsFiniteSet(PlayersInRound) /\ Cardinality(PlayersInRound) <= Cardinality(ActivePlayers)
  BY <1>1, <1>2, FS_Subset
<1> QED  BY <1>1, <1>2, <1>3, FS_CardinalityType

\* Passing the turn on.
LEMMA NextIndexTyped ==
  ASSUME ConfigType, TurnType, NEW elim \in SUBSET players, NEW out,
         Cardinality(players \ elim) >= 2
  PROVE  NextIndex(players \ elim, out) \in Nat
<1> DEFINE active == players \ elim
<1>1. active \in SUBSET players /\ IsFiniteSet(players) /\ active \in SUBSET Nat
  BY Seats
<1>2. IsFiniteSet(active) /\ Cardinality(active) \in Nat
  <2> HIDE DEF active
  <2> QED  BY <1>1, FS_Subset, FS_CardinalityType
<1>3. active # {}
  BY FS_EmptySet
<1>4. NextIndex(active, out) \in 0..(Cardinality(active) - 1)
  <2> HIDE DEF active
  <2> QED  BY <1>1, <1>2, <1>3, NextIndexFinds DEF TurnType
<1> QED  BY <1>2, <1>4

\* rotateHands: hands go from one active player to another.
LEMMA RotateHandsTyped ==
  ASSUME ConfigType, NEW h \in [players -> Seq(Values)], NEW active \in SUBSET players
  PROVE  RotateHands(h, active) \in [players -> Seq(Values)]
<1>1. active \in SUBSET Nat /\ IsFiniteSet(active)
  BY Seats, FS_Subset
<1>2. ASSUME NEW s \in active
      PROVE  SeatAt(active, IndexOf(active, s) + 1) \in active
  <2>1. IndexOf(active, s) \in 0..(Cardinality(active) - 1)
    BY <1>1, IndexOfRange
  <2>2. IndexOf(active, s) + 1 \in Nat
    BY <2>1
  <2> QED  BY <1>1, <2>2, SeatAtPlace
<1> QED  BY <1>2 DEF RotateHands

\* resolveRoundEnd, from any handler: either the game is over, or a new round
\* has begun with everyone but the eliminated.
LEMMA RoundEndTyped ==
  ASSUME ConfigType, TurnType, GameType, UNCHANGED players, NEW t \in Tables,
         NEW elim \in SUBSET players, Cardinality(players \ elim) >= 2,
         NEW tokens \in [players -> 0..InitialTokens], NEW loser \in players,
         NEW ACTION rest, rest => TrickType',
         ResolveRoundEnd(t, elim, tokens, loser, rest)
  PROVE  Running'
<1>1. PayToken(tokens, loser) \in [players -> 0..InitialTokens]
  <2>1. tokens[loser] \in 0..InitialTokens
    OBVIOUS
  <2>2. (IF tokens[loser] > 0 THEN tokens[loser] - 1 ELSE 0) \in 0..InitialTokens
    BY <2>1, EngineAssumption
  <2> QED  BY <2>2 DEF PayToken
<1>2. CASE PayToken(tokens, loser)[loser] = 0
  <2>1. GameOver(t, elim \union {loser}, PayToken(tokens, loser), loser) /\ rest
    BY <1>2 DEF ResolveRoundEnd
  <2>2. TableType'
    BY <2>1, SetTableTyped DEF GameOver
  <2>3. TurnType'
    BY <2>1 DEF GameOver, TurnType, Phases
  <2>4. GameType'
    BY <1>1, <2>1 DEF GameOver, GameType
  <2>5. AtLeastTwoInRound' /\ phase' # "DEALING"
    BY <2>1 DEF GameOver, AtLeastTwoInRound, InPlay
  <2> QED  BY <2>1, <2>2, <2>3, <2>4, <2>5 DEF Running
<1>3. CASE PayToken(tokens, loser)[loser] # 0
  <2> DEFINE active == players \ elim
             dealt  == IF mode = "RODIZIO"
                       THEN [t EXCEPT !.hand = RotateHands(t.hand, active)] ELSE t
  <2>1. /\ tokensLeft' = PayToken(tokens, loser)
        /\ eliminated' = elim
        /\ gameLoser' = gameLoser
        /\ StartRound(dealt, elim, loser, None)
    BY <1>3 DEF ResolveRoundEnd
  <2>2. dealt \in Tables
    <3>1. RotateHands(t.hand, active) \in [players -> Seq(Values)]
      BY RotateHandsTyped DEF Tables
    <3> QED  BY <3>1 DEF Tables
  <2>3. round \in Nat
    BY DEF TurnType
  <2>4. /\ TableType' /\ TrickType' /\ TurnType'
        /\ phase' = "PLAYER_TURN" /\ outOfRound' = elim
    <3> HIDE DEF dealt
    <3> QED  BY <2>1, <2>2, <2>3, StartRoundTyped
  <2>5. GameType'
    BY <1>1, <2>1 DEF GameType
  <2>6. PlayersInRound' = players \ elim
    BY <2>1, <2>4 DEF PlayersInRound, ActivePlayers
  <2>7. AtLeastTwoInRound'
    BY <2>6 DEF AtLeastTwoInRound
  <2> QED  BY <2>4, <2>5, <2>7 DEF Running
<1> QED  BY <1>2, <1>3

\* resolveWipe keeps the round going with the same players.
LEMMA WipeTyped ==
  ASSUME TypeOK, AtLeastTwoInRound, InPlay, UNCHANGED players, NEW t \in Tables,
         NEW wiper \in players, ResolveWipe(t, wiper)
  PROVE  Running'
<1> DEFINE n    == Cardinality(ActivePlayers)
           from == IF wiper \in ActivePlayers THEN IndexOf(ActivePlayers, wiper) ELSE 0
           hops == {k \in 1..n : SeatAt(ActivePlayers, from + k) \notin outOfRound}
           hop  == CHOOSE k \in hops : \A j \in hops : k <= j
           starter == IF wiper \in PlayersInRound \/ hops = {} THEN wiper
                      ELSE SeatAt(ActivePlayers, from + hop)
<1>1. /\ IsFiniteSet(ActivePlayers) /\ ActivePlayers \in SUBSET Nat
      /\ ActivePlayers \in SUBSET players /\ n \in Nat /\ ActivePlayers # {}
  <2>1. ConfigType
    BY DEF TypeOK
  <2>2. Cardinality(PlayersInRound) >= 2 /\ Cardinality(ActivePlayers) >= 2
    BY <2>1, InRoundFinite DEF AtLeastTwoInRound
  <2> QED  BY <2>1, <2>2, Seats, InRoundFinite, FS_EmptySet
<1>2. ASSUME NEW s \in ActivePlayers
      PROVE  IndexOf(ActivePlayers, s) \in Nat
  BY <1>1, IndexOfRange
<1>3. from \in Nat
  BY <1>2
<1>4. starter \in players
  <2>1. CASE wiper \in PlayersInRound \/ hops = {}
    BY <2>1
  <2>2. CASE ~(wiper \in PlayersInRound \/ hops = {})
    <3>1. hops \in SUBSET Nat
      BY <1>1
    <3>2. hop \in hops
      <4> HIDE DEF hops
      <4> QED  BY <2>2, <3>1, LeastNat
    <3>3. from + hop \in Nat
      BY <1>3, <3>1, <3>2
    <3>4. SeatAt(ActivePlayers, from + hop) \in ActivePlayers
      BY <1>1, <3>3, SeatAtPlace
    <3> QED  BY <1>1, <2>2, <3>4
  <2> QED  BY <2>1, <2>2
<1>5. /\ phase' = "PLAYER_TURN"
      /\ currentTurnIndex' = IF starter \in ActivePlayers THEN IndexOf(ActivePlayers, starter)
                             ELSE 0
      /\ lastWiperId' = starter
      /\ pile' = << >> /\ saborActive' = FALSE /\ saborMinRequired' = 0
      /\ consecutivePasses' = 0
      /\ SetTable([t EXCEPT !.discardPile = Plus(@, pile)])
      /\ UNCHANGED <<lastPlayerId, isFirstTurn, outOfRound, trickPileForPick>>
      /\ UNCHANGED gameVars
  BY DEF ResolveWipe
<1> HIDE DEF starter
<1>6. TableType'
  <2>1. Plus(t.discardPile, pile) \in Cards
    BY PlusType DEF Tables, TypeOK, TrickType
  <2>2. [t EXCEPT !.discardPile = Plus(@, pile)] \in Tables
    BY <2>1 DEF Tables
  <2> QED  BY <1>5, <2>2, SetTableTyped
<1>7. TrickType'
  BY <1>5, EmptySeq DEF TypeOK, TrickType
<1>8. TurnType'
  BY <1>2, <1>4, <1>5 DEF TypeOK, TurnType, Phases, gameVars
<1>9. GameType'
  BY <1>5 DEF TypeOK, GameType, gameVars
<1>10. AtLeastTwoInRound'
  BY <1>5 DEF AtLeastTwoInRound, InPlay, PlayersInRound, ActivePlayers, gameVars
<1> QED  BY <1>5, <1>6, <1>7, <1>8, <1>9, <1>10 DEF Running

\* A pass, from applyPassTurn or applyInsertDrawn: one of these endings.
LEMMA AfterPassTyped ==
  ASSUME TypeOK, AtLeastTwoInRound, InPlay, UNCHANGED players, NEW t \in Tables,
         NEW p \in players, AfterPass(t, p)
  PROVE  Running'
<1> USE DEF TypeOK
<1>1. ConfigType /\ TurnType /\ GameType /\ eliminated \in SUBSET players
  BY DEF GameType
<1>2. Cardinality(PlayersInRound) >= 2 /\ Cardinality(players \ eliminated) >= 2
  BY <1>1, InRoundFinite DEF AtLeastTwoInRound, ActivePlayers
<1> DEFINE passes  == consecutivePasses + 1
           counted == /\ consecutivePasses' = passes
                      /\ UNCHANGED <<pile, saborVars, lastPlayerId, isFirstTurn,
                                     outOfRound, trickPileForPick>>
<1>3. counted => TrickType'
  BY DEF TrickType, saborVars
<1>4. CASE passes < Cardinality(PlayersInRound) - 1
  <2>1. /\ counted /\ AdvanceTurn(eliminated, outOfRound) /\ SetTable(t)
        /\ UNCHANGED lastWiperId /\ UNCHANGED gameVars
    BY <1>4 DEF AfterPass
  <2>2. TurnType'
    BY <1>1, <1>2, <2>1, NextIndexTyped DEF AdvanceTurn, TurnType, Phases, gameVars
  <2>3. GameType' /\ AtLeastTwoInRound' /\ phase' # "DEALING"
    BY <1>1, <2>1 DEF GameType, AdvanceTurn, AtLeastTwoInRound, InPlay, PlayersInRound,
                      ActivePlayers, gameVars
  <2> QED  BY <1>3, <2>1, <2>2, <2>3, SetTableTyped DEF Running
<1>5. CASE ~(passes < Cardinality(PlayersInRound) - 1) /\ pile = << >>
  <2>1. ResolveRoundEnd(t, eliminated, tokensLeft, StalemateLoser(t.hand), counted)
    BY <1>5 DEF AfterPass
  <2>2. PlayersInRound # {}
    BY <1>2, FS_EmptySet
  <2>3. t.hand \in [players -> Seq(Values)]
    BY DEF Tables
  <2>4. StalemateLoser(t.hand) \in PlayersInRound
    BY <1>1, <2>2, <2>3, Seats, StalemateLoserExists
  <2>5. StalemateLoser(t.hand) \in players
    BY <2>4 DEF PlayersInRound, ActivePlayers
  <2>6. tokensLeft \in [players -> 0..InitialTokens]
    BY DEF GameType
  <2> HIDE DEF counted, TypeOK
  <2> QED  BY <1>1, <1>2, <1>3, <2>1, <2>5, <2>6, RoundEndTyped
<1>6. CASE ~(passes < Cardinality(PlayersInRound) - 1) /\ pile # << >>
  <2>1. ResolveWipe(t, IF lastPlayerId = None THEN p ELSE lastPlayerId)
    BY <1>6 DEF AfterPass
  <2>2. (IF lastPlayerId = None THEN p ELSE lastPlayerId) \in players
    BY DEF TrickType
  <2> HIDE DEF TypeOK
  <2> QED  BY <2>1, <2>2, WipeTyped
<1> QED  BY <1>4, <1>5, <1>6
===============================================================================
