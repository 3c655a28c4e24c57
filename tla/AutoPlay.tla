------------------------------- MODULE AutoPlay -------------------------------
(***************************************************************************)
(* Moves that no human makes: the bot heuristic (computeBotMove of         *)
(* GameEngine.ts) and the auto-play of the turn timer (armTurnTimer of     *)
(* notifications.gateway.ts).  The timer is what keeps a game going when   *)
(* players walk away, so the fairness of a game is the timer's.            *)
(***************************************************************************)
EXTENDS EngineProps

\* Mutant: every group is one card.
Single(h, i) == {i}

\* The cards of the same value that follow position i without a gap, and i.
Group(h, i) == {j \in i..Len(h) : \A k \in i..j : h[k] = h[i]}

LegalPlay(p, indices) ==
  validatePlayIndices(hand[p], indices, pile, saborActive, saborMinRequired, << >>)

\* computeBotMove: the selection to play, {} to pass.  easy takes the first legal
\* group, medium and hard the largest, the highest value among equals.
computeBotMove(p, difficulty) ==
  LET starts   == {i \in DOMAIN hand[p] : LegalPlay(p, Group(hand[p], i))}
      size(i)  == Cardinality(Group(hand[p], i))
      better(i, j) == \/ size(i) > size(j)
                      \/ size(i) = size(j) /\ hand[p][i] > hand[p][j]
      first(S) == CHOOSE i \in S : \A j \in S : i <= j
      best     == {i \in starts : \A j \in starts : ~better(j, i)}
  IN  IF starts = {} THEN {}
      ELSE Group(hand[p], first(IF difficulty = "easy" THEN starts ELSE best))

\* The callback of armTurnTimer: the beaten pile and the first plate are discarded,
\* a drawn card goes anywhere in the hand, drawn in the same step or before, and
\* when the engine refuses the draw the player passes.
TimerMove(p) ==
  \/ TrickPick(p, "discard", 0)
  \/ \E v \in Values : DuelPassPick(p, v, "discard", 0)
  \/ \E i \in Places(p) : InsertDrawn(p, "insert", i)
  \/ DuelPass(p)
  \/ /\ ~isFirstTurn /\ ~IsDuel
     /\ \E i \in Places(p) : PassTurn(p, i)
  \/ /\ isFirstTurn
     /\ PassTurn(p, 0)

\* It moves for whoever the turn is with by then, or skips one who is out of the round.
AutoMove ==
  /\ InPlay
  /\ IF CurrentPlayer \in outOfRound THEN RecoverStuckTurn ELSE TimerMove(CurrentPlayer)

\* The game starts when the room does, and then its turn timers keep it moving.
FairSpec == Spec /\ WF_vars(Start \/ AutoMove)

-------------------------------------------------------------------------------
\* "Nunca passa voluntariamente" (1095), "maior grupo legal" (1094): a bot passes
\* only when no adjacent cards of its hand can be played, and then medium and hard
\* play as many cards as any legal play does.
BotPlaysBest ==
  phase = "PLAYER_TURN" =>
    LET p     == CurrentPlayer
        legal == {indices \in Selections(p) : LegalPlay(p, indices)}
        best  == Cardinality(computeBotMove(p, "hard"))
    IN  /\ legal # {} => computeBotMove(p, "easy") # {}
        /\ \A indices \in legal : Cardinality(indices) <= best

\* Every game ends though players walk away: what the timers do, mixed with
\* whatever the others do, cannot go round for ever.
EveryGameEnds == <>(phase = "GAME_OVER")

\* "o turno NAO pode voltar pra ele -- travaria (ele nao pode jogar/passar)" (769):
\* as long as the game is not over, the timer can move it on.
NeverStuck == phase # "GAME_OVER" => ENABLED (Start \/ AutoMove)
===============================================================================
