------------------------------ MODULE TokenGame ------------------------------
(***************************************************************************)
(* What a game promises about its pratos (tokens), whatever cards are      *)
(* played: GameEngine implements this specification.  A round is lost by   *)
(* exactly one player, who was still in it, and costs that player exactly  *)
(* one token; players leave a round one at a time and never so many that   *)
(* fewer than two go on; the first player without a token, or whoever      *)
(* abandons the last opponent, is the only loser of the game; and a        *)
(* finished game never changes again.                                      *)
(***************************************************************************)
EXTENDS Naturals, FiniteSets

CONSTANT InitialTokens  \* tokens of every player at the start

VARIABLES players,      \* the seats of the game, never changed
          stage,        \* "dealing", "round" or "over"
          tokens,       \* tokens left, by seat
          gone,         \* seats that lost the game or abandoned it
          out,          \* seats that left the current round, the gone included
          loser         \* the seat that lost the game, or 0

vars == <<players, stage, tokens, gone, out, loser>>

Playing == players \ gone
InRound == Playing \ out

Init ==
  /\ stage = "dealing"
  /\ tokens = [s \in players |-> InitialTokens]
  /\ gone = {} /\ out = {}
  /\ loser = 0

Begin ==
  /\ stage = "dealing"
  /\ stage' = "round"
  /\ UNCHANGED <<players, tokens, gone, out, loser>>

\* A player empties the hand while at least two others go on.
Escape(p) ==
  /\ stage = "round"
  /\ p \in InRound
  /\ Cardinality(InRound \ {p}) >= 2
  /\ out' = out \union {p}
  /\ UNCHANGED <<players, stage, tokens, gone, loser>>

\* Player l, still in the round when those in left are out of the game, loses it.
LoseRound(l, left, purse) ==
  /\ l \in InRound \ left
  /\ tokens' = [purse EXCEPT ![l] = purse[l] - 1]
  /\ IF purse[l] = 1
     THEN /\ stage' = "over"
          /\ gone' = left \union {l}
          /\ loser' = l
          /\ out \subseteq out' /\ out' \subseteq players
     ELSE /\ gone' = left
          /\ out' = left
          /\ UNCHANGED <<stage, loser>>
  /\ UNCHANGED players

EndRound(l) ==
  /\ stage = "round"
  /\ LoseRound(l, gone, tokens)

\* A player abandons the game and loses every token.
Abandon(p) ==
  LET left  == gone \union {p}
      purse == [tokens EXCEPT ![p] = 0]
  IN  /\ stage = "round"
      /\ p \in Playing
      /\ \/ /\ Cardinality(Playing \ {p}) <= 1
            /\ stage' = "over"
            /\ loser' = p
            /\ tokens' = purse
            /\ gone' = left
            /\ out' = out \union {p}
            /\ UNCHANGED players
         \/ /\ Cardinality(Playing \ {p}) > 1
            /\ Cardinality(InRound \ {p}) = 1
            /\ \E l \in InRound \ {p} : LoseRound(l, left, purse)
         \/ /\ Cardinality(InRound \ {p}) > 1
            /\ tokens' = purse
            /\ gone' = left
            /\ out' = out \union {p}
            /\ UNCHANGED <<players, stage, loser>>

Next ==
  \/ Begin
  \/ \E p \in players : Escape(p) \/ EndRound(p) \/ Abandon(p)

Spec == Init /\ [][Next]_vars
==============================================================================
