------------------------------- MODULE MCEngine -------------------------------
(* Small hands for the runs of GameEngine. *)
EXTENDS EngineTurns

TwoCards == [n \in 2..6 |-> 2]
OneCard  == [n \in 2..6 |-> 1]
===============================================================================
