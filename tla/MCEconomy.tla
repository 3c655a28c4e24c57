----------------------------- MODULE MCEconomy -----------------------------
(* One subscription and the charges of it; slots and orders that are alike. *)
EXTENDS EconomyProps, TLC

OneSub == [a \in Invoices |-> CHOOSE s \in Subs : TRUE]
OneMoreOrLess == {1, -1}
Alike == Permutations(Slots) \cup Permutations(Orders)

=============================================================================
