------------------------------- MODULE Ledger -------------------------------
(***************************************************************************)
(* What a user is promised about diamonds: they come from approved          *)
(* payments, each of which counts once, and from administrators; they go    *)
(* for what is sold, at one of its prices; and the books say the same as    *)
(* the balance.                                                            *)
(***************************************************************************)
EXTENDS Integers

CONSTANTS
    Bills,    \* the payments that may be credited
    Worth,    \* what each of them is worth
    Opening,  \* the balance before the first entry
    Prices,   \* what a thing may be sold for
    Grants    \* what an administrator may credit or take

VARIABLES
    balance,
    booked,    \* the sum of the entries
    approved,  \* bills that are paid
    credited   \* bills that have been entered

vars == <<balance, booked, approved, credited>>

Init == balance = Opening /\ booked = 0 /\ approved = {} /\ credited = {}

Enters(amount) == balance' = balance + amount /\ booked' = booked + amount

Approve(x) ==
    /\ approved' = approved \cup {x}
    /\ UNCHANGED <<balance, booked, credited>>

Credit(x) ==
    /\ x \in approved \ credited /\ credited' = credited \cup {x}
    /\ Enters(Worth[x])
    /\ UNCHANGED approved

Sell(price) == Enters(-price) /\ UNCHANGED <<approved, credited>>

Grant(amount) == Enters(amount) /\ UNCHANGED <<approved, credited>>

Next ==
    \/ \E x \in Bills : Approve(x) \/ Credit(x)
    \/ \E price \in Prices : Sell(price)
    \/ \E amount \in Grants : Grant(amount)

Spec == Init /\ [][Next]_vars

=============================================================================
