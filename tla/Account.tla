------------------------------ MODULE Account ------------------------------
(***************************************************************************)
(* The row of one user that the shop, the payments and the administrators   *)
(* write, the diamond ledger beside it, and the requests under way.         *)
(*                                                                         *)
(* A request is a chain of awaited database calls.  What it has read and    *)
(* still has to use is kept in req; between two of its steps any other      *)
(* request may run.  An array given to $transaction is one step.            *)
(***************************************************************************)
EXTENDS Integers, FiniteSets

CONSTANTS
    Slots,            \* requests that may be under way at once
    InitialCoins,     \* the balances of the user before the first request
    InitialDiamonds,
    MaxCalls          \* bound: requests, and notifications delivered once more

ASSUME AccountAssumption ==
    InitialCoins \in Nat /\ InitialDiamonds \in Nat /\ IsFiniteSet(Slots) /\ MaxCalls \in Nat

VARIABLES
    coins,       \* User.coins
    diamonds,    \* User.diamonds
    isPremium,   \* User.isPremium
    booked,      \* the sum of the user's DiamondTransaction.amount
    req,         \* the request of every slot
    overlapped,  \* history: two requests that spend were under way at once
    calls        \* bound: requests made so far

user == <<coins, diamonds, isPremium, booked>>
requests == <<req, overlapped, calls>>

Idle == [op |-> "idle"]
None == "none"

\* The requests that compare a balance, or a list of items, with what they are about to
\* take from it or to add to it, or that set it.
Edits == {"editRead", "editWrite"}
Purchases == {"warm", "look", "check", "pay"}
Spending(r) ==
    \/ r.op \in Edits
    \/ r.op \in Purchases /\ r.what # None
    \/ r.op = "adminCredit" /\ r.amount < 0
Overlap(reqs) == Cardinality({i \in Slots : Spending(reqs[i])}) > 1

Waits(i, r) ==
    /\ req' = [req EXCEPT ![i] = r]
    /\ overlapped' = (overlapped \/ Overlap(req'))

Ends(i) == Waits(i, Idle) /\ UNCHANGED calls
Goes(i, r) == Waits(i, r) /\ UNCHANGED calls

\* A request arrives, and does its first step.
Arrives(i, r) ==
    /\ req[i] = Idle /\ calls < MaxCalls
    /\ calls' = calls + 1
    /\ Waits(i, r)

\* In a mutant the balance stops at zero.
BooksDownToZero(amount) ==
    diamonds' = (IF diamonds + amount < 0 THEN 0 ELSE diamonds + amount) /\ booked' = booked + amount

\* One DiamondTransaction row and the change of the balance that belongs to it.
Books(amount) == diamonds' = diamonds + amount /\ booked' = booked + amount

AccountInit ==
    /\ coins = InitialCoins /\ diamonds = InitialDiamonds /\ isPremium = FALSE /\ booked = 0
    /\ req = [i \in Slots |-> Idle] /\ overlapped = FALSE /\ calls = 0

=============================================================================
