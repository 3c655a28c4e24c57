---------------------------- MODULE EconomyProps ----------------------------
(***************************************************************************)
(* What the shop and the payments promise to a user, and what they promise  *)
(* of the ledger.                                                          *)
(***************************************************************************)
EXTENDS Economy

\* The type of the state: a request carries what its operation has read, a notification
\* one of the ids of the provider.
TypeOK ==
    /\ coins \in Int /\ diamonds \in Int /\ booked \in Int /\ isPremium \in BOOLEAN
    /\ calls \in 0 .. MaxCalls /\ crashes \in 0 .. MaxCrashes /\ overlapped \in BOOLEAN
    /\ owned \subseteq Items /\ raced \subseteq Items /\ paid \in [Items -> Nat]
    /\ overrides \in [Repriced -> OverridePrices \cup {NoRow}]
    /\ cache.rows \in [Repriced -> OverridePrices \cup {NoRow}] /\ cache.fresh \in BOOLEAN
    /\ due \subseteq Entities /\ lost \subseteq Credits /\ withCoupon \subseteq Orders
    /\ rows \in [Credits -> Nat] /\ redemptions \in Nat
    /\ \A s \in Subs : sub[s].status = None <=> sub[s].expiresAt = None
    /\ expiresAt \in {None, "ahead", "past"}
    /\ \A i \in Slots : /\ req[i].op \in {"notified", "credit", "redeem"} => req[i].id \in Entities
                        /\ req[i].op \in {"check", "pay"} => req[i].price \in Nat

\* The ledger that this database is.
Abstract == INSTANCE Ledger
    WITH Bills <- Credits,
         Worth <- [x \in Credits |-> IF x \in Orders THEN PackDiamonds ELSE GrantDiamonds],
         Opening <- InitialDiamonds,
         Prices <- {DefaultPrice} \cup OverridePrices,
         balance <- diamonds,
         approved <- {x \in Credits : provider[x] = "approved"},
         credited <- {x \in Credits : rows[x] > 0}

\* Every diamond is accounted for: whoever writes the balance (purchases, webhooks,
\* administrators), from whatever it has read, in whatever order, and whichever of them
\* the server's stop cuts short, each change is one entry of the books: an approved
\* payment that was not entered before, a sale at a price that the shop has had, or a
\* grant.
ImplementsLedger == Abstract!Spec

\* "Webhook replay: idempotência": however often and however concurrently the provider
\* notifies a payment, it credits once and only when approved, and uses the coupon at most
\* once, also when the server stops between the two.
OncePerPayment ==
    /\ \A x \in Credits : rows[x] <= 1 /\ (rows[x] = 1 => provider[x] = "approved")
    /\ redemptions = coupon.uses
    /\ redemptions <= Cardinality({p \in withCoupon : rows[p] > 0})

\* What was paid for is owned, unless an administrator was editing the lists as it was
\* bought (updateUserProgression writes back what it has read).
PaidForIsOwned == \A x \in Items : paid[x] > 0 => x \in owned \cup raced

\* Requests that do not overlap never spend what is not there, nor pay twice for the same
\* item, whatever webhooks, changes of prices and stops of the server come between
\* their steps.
AloneIsExact == ~overlapped => /\ coins >= 0 /\ diamonds >= 0
                               /\ \A x \in Items : paid[x] <= 1

\* An approved payment is credited in the end, unless its notification met a failure that
\* the server answered with 200, or came before its subscription: again and again,
\* nothing is owed to the user.
Owed == {x \in Credits : provider[x] = "approved" /\ rows[x] = 0 /\ x \notin lost}
ApprovedIsCredited == []<>(Owed = {})

\* Premium that was paid for ends when no payment extends it any more, however the
\* subscription ended: no flag that has a date stays set for ever.
PremiumEnds == []<>~(isPremium /\ expiresAt # None)

=============================================================================
