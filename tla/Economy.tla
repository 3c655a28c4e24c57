------------------------------ MODULE Economy ------------------------------
(***************************************************************************)
(* The shop, the payments and the administrators act on the row and on the  *)
(* diamond ledger of one user at once, and the server may stop and start.   *)
(***************************************************************************)
EXTENDS Shop, Payments

CONSTANT MaxCrashes  \* bound: how often the server stops

ASSUME MaxCrashesAssumption == MaxCrashes \in Nat

VARIABLE crashes

vars == <<user, requests, shop, payments, crashes>>

Init == AccountInit /\ ShopInit /\ PaymentsInit /\ crashes = 0

\* The process stops and starts again: what was under way is gone, and so is the cache
\* of prices.  A notification without an answer is sent again.
Crash ==
    /\ crashes < MaxCrashes /\ crashes' = crashes + 1
    /\ \E i \in Slots : req[i] # Idle
    /\ req' = [i \in Slots |-> Idle] /\ cache' = [rows |-> NoRows, fresh |-> FALSE]
    /\ due' = due \cup {req[i].id : i \in {j \in Slots : req[j].op \in {"notified", "credit", "redeem"}}}
    /\ UNCHANGED <<user, overlapped, calls, overrides, goods>>
    /\ UNCHANGED <<provider, withCoupon, rows, sub, expiresAt, coupons, lost>>

Answers(i) ==
    \/ ShopAnswers(i) /\ UNCHANGED <<payments, crashes>>
    \/ PaymentsAnswers(i) /\ UNCHANGED <<shop, crashes>>

Next ==
    \/ ShopNext /\ UNCHANGED <<payments, crashes>>
    \/ PaymentsNext /\ UNCHANGED <<shop, crashes>>
    \/ Crash

Spec == Init /\ [][Next]_vars

\* The database answers some request that waits, the provider notifies something of what
\* is due, and dates pass or the cron of the night runs.  Nothing asks for more: what
\* one user asks and is charged comes to an end.
Fairness ==
    /\ WF_vars(\E i \in Slots : Answers(i))
    /\ WF_vars(\E i \in Slots, x \in Entities : Notify(i, x) /\ UNCHANGED <<shop, crashes>>)
    /\ WF_vars((DatePasses \/ CronUsers) /\ UNCHANGED <<shop, crashes>>)

FairSpec == Spec /\ Fairness

=============================================================================
