------------------------------ MODULE Payments ------------------------------
(***************************************************************************)
(* Payments of one user: checkouts, the notifications of the provider       *)
(* (Mercado Pago), the life of a premium subscription, and a coupon         *)
(* (PaymentsService, PremiumService, WebhooksController, CouponsService).   *)
(*                                                                         *)
(* The provider is modelled from how the code uses it: it notifies every    *)
(* change at least once, in any order and perhaps again; a notification     *)
(* carries an id only, and the handler asks for the state of that id.       *)
(***************************************************************************)
EXTENDS Account

CONSTANTS
    Orders,          \* payments for diamonds
    Subs,            \* subscriptions (preapprovals)
    Invoices,        \* monthly charges of a subscription (authorized payments)
    SubOf,           \* the subscription of every charge
    PackDiamonds,    \* diamonds of a pack
    GrantDiamonds,   \* diamonds of a month of premium
    MaxUses          \* uses of the coupon; without any there is no coupon

ASSUME PaymentsAssumption ==
    /\ PackDiamonds \in Nat /\ GrantDiamonds \in Nat /\ MaxUses \in Nat /\ SubOf \in [Invoices -> Subs]
    /\ Subs \cap (Orders \cup Invoices) = {} /\ IsFiniteSet(Orders)

Credits == Orders \cup Invoices
Entities == Credits \cup Subs

VARIABLES
    provider,     \* the provider's state of every order, charge and subscription
    withCoupon,   \* the orders whose reference names the coupon
    due,          \* the ids the provider has still to notify
    rows,         \* DiamondTransaction: the rows that carry an external id
    sub,          \* PremiumSubscription: status and expiresAt of every subscription
    expiresAt,    \* User.premiumExpiresAt: none, or a date that lies ahead or has passed
    coupon,       \* Coupon: active, inactive or removed, and currentUses
    redemptions,  \* CouponRedemption: the number of its rows
    lost          \* history: approved payments whose notification was answered and not
                  \* dealt with

externals == <<provider, withCoupon, due>>
premium == <<sub, expiresAt>>
coupons == <<coupon, redemptions>>
payments == <<externals, rows, premium, coupons, lost>>

NoSub == [status |-> None, expiresAt |-> None]

PaymentsInit ==
    /\ provider = [x \in Entities |-> None] /\ withCoupon = {} /\ due = {}
    /\ rows = [x \in Credits |-> 0]
    /\ sub = [s \in Subs |-> NoSub] /\ expiresAt = None
    /\ coupon = [state |-> IF MaxUses = 0 THEN "removed" ELSE "active", uses |-> 0] /\ redemptions = 0
    /\ lost = {}

----------------------------------------------------------------------------
(* What the user asks of the server.                                       *)

\* validate: the uses are compared, and not taken.
CouponValid == coupon.state = "active" /\ coupon.uses < MaxUses

\* createDiamondCheckout ends with a preference at the provider, or with an error.
DiamondCheckout(i, p) ==
    /\ provider[p] = None
    /\ \E c \in BOOLEAN : (c => CouponValid) /\ Arrives(i, [op |-> "checkout", order |-> p, coupon |-> c])
    /\ UNCHANGED <<user, payments>>

DiamondPreference(i) ==
    LET p == req[i].order
    IN  /\ req[i].op = "checkout" /\ Ends(i)
        /\ \/ /\ provider[p] = None
              /\ provider' = [provider EXCEPT ![p] = "offered"]
              /\ withCoupon' = IF req[i].coupon THEN withCoupon \cup {p} ELSE withCoupon
           \/ UNCHANGED <<provider, withCoupon>>
        /\ UNCHANGED <<user, due, rows, premium, coupons, lost>>

\* createPremiumCheckout is refused while premium is active; the provider notifies the
\* pending subscription, too.
PremiumActive == isPremium /\ expiresAt = "ahead"

PremiumCheckout(i, s) ==
    /\ provider[s] = None /\ ~PremiumActive
    /\ Arrives(i, [op |-> "subscribe", sub |-> s])
    /\ UNCHANGED <<user, payments>>

PremiumPreapproval(i) ==
    LET s == req[i].sub
    IN  /\ req[i].op = "subscribe" /\ Ends(i)
        /\ \/ /\ provider[s] = None
              /\ provider' = [provider EXCEPT ![s] = "offered"] /\ due' = due \cup {s}
           \/ UNCHANGED <<provider, due>>
        /\ UNCHANGED <<user, withCoupon, rows, premium, coupons, lost>>

\* cancelPremium asks the provider first and then writes its own row.
CancelPremium(i, s) ==
    /\ sub[s].status = "ACTIVE"
    /\ Arrives(i, [op |-> "cancel", sub |-> s])
    /\ UNCHANGED <<user, payments>>

CancelAtProvider(i) ==
    LET s == req[i].sub
    IN  /\ req[i].op = "cancel"
        /\ \/ /\ provider' = [provider EXCEPT ![s] = "cancelled"] /\ due' = due \cup {s}
              /\ Goes(i, [op |-> "cancelled", sub |-> s])
           \/ Ends(i) /\ UNCHANGED <<provider, due>>
        /\ UNCHANGED <<user, withCoupon, rows, premium, coupons, lost>>

CancelWrite(i) ==
    /\ req[i].op = "cancelled" /\ Ends(i)
    /\ sub' = [sub EXCEPT ![req[i].sub].status = "CANCELLED"]
    /\ UNCHANGED <<user, externals, rows, expiresAt, coupons, lost>>

\* CouponsService.update and remove, from the administrator: the redemptions go with the
\* coupon.
CouponEdited(state) ==
    /\ coupon.state # "removed" /\ state # coupon.state /\ calls < MaxCalls /\ calls' = calls + 1
    /\ IF state = "removed" THEN coupon' = [state |-> state, uses |-> 0] /\ redemptions' = 0
       ELSE coupon' = [coupon EXCEPT !.state = state] /\ UNCHANGED redemptions
    /\ UNCHANGED <<user, req, overlapped, externals, rows, premium, lost>>

----------------------------------------------------------------------------
(* The provider.                                                           *)

Becomes(x, state) ==
    /\ provider' = [provider EXCEPT ![x] = state] /\ due' = due \cup {x}
    /\ UNCHANGED <<user, requests, withCoupon, rows, premium, coupons, lost>>

\* A card is accepted or refused: binary_mode leaves nothing pending.
CardAnswers(x) == \E state \in {"approved", "rejected"} : Becomes(x, state)

OrderPaid(p) == provider[p] = "offered" /\ CardAnswers(p)

\* The user signs, and may pause or end the subscription at the provider.
SubChanges(s) ==
    \/ provider[s] = "offered" /\ Becomes(s, "authorized")
    \/ provider[s] = "authorized" /\ \E state \in {"paused", "cancelled"} : Becomes(s, state)

Charged(a) == provider[a] = None /\ provider[SubOf[a]] = "authorized" /\ CardAnswers(a)

\* The notification of x reaches the server, which asks for the state of x.  When it gets
\* no answer it says 200 all the same, and x is not notified again.
Fetches(i, x) == Waits(i, [op |-> "notified", id |-> x, state |-> provider[x]]) /\ UNCHANGED lost
FetchFails(x) == lost' = lost \cup ({x} \cap {c \in Credits : provider[c] = "approved"}) /\ UNCHANGED <<req, overlapped>>

Notify(i, x) ==
    /\ x \in due /\ req[i] = Idle
    /\ due' = due \ {x}
    /\ Fetches(i, x) \/ FetchFails(x)
    /\ UNCHANGED <<user, calls, provider, withCoupon, rows, premium, coupons>>

NotifyAgain(i, x) ==
    /\ x \notin due /\ provider[x] # None /\ ~(x \in Orders /\ provider[x] = "offered")
    /\ Arrives(i, [op |-> "notified", id |-> x, state |-> provider[x]])
    /\ UNCHANGED <<user, payments>>

----------------------------------------------------------------------------
(* The webhook: what follows the answer of the provider.                   *)

Notified(i, ids) == req[i].op = "notified" /\ req[i].id \in ids

\* findUnique by the id of the payment; in a mutant, also a date that lies ahead.
PaidAhead(x) == rows[x] > 0 \/ (x \in Invoices /\ sub[SubOf[x]].expiresAt = "ahead")
Processed(x) == rows[x] > 0

\* handleDiamondPaymentApproved: an order that is not approved, or was credited, is ignored.
OrderRead(i) ==
    /\ Notified(i, Orders)
    /\ IF req[i].state = "approved" /\ ~Processed(req[i].id)
       THEN Goes(i, [op |-> "credit", id |-> req[i].id]) ELSE Ends(i)
    /\ UNCHANGED <<user, payments>>

\* handleAuthorizedPayment: without its subscription an approved charge is dropped.
InvoiceRead(i) ==
    LET a == req[i].id
        approved == req[i].state = "approved"
        known == sub[SubOf[a]] # NoSub
    IN  /\ Notified(i, Invoices)
        /\ IF approved /\ known /\ ~Processed(a) THEN Goes(i, [op |-> "credit", id |-> a]) ELSE Ends(i)
        /\ lost' = IF approved /\ ~known THEN lost \cup {a} ELSE lost
        /\ UNCHANGED <<user, externals, rows, premium, coupons>>

\* externalPaymentId and externalInvoiceId are unique; in a mutant they are not.
InsertableAgain(x) == TRUE
Insertable(x) == rows[x] = 0

\* The transaction: the ledger row, the balance, and the month of premium of a charge.
CreditRow(i) ==
    LET x == req[i].id
    IN  /\ Insertable(x)
        /\ rows' = [rows EXCEPT ![x] = @ + 1]
        /\ Books(IF x \in Orders THEN PackDiamonds ELSE GrantDiamonds)
        /\ IF x \in Invoices
           THEN /\ isPremium' = TRUE /\ expiresAt' = "ahead"
                /\ sub' = [sub EXCEPT ![SubOf[x]] = [status |-> "ACTIVE", expiresAt |-> "ahead"]]
           ELSE UNCHANGED <<isPremium, expiresAt, sub>>
        /\ IF x \in withCoupon THEN Goes(i, [op |-> "redeem", id |-> x]) ELSE Ends(i)
        /\ UNCHANGED lost

\* The row exists, or the database fails: nothing is written and the answer is 200.
CreditFails(i) ==
    /\ Ends(i)
    /\ lost' = IF Insertable(req[i].id) THEN lost \cup {req[i].id} ELSE lost
    /\ UNCHANGED <<user, rows, sub, expiresAt>>

Credit(i) ==
    /\ req[i].op = "credit"
    /\ CreditRow(i) \/ CreditFails(i)
    /\ UNCHANGED <<coins, externals, coupons>>

\* recordRedemption, whose failure is swallowed.
Redeem(i) ==
    /\ req[i].op = "redeem" /\ Ends(i)
    /\ \/ /\ coupon.state # "removed"
          /\ coupon' = [coupon EXCEPT !.uses = @ + 1] /\ redemptions' = redemptions + 1
       \/ UNCHANGED coupons
    /\ UNCHANGED <<user, externals, rows, premium, lost>>

\* handlePreapprovalNotification writes the state it was given, and the next payment
\* date if there is one.
DbStatus(state) ==
    CASE state = "cancelled" -> "CANCELLED" [] state = "paused" -> "PAST_DUE" [] OTHER -> "ACTIVE"

SubUpsert(i) ==
    LET s == req[i].id
    IN  /\ Notified(i, Subs) /\ Ends(i)
        /\ \E date \in {"ahead", sub[s].expiresAt} \ {None} :
              sub' = [sub EXCEPT ![s] = [status |-> DbStatus(req[i].state), expiresAt |-> date]]
        /\ UNCHANGED <<user, externals, rows, expiresAt, coupons, lost>>

----------------------------------------------------------------------------
(* The end of premium.                                                     *)

\* A date passes.
DatePasses ==
    /\ \/ expiresAt = "ahead" /\ expiresAt' = "past" /\ UNCHANGED sub
       \/ \E s \in Subs : /\ sub[s].expiresAt = "ahead"
                          /\ sub' = [sub EXCEPT ![s].expiresAt = "past"] /\ UNCHANGED expiresAt
    /\ UNCHANGED <<user, requests, externals, rows, coupons, lost>>

\* Whose premium the cron ends; in a mutant, only that of an active subscription.
ExpiredWithSub == expiresAt = "past" /\ \E s \in Subs : sub[s].status = "ACTIVE"
Expired == expiresAt = "past"

\* syncExpiredPremiums, every night, updates the users and then the subscriptions.  The
\* two are independent, and a night on which one of them finds nothing leaves the other
\* alone: so each is a step of its own.
CronUsers ==
    /\ isPremium /\ Expired /\ isPremium' = FALSE
    /\ UNCHANGED <<coins, diamonds, booked, requests, payments>>

Lapsed(s) == sub[s] = [status |-> "ACTIVE", expiresAt |-> "past"]

CronSubs ==
    /\ \E s \in Subs : Lapsed(s)
    /\ sub' = [s \in Subs |-> IF Lapsed(s) THEN [sub[s] EXCEPT !.status = "EXPIRED"] ELSE sub[s]]
    /\ UNCHANGED <<user, requests, externals, rows, expiresAt, coupons, lost>>

----------------------------------------------------------------------------
PaymentsAnswers(i) ==
    \/ DiamondPreference(i) \/ PremiumPreapproval(i) \/ CancelAtProvider(i) \/ CancelWrite(i)
    \/ OrderRead(i) \/ InvoiceRead(i) \/ SubUpsert(i) \/ Credit(i) \/ Redeem(i)

PaymentsNext ==
    \/ \E i \in Slots :
          \/ \E p \in Orders : DiamondCheckout(i, p)
          \/ \E s \in Subs : PremiumCheckout(i, s) \/ CancelPremium(i, s)
          \/ \E x \in Entities : Notify(i, x) \/ NotifyAgain(i, x)
          \/ PaymentsAnswers(i)
    \/ \E state \in {"active", "inactive", "removed"} : CouponEdited(state)
    \/ \E p \in Orders : OrderPaid(p)
    \/ \E s \in Subs : SubChanges(s)
    \/ \E a \in Invoices : Charged(a)
    \/ DatePasses \/ CronUsers \/ CronSubs

=============================================================================
