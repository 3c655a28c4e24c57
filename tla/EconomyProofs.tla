--------------------------- MODULE EconomyProofs ---------------------------
(***************************************************************************)
(* The database of Economy implements Ledger, for every number of requests  *)
(* under way, whatever is for sale and whatever is paid.                    *)
(*                                                                         *)
(* What a request has read may be out of date when it is used.  What never   *)
(* becomes out of date is the invariant: a price is one that the shop has    *)
(* had, and a payment that was once approved stays approved.                *)
(***************************************************************************)
EXTENDS EconomyProps, FiniteSetTheorems, TLAPS

Rows   == [Repriced -> OverridePrices \cup {NoRow}]
Caches == [rows : Rows, fresh : BOOLEAN]
Prices == {DefaultPrice} \cup OverridePrices
States == {None, "offered", "approved", "rejected", "authorized", "paused", "cancelled"}

Approved == {x \in Credits : provider[x] = "approved"}
Credited == {x \in Credits : rows[x] > 0}

\* What a request may rely on, in a database where these payments are approved.
RequestOK(r, approved) ==
    /\ r.op = "warm" => r.rows \in Rows
    /\ r.op \in {"check", "pay"} => r.price \in Prices
    /\ r.op = "adminCredit" => r.amount \in Grants
    /\ r.op = "cancel" => r.sub \in Subs
    /\ r.op = "notified" /\ r.id \in Credits /\ r.state = "approved" => r.id \in approved
    /\ r.op = "credit" => r.id \in approved

DataOK ==
    /\ overrides \in Rows /\ cache \in Caches
    /\ rows \in [Credits -> Nat] /\ provider \in [Entities -> States]

RequestsOK ==
    /\ req = [i \in Slots |-> req[i]]
    /\ \A i \in Slots : RequestOK(req[i], Approved)

IInv == DataOK /\ RequestsOK

----------------------------------------------------------------------------
(* The operators.                                                          *)

\* PriceOf finds a price that the shop has had.
LEMMA PriceOfIsAPrice ==
    ASSUME NEW r \in Rows, NEW x
    PROVE  PriceOf(x, r) \in Prices
  BY DEF PriceOf, Rows, Prices

\* So does a request that goes on with the prices it has loaded.
LEMMA PricedIsOK ==
    ASSUME NEW r \in Rows, NEW x, NEW S
    PROVE  RequestOK(Priced(x, r), S)
  <1>1. PriceOf(x, r) \in Prices
    BY PriceOfIsAPrice
  <1>2. CASE x = None
    BY <1>2 DEF Priced, RequestOK, Idle
  <1>3. CASE x # None /\ x \in Items
    BY <1>3 DEF Priced, RequestOK
  <1>4. CASE x # None /\ x \notin Items
    BY <1>1, <1>4 DEF Priced, RequestOK
  <1> QED BY <1>2, <1>3, <1>4

LEMMA IdleIsOK == \A S : RequestOK(Idle, S)
  BY DEF RequestOK, Idle

\* A request that goes on leaves the others as they are.
LEMMA WaitsKeeps ==
    ASSUME RequestsOK, NEW i \in Slots, NEW r, Waits(i, r),
           Approved \subseteq Approved', RequestOK(r, Approved')
    PROVE  RequestsOK'
  <1>1. req' = [req EXCEPT ![i] = r]
    BY DEF Waits
  <1>2. req' = [j \in Slots |-> IF j = i THEN r ELSE req[j]]
    BY <1>1 DEF RequestsOK
  <1>3. \A j \in Slots : RequestOK(req'[j], Approved')
    BY <1>2 DEF RequestsOK, RequestOK
  <1> QED BY <1>2, <1>3 DEF RequestsOK

\* So do no requests at all.
LEMMA SameRequestsKeep ==
    ASSUME RequestsOK, req' = req, Approved \subseteq Approved'
    PROVE  RequestsOK'
  BY DEF RequestsOK, RequestOK

\* Most steps change nothing that the ledger or the invariant speaks of, except the
\* request that makes them.
Quiet == UNCHANGED <<diamonds, booked, overrides, cache, rows, provider>>

LEMMA QuietKeeps ==
    ASSUME IInv, Quiet, NEW i \in Slots, NEW r, Waits(i, r), RequestOK(r, Approved)
    PROVE  IInv' /\ UNCHANGED Abstract!vars
  <1>1. Approved' = Approved
    BY DEF Quiet, Approved
  <1>2. RequestsOK'
    BY <1>1, WaitsKeeps DEF IInv
  <1> QED BY <1>2 DEF IInv, DataOK, Quiet, Abstract!vars

\* What is to be shown of every step.
Fine == IInv' /\ [Abstract!Next]_Abstract!vars

\* A quiet step of a request, or of none.
LEMMA QuietIsFine ==
    ASSUME IInv, Quiet, NEW i \in Slots, NEW r, Waits(i, r), RequestOK(r, Approved)
    PROVE  Fine
  BY QuietKeeps DEF Fine

LEMMA IdleStepIsFine ==
    ASSUME IInv, Quiet, req' = req
    PROVE  Fine
  <1>1. Approved' = Approved
    BY DEF Quiet, Approved
  <1>2. RequestsOK'
    BY <1>1, SameRequestsKeep DEF IInv
  <1> QED BY <1>2 DEF Fine, IInv, DataOK, Quiet, Abstract!vars

\* A request that ends, whatever else its step does to the prices.
LEMMA EndIsFine ==
    ASSUME IInv, NEW i \in Slots, Ends(i), Quiet
    PROVE  Fine
  BY QuietIsFine, IdleIsOK DEF Ends

----------------------------------------------------------------------------
(* The shop.                                                               *)

ShopFrame == UNCHANGED payments

LEMMA RequestIsFine ==
    ASSUME IInv, ShopFrame, NEW i \in Slots, NEW x, Request(i, x)
    PROVE  Fine
  <1> DEFINE r == IF cache.fresh THEN Priced(x, cache.rows)
                  ELSE [op |-> "warm", what |-> x, rows |-> overrides]
  <1>1. Waits(i, r) /\ Quiet
    BY DEF Request, Arrives, ShopFrame, payments, externals, user, shop, Quiet
  <1>2. RequestOK([op |-> "warm", what |-> x, rows |-> overrides], Approved)
    BY DEF IInv, DataOK, RequestOK
  <1>3. cache.rows \in Rows
    BY DEF IInv, DataOK, Caches
  <1>4. RequestOK(r, Approved)
    BY <1>2, <1>3, PricedIsOK
  <1> HIDE DEF r
  <1> QED BY <1>1, <1>4, QuietIsFine

LEMMA CacheIsFine ==
    ASSUME IInv, cache' \in Caches, overrides' \in Rows,
           UNCHANGED <<diamonds, booked, rows, provider>>, RequestsOK'
    PROVE  Fine
  BY DEF Fine, IInv, DataOK, Abstract!vars

LEMMA WarmIsFine ==
    ASSUME IInv, ShopFrame, NEW i \in Slots, Warm(i)
    PROVE  Fine
  <1> DEFINE loaded == [rows |-> req[i].rows, fresh |-> TRUE]
  <1>1. Approved' = Approved /\ UNCHANGED <<diamonds, booked, rows, provider, overrides>>
    BY DEF Warm, ShopFrame, payments, externals, user, Approved
  <1>2. req[i].rows \in Rows /\ cache.rows \in Rows
    BY DEF Warm, IInv, DataOK, RequestsOK, RequestOK, Caches
  <1>3. cache' \in Caches
    <2>1. cache' = loaded \/ cache' = cache
      BY DEF Warm
    <2>2. loaded \in Caches
      BY <1>2 DEF Caches
    <2> QED BY <2>1, <2>2 DEF IInv, DataOK
  <1>4. PICK r \in Rows : Waits(i, Priced(req[i].what, r))
    BY <1>2 DEF Warm, Goes
  <1>5. RequestsOK'
    BY <1>1, <1>4, PricedIsOK, WaitsKeeps DEF IInv
  <1> QED BY <1>1, <1>3, <1>5, CacheIsFine DEF IInv, DataOK

LEMMA CacheExpiresIsFine ==
    ASSUME IInv, ShopFrame, CacheExpires
    PROVE  Fine
  <1>1. Approved' = Approved /\ UNCHANGED <<diamonds, booked, rows, provider, overrides, req>>
    BY DEF CacheExpires, ShopFrame, payments, externals, user, requests, Approved
  <1>2. cache' \in Caches
    BY DEF CacheExpires, IInv, DataOK, Caches
  <1>3. RequestsOK'
    BY <1>1, SameRequestsKeep DEF IInv
  <1> QED BY <1>1, <1>2, <1>3, CacheIsFine DEF IInv, DataOK

LEMMA SetOverrideIsFine ==
    ASSUME IInv, ShopFrame, NEW i \in Slots, NEW x \in Repriced, SetOverride(i, x)
    PROVE  Fine
  <1>1. Approved' = Approved /\ UNCHANGED <<diamonds, booked, rows, provider, cache>>
    BY DEF SetOverride, ShopFrame, payments, externals, user, Approved
  <1>2. overrides' \in Rows
    BY DEF SetOverride, IInv, DataOK, Rows
  <1>3. RequestOK([op |-> "invalidate"], Approved)
    BY DEF RequestOK
  <1>4. RequestsOK'
    BY <1>1, <1>3, WaitsKeeps DEF IInv, SetOverride, Arrives
  <1> QED BY <1>1, <1>2, <1>4, CacheIsFine DEF IInv, DataOK

LEMMA InvalidateIsFine ==
    ASSUME IInv, ShopFrame, NEW i \in Slots, Invalidate(i)
    PROVE  Fine
  <1>1. Approved' = Approved /\ UNCHANGED <<diamonds, booked, rows, provider, overrides>>
    BY DEF Invalidate, ShopFrame, payments, externals, user, Approved
  <1>2. cache' \in Caches
    BY DEF Invalidate, Caches, Rows, NoRows
  <1>3. RequestsOK'
    BY <1>1, IdleIsOK, WaitsKeeps DEF IInv, Invalidate, Ends
  <1> QED BY <1>1, <1>2, <1>3, CacheIsFine DEF IInv, DataOK

LEMMA LookIsFine ==
    ASSUME IInv, ShopFrame, NEW i \in Slots, Look(i)
    PROVE  Fine
  <1> DEFINE r == [op |-> "check", what |-> req[i].what, price |-> PriceOf(req[i].what, cache.rows)]
  <1>1. Quiet
    BY DEF Look, ShopFrame, payments, externals, user, shop, Quiet
  <1>2. PriceOf(req[i].what, cache.rows) \in Prices
    BY PriceOfIsAPrice DEF IInv, DataOK, Caches
  <1>3. RequestOK(r, Approved)
    BY <1>2 DEF RequestOK
  <1>4. Waits(i, r) \/ Ends(i)
    BY DEF Look, Goes
  <1> HIDE DEF r
  <1> QED BY <1>1, <1>3, <1>4, QuietIsFine, EndIsFine

LEMMA CheckIsFine ==
    ASSUME IInv, ShopFrame, NEW i \in Slots, Check(i)
    PROVE  Fine
  <1> DEFINE r == [req[i] EXCEPT !.op = "pay"]
  <1>1. Quiet
    BY DEF Check, ShopFrame, payments, externals, user, shop, Quiet
  <1>2. Waits(i, r) \/ Ends(i)
    BY DEF Check, Goes
  <1>3. RequestOK(req[i], Approved) /\ req[i].op = "check"
    BY DEF Check, IInv, RequestsOK
  <1>4. r.op = "pay" /\ r.price = req[i].price
    OBVIOUS
  <1>5. RequestOK(r, Approved)
    BY <1>3, <1>4 DEF RequestOK
  <1> HIDE DEF r
  <1> QED BY <1>1, <1>2, <1>5, QuietIsFine, EndIsFine

\* An entry of the books that belongs to no payment.
LEMMA EntryIsFine ==
    ASSUME IInv, NEW i \in Slots, Ends(i), UNCHANGED <<overrides, cache, rows, provider>>,
           \/ \E price \in Prices : Books(-price)
           \/ \E amount \in Grants : Books(amount)
    PROVE  Fine
  <1>1. Approved' = Approved /\ Credited' = Credited
    BY DEF Approved, Credited
  <1>2. IInv'
    BY <1>1, IdleIsOK, WaitsKeeps DEF IInv, DataOK, Ends
  <1>3. CASE \E price \in Prices : Books(-price)
    <2>1. \E price \in Prices : Abstract!Sell(price)
      BY <1>1, <1>3 DEF Books, Abstract!Sell, Abstract!Enters, Approved, Credited
    <2> QED BY <1>2, <2>1 DEF Fine, Abstract!Next, Prices
  <1>4. CASE \E amount \in Grants : Books(amount)
    <2>1. \E amount \in Grants : Abstract!Grant(amount)
      BY <1>1, <1>4 DEF Books, Abstract!Grant, Abstract!Enters, Approved, Credited
    <2> QED BY <1>2, <2>1 DEF Fine, Abstract!Next
  <1> QED BY <1>3, <1>4

LEMMA PayIsFine ==
    ASSUME IInv, ShopFrame, NEW i \in Slots, Pay(i)
    PROVE  Fine
  <1>1. Ends(i) /\ req[i].op = "pay" /\ UNCHANGED <<overrides, cache, rows, provider>>
    BY DEF Pay, PayCoins, PayDiamonds, PayPack, Pays, ShopFrame, payments, externals, prices
  <1>2. req[i].price \in Prices
    BY <1>1 DEF IInv, RequestsOK, RequestOK
  <1>3. CASE PayCoins(i)
    BY <1>1, <1>3, EndIsFine DEF PayCoins, Quiet
  <1>4. CASE PayDiamonds(i) \/ PayPack(i)
    BY <1>1, <1>2, <1>4, EntryIsFine DEF PayDiamonds, PayPack
  <1> QED BY <1>3, <1>4 DEF Pay

LEMMA AdminIsFine ==
    ASSUME IInv, ShopFrame, NEW i \in Slots,
           AdminCredit(i) \/ AdminCreditWrite(i) \/ EditUser(i) \/ EditRead(i) \/ EditWrite(i)
    PROVE  Fine
  <1>1. CASE AdminCredit(i)
    <2>1. Quiet
      BY <1>1 DEF AdminCredit, ShopFrame, payments, externals, user, shop, Quiet
    <2>2. PICK n \in Grants : Waits(i, [op |-> "adminCredit", amount |-> n])
      BY <1>1 DEF AdminCredit, Arrives
    <2>3. RequestOK([op |-> "adminCredit", amount |-> n], Approved)
      BY DEF RequestOK
    <2> QED BY <2>1, <2>2, <2>3, QuietIsFine
  <1>2. CASE AdminCreditWrite(i)
    <2>1. req[i].amount \in Grants
      BY <1>2 DEF AdminCreditWrite, IInv, RequestsOK, RequestOK
    <2>2. Ends(i) /\ Books(req[i].amount) /\ UNCHANGED <<overrides, cache, rows, provider>>
      BY <1>2 DEF AdminCreditWrite, ShopFrame, payments, externals, shop
    <2> QED BY <2>1, <2>2, EntryIsFine
  <1>3. CASE EditUser(i)
    <2>1. Quiet
      BY <1>3 DEF EditUser, ShopFrame, payments, externals, shop, Quiet
    <2>2. Waits(i, [op |-> "editRead"]) /\ RequestOK([op |-> "editRead"], Approved)
      BY <1>3 DEF EditUser, Arrives, RequestOK
    <2> QED BY <2>1, <2>2, QuietIsFine
  <1>4. CASE EditRead(i)
    <2>1. Quiet
      BY <1>4 DEF EditRead, ShopFrame, payments, externals, user, shop, Quiet
    <2>2. Ends(i) \/ \E l, v : Waits(i, [op |-> "editWrite", lists |-> l, revoked |-> v])
      BY <1>4 DEF EditRead, Goes
    <2>3. \A l, v : RequestOK([op |-> "editWrite", lists |-> l, revoked |-> v], Approved)
      BY DEF RequestOK
    <2> QED BY <2>1, <2>2, <2>3, QuietIsFine, EndIsFine
  <1>5. CASE EditWrite(i)
    <2>1. Quiet /\ Ends(i)
      BY <1>5 DEF EditWrite, ShopFrame, payments, externals, user, prices, Quiet
    <2> QED BY <2>1, EndIsFine
  <1> QED BY <1>1, <1>2, <1>3, <1>4, <1>5

LEMMA ShopIsFine ==
    ASSUME IInv, ShopFrame, ShopNext
    PROVE  Fine
  BY RequestIsFine, WarmIsFine, CacheExpiresIsFine, SetOverrideIsFine, InvalidateIsFine,
     LookIsFine, CheckIsFine, PayIsFine, AdminIsFine
     DEF ShopNext, ShopAnswers

----------------------------------------------------------------------------
(* The payments.                                                           *)

PaymentsFrame == UNCHANGED shop

\* The provider moves on, but never away from an approved payment.
LEMMA ProviderIsFine ==
    ASSUME IInv, UNCHANGED <<diamonds, booked, overrides, cache, rows>>,
           NEW x, NEW state \in States, provider' = [provider EXCEPT ![x] = state],
           x \in Credits => provider[x] # "approved",
           req' = req \/ \E i \in Slots : \E r : Waits(i, r) /\ \A S : RequestOK(r, S)
    PROVE  Fine
  <1>1. /\ provider' \in [Entities -> States]
        /\ \A y \in Entities : provider'[y] = IF y = x THEN state ELSE provider[y]
    BY DEF IInv, DataOK
  <1>2. Credits \subseteq Entities
    BY DEF Entities
  <1>3. Approved' = IF x \in Credits /\ state = "approved" THEN Approved \cup {x} ELSE Approved
    BY <1>1, <1>2 DEF Approved
  <1>4. RequestsOK'
    BY <1>3, WaitsKeeps, SameRequestsKeep DEF IInv
  <1>5. IInv'
    BY <1>1, <1>4 DEF IInv, DataOK
  <1>6. CASE x \in Credits /\ state = "approved"
    <2>1. Abstract!Approve(x)
      BY <1>3, <1>6 DEF Abstract!Approve, Approved
    <2> QED BY <1>5, <1>6, <2>1 DEF Fine, Abstract!Next
  <1>7. CASE ~(x \in Credits /\ state = "approved")
    BY <1>3, <1>5, <1>7 DEF Fine, Abstract!vars, Approved
  <1> QED BY <1>6, <1>7

LEMMA CheckoutIsFine ==
    ASSUME IInv, PaymentsFrame, NEW i \in Slots,
           \/ \E p \in Orders : DiamondCheckout(i, p)
           \/ \E s \in Subs : PremiumCheckout(i, s) \/ CancelPremium(i, s)
    PROVE  Fine
  <1>1. Quiet
    BY DEF DiamondCheckout, PremiumCheckout, CancelPremium, PaymentsFrame, shop, user,
           payments, externals, Quiet
  <1>2. CASE \E p \in Orders : DiamondCheckout(i, p)
    <2>1. PICK p, c : Waits(i, [op |-> "checkout", order |-> p, coupon |-> c])
      BY <1>2 DEF DiamondCheckout, Arrives
    <2>2. RequestOK([op |-> "checkout", order |-> p, coupon |-> c], Approved)
      BY DEF RequestOK
    <2> QED BY <1>1, <2>1, <2>2, QuietIsFine
  <1>3. CASE \E s \in Subs : PremiumCheckout(i, s)
    <2>1. PICK s : Waits(i, [op |-> "subscribe", sub |-> s])
      BY <1>3 DEF PremiumCheckout, Arrives
    <2>2. RequestOK([op |-> "subscribe", sub |-> s], Approved)
      BY DEF RequestOK
    <2> QED BY <1>1, <2>1, <2>2, QuietIsFine
  <1>4. CASE \E s \in Subs : CancelPremium(i, s)
    <2>1. PICK s \in Subs : Waits(i, [op |-> "cancel", sub |-> s])
      BY <1>4 DEF CancelPremium, Arrives
    <2>2. RequestOK([op |-> "cancel", sub |-> s], Approved)
      BY DEF RequestOK
    <2> QED BY <1>1, <2>1, <2>2, QuietIsFine
  <1> QED BY <1>2, <1>3, <1>4

LEMMA OfferIsFine ==
    ASSUME IInv, PaymentsFrame, NEW i \in Slots, DiamondPreference(i) \/ PremiumPreapproval(i)
    PROVE  Fine
  <1>1. Ends(i) /\ UNCHANGED <<diamonds, booked, overrides, cache, rows>>
    BY DEF DiamondPreference, PremiumPreapproval, PaymentsFrame, shop, user
  <1>2. CASE provider' = provider
    BY <1>1, <1>2, EndIsFine DEF Quiet
  <1>3. CASE provider' # provider
    <2>1. PICK x : provider[x] = None /\ provider' = [provider EXCEPT ![x] = "offered"]
      BY <1>3 DEF DiamondPreference, PremiumPreapproval
    <2>2. provider[x] # "approved" /\ "offered" \in States
      BY <2>1 DEF None, States
    <2> QED BY <1>1, <2>1, <2>2, IdleIsOK, ProviderIsFine DEF Ends
  <1> QED BY <1>2, <1>3

LEMMA CancelIsFine ==
    ASSUME IInv, PaymentsFrame, NEW i \in Slots, CancelAtProvider(i) \/ CancelWrite(i)
    PROVE  Fine
  <1>1. CASE CancelAtProvider(i) /\ ~Ends(i)
    <2> DEFINE s == req[i].sub
               r == [op |-> "cancelled", sub |-> s]
    <2>1. /\ provider' = [provider EXCEPT ![s] = "cancelled"] /\ Waits(i, r)
          /\ UNCHANGED <<diamonds, booked, overrides, cache, rows>>
      BY <1>1 DEF CancelAtProvider, Goes, PaymentsFrame, shop, user
    <2>2. \A S : RequestOK(r, S)
      BY DEF RequestOK
    <2>3. s \in Subs
      BY <1>1 DEF CancelAtProvider, IInv, RequestsOK, RequestOK
    <2>4. s \notin Credits /\ "cancelled" \in States
      BY <2>3, PaymentsAssumption DEF Credits, States
    <2> HIDE DEF s, r
    <2> QED BY <2>1, <2>2, <2>4, ProviderIsFine
  <1>2. CASE CancelAtProvider(i) /\ Ends(i)
    <2>1. req'[i].op = "idle"
      BY <1>2 DEF Ends, Waits, Idle, IInv, RequestsOK
    <2>2. provider' = provider
      <3>1. CASE Goes(i, [op |-> "cancelled", sub |-> req[i].sub])
        <4>1. req'[i].op = "cancelled"
          BY <3>1 DEF Goes, Waits, IInv, RequestsOK
        <4> QED BY <2>1, <4>1
      <3>2. CASE ~Goes(i, [op |-> "cancelled", sub |-> req[i].sub])
        BY <1>2, <3>2 DEF CancelAtProvider
      <3> QED BY <3>1, <3>2
    <2>3. Quiet
      BY <1>2, <2>2 DEF CancelAtProvider, PaymentsFrame, shop, user, Quiet
    <2> QED BY <1>2, <2>3, EndIsFine
  <1>3. CASE CancelWrite(i)
    <2>1. Quiet /\ Ends(i)
      BY <1>3 DEF CancelWrite, PaymentsFrame, shop, user, externals, Quiet
    <2> QED BY <2>1, EndIsFine
  <1> QED BY <1>1, <1>2, <1>3

\* The provider itself.
LEMMA BecomesIsFine ==
    ASSUME IInv, PaymentsFrame, NEW x, NEW state \in States, Becomes(x, state),
           x \in Credits => provider[x] # "approved"
    PROVE  Fine
  <1>1. /\ provider' = [provider EXCEPT ![x] = state] /\ req' = req
        /\ UNCHANGED <<diamonds, booked, overrides, cache, rows>>
    BY DEF Becomes, PaymentsFrame, shop, user, requests
  <1> QED BY <1>1, ProviderIsFine

LEMMA ProviderStepIsFine ==
    ASSUME IInv, PaymentsFrame,
           \/ \E p \in Orders : OrderPaid(p)
           \/ \E s \in Subs : SubChanges(s)
           \/ \E a \in Invoices : Charged(a)
    PROVE  Fine
  <1>1. {"approved", "rejected", "authorized", "paused", "cancelled"} \subseteq States
    BY DEF States
  <1>2. CASE \E p \in Orders : OrderPaid(p)
    <2>1. PICK p : provider[p] = "offered" /\ \E state \in States : Becomes(p, state)
      BY <1>1, <1>2 DEF OrderPaid, CardAnswers
    <2> QED BY <2>1, BecomesIsFine
  <1>3. CASE \E s \in Subs : SubChanges(s)
    <2>1. PICK s : /\ provider[s] \in {"offered", "authorized"}
                   /\ \E state \in States : Becomes(s, state)
      BY <1>1, <1>3 DEF SubChanges
    <2> QED BY <2>1, BecomesIsFine
  <1>4. CASE \E a \in Invoices : Charged(a)
    <2>1. PICK a : provider[a] = None /\ \E state \in States : Becomes(a, state)
      BY <1>1, <1>4 DEF Charged, CardAnswers
    <2> QED BY <2>1, BecomesIsFine DEF None
  <1> QED BY <1>2, <1>3, <1>4

\* A notification names a payment as approved only when it is.
LEMMA NotifyIsFine ==
    ASSUME IInv, PaymentsFrame, NEW i \in Slots, NEW x \in Entities,
           Notify(i, x) \/ NotifyAgain(i, x)
    PROVE  Fine
  <1> DEFINE r == [op |-> "notified", id |-> x, state |-> provider[x]]
  <1>1. Quiet
    BY DEF Notify, NotifyAgain, PaymentsFrame, shop, user, payments, externals, Quiet
  <1>2. Waits(i, r) \/ req' = req
    BY DEF Notify, NotifyAgain, Fetches, FetchFails, Arrives
  <1>3. RequestOK(r, Approved)
    BY DEF RequestOK, Approved
  <1> HIDE DEF r
  <1> QED BY <1>1, <1>2, <1>3, QuietIsFine, IdleStepIsFine

LEMMA WebhookReadIsFine ==
    ASSUME IInv, PaymentsFrame, NEW i \in Slots, OrderRead(i) \/ InvoiceRead(i) \/ SubUpsert(i)
    PROVE  Fine
  <1> DEFINE r == [op |-> "credit", id |-> req[i].id]
  <1>1. Quiet
    BY DEF OrderRead, InvoiceRead, SubUpsert, PaymentsFrame, shop, user, payments, externals, Quiet
  <1>2. \/ Ends(i)
        \/ /\ Waits(i, r) /\ req[i].op = "notified" /\ req[i].state = "approved"
           /\ req[i].id \in Credits
    BY DEF OrderRead, InvoiceRead, SubUpsert, Notified, Goes, Credits
  <1>3. CASE Ends(i)
    BY <1>1, <1>3, EndIsFine
  <1>4. CASE ~Ends(i)
    <2>1. req[i].id \in Approved
      BY <1>2, <1>4 DEF IInv, RequestsOK, RequestOK
    <2>2. RequestOK(r, Approved)
      BY <2>1 DEF RequestOK
    <2> HIDE DEF r
    <2> QED BY <1>1, <1>2, <1>4, <2>2, QuietIsFine
  <1> QED BY <1>3, <1>4

\* The transaction of a payment is the one step that credits it: the row it inserts was
\* not there.
LEMMA CreditIsFine ==
    ASSUME IInv, PaymentsFrame, NEW i \in Slots, Credit(i)
    PROVE  Fine
  <1> DEFINE x == req[i].id
  <1>1. /\ x \in Approved /\ Approved' = Approved
        /\ UNCHANGED <<overrides, cache, provider>>
    BY DEF Credit, PaymentsFrame, shop, externals, IInv, RequestsOK, RequestOK, Approved
  <1>2. CASE CreditRow(i)
    <2>1. /\ rows' = [rows EXCEPT ![x] = @ + 1] /\ rows[x] = 0
          /\ Books(IF x \in Orders THEN PackDiamonds ELSE GrantDiamonds)
      BY <1>2 DEF CreditRow, Insertable
    <2>2. rows' \in [Credits -> Nat] /\ Credited' = Credited \cup {x} /\ x \notin Credited
      <3>1. x \in Credits /\ rows \in [Credits -> Nat]
        BY <1>1 DEF IInv, DataOK, Approved
      <3> HIDE DEF x
      <3>2. rows' \in [Credits -> Nat] /\ \A y \in Credits : rows'[y] = IF y = x THEN 1 ELSE rows[y]
        BY <2>1, <3>1
      <3> QED BY <2>1, <3>1, <3>2 DEF Credited
    <2>3. \E r : Waits(i, r) /\ RequestOK(r, Approved)
      <3>1. CASE Ends(i)
        BY <3>1, IdleIsOK DEF Ends
      <3>2. CASE Waits(i, [op |-> "redeem", id |-> x])
        <4>1. RequestOK([op |-> "redeem", id |-> x], Approved)
          BY DEF RequestOK
        <4> QED BY <3>2, <4>1
      <3> QED BY <1>2, <3>1, <3>2 DEF CreditRow, Goes
    <2>4. IInv'
      BY <1>1, <2>2, <2>3, WaitsKeeps DEF IInv, DataOK
    <2>5. \E y \in Credits : Abstract!Credit(y)
      <3>1. x \in Credits /\ x \in Approved \ Credited
        BY <1>1, <2>2 DEF Approved
      <3>2. PICK y \in Credits : y = x
        BY <3>1
      <3> HIDE DEF x
      <3>3. Abstract!Credit(y)
        BY <1>1, <2>1, <2>2, <3>1, <3>2
           DEF Abstract!Credit, Abstract!Enters, Books, Approved, Credited
      <3> QED BY <3>3
    <2> QED BY <2>4, <2>5 DEF Fine, Abstract!Next
  <1>3. CASE CreditFails(i)
    BY <1>1, <1>3, EndIsFine DEF CreditFails, user, Quiet
  <1> QED BY <1>2, <1>3 DEF Credit

LEMMA RestIsFine ==
    ASSUME IInv, PaymentsFrame,
           \/ \E i \in Slots : Redeem(i)
           \/ \E state : CouponEdited(state)
           \/ DatePasses \/ CronUsers \/ CronSubs
    PROVE  Fine
  <1>1. CASE \E i \in Slots : Redeem(i)
    <2>1. Quiet /\ \E i \in Slots : Ends(i)
      BY <1>1 DEF Redeem, PaymentsFrame, shop, user, externals, Quiet
    <2> QED BY <2>1, EndIsFine
  <1>2. CASE \E state : CouponEdited(state)
    <2>1. Quiet /\ req' = req
      BY <1>2 DEF CouponEdited, PaymentsFrame, shop, user, externals, Quiet
    <2> QED BY <2>1, IdleStepIsFine
  <1>3. CASE DatePasses \/ CronUsers \/ CronSubs
    <2>1. Quiet /\ req' = req
      BY <1>3 DEF DatePasses, CronUsers, CronSubs, PaymentsFrame, shop, user, requests,
                  payments, externals, Quiet
    <2> QED BY <2>1, IdleStepIsFine
  <1> QED BY <1>1, <1>2, <1>3

LEMMA PaymentsIsFine ==
    ASSUME IInv, PaymentsFrame, PaymentsNext
    PROVE  Fine
  BY CheckoutIsFine, OfferIsFine, CancelIsFine, ProviderStepIsFine, NotifyIsFine,
     WebhookReadIsFine, CreditIsFine, RestIsFine
     DEF PaymentsNext, PaymentsAnswers

\* A stop of the server forgets all requests and the cache.
LEMMA CrashIsFine ==
    ASSUME IInv, Crash
    PROVE  Fine
  <1>1. Approved' = Approved /\ UNCHANGED <<diamonds, booked, rows, provider, overrides>>
    BY DEF Crash, user, Approved
  <1>2. cache' \in Caches
    BY DEF Crash, Caches, Rows, NoRows
  <1>3. RequestsOK'
    <2>1. req' = [i \in Slots |-> Idle]
      BY DEF Crash
    <2>2. \A i \in Slots : req'[i] = Idle
      BY <2>1
    <2>3. req' = [i \in Slots |-> req'[i]]
      BY <2>1, <2>2
    <2> QED BY <2>2, <2>3, IdleIsOK DEF RequestsOK
  <1> QED BY <1>1, <1>2, <1>3, CacheIsFine DEF IInv, DataOK

----------------------------------------------------------------------------
(* The theorems.                                                           *)

LEMMA InitIsFine == Init => IInv /\ Abstract!Init
  <1> SUFFICES ASSUME Init PROVE IInv /\ Abstract!Init
    OBVIOUS
  <1>1. DataOK
    BY DEF Init, ShopInit, PaymentsInit, DataOK, Rows, Caches, NoRows, States, None
  <1>2. RequestsOK
    BY IdleIsOK DEF Init, AccountInit, RequestsOK
  <1>3. Abstract!Init
    <2>1. \A x \in Credits : provider[x] # "approved" /\ ~(rows[x] > 0)
      BY DEF Init, PaymentsInit, Entities, None
    <2> QED BY <2>1 DEF Init, AccountInit, Abstract!Init
  <1> QED BY <1>1, <1>2, <1>3 DEF IInv

LEMMA StepIsFine == IInv /\ [Next]_vars => Fine
  <1> SUFFICES ASSUME IInv, [Next]_vars PROVE Fine
    OBVIOUS
  <1>1. CASE ShopNext /\ UNCHANGED <<payments, crashes>>
    BY <1>1, ShopIsFine DEF ShopFrame
  <1>2. CASE PaymentsNext /\ UNCHANGED <<shop, crashes>>
    BY <1>2, PaymentsIsFine DEF PaymentsFrame
  <1>3. CASE Crash
    BY <1>3, CrashIsFine
  <1>4. CASE UNCHANGED vars
    BY <1>4, IdleStepIsFine DEF vars, user, requests, shop, payments, externals, Quiet
  <1> QED BY <1>1, <1>2, <1>3, <1>4 DEF Next

\* Prices that requests hold are prices of the shop, and payments they are about to credit
\* stay approved, whatever has happened since they read them.
THEOREM HeldFactsStayTrue == Spec => []IInv
  <1>1. Init => IInv
    BY InitIsFine
  <1>2. IInv /\ [Next]_vars => IInv'
    BY StepIsFine DEF Fine
  <1> QED BY <1>1, <1>2, PTL DEF Spec

\* The balance and the books follow Ledger: each approved payment is credited at most
\* once, however its notifications are repeated, reordered and handled at once
\* (handleDiamondPaymentApproved, handleAuthorizedPayment), and every other change is a
\* sale at a price of the shop or a grant of an administrator.
THEOREM EconomyImplementsLedger == Spec => ImplementsLedger
  <1>1. Init => Abstract!Init
    BY InitIsFine
  <1>2. IInv /\ [Next]_vars => [Abstract!Next]_Abstract!vars
    BY StepIsFine DEF Fine
  <1> QED BY <1>1, <1>2, HeldFactsStayTrue, PTL DEF Spec, ImplementsLedger, Abstract!Spec

-----------------------------------------------------------------------------
(***************************************************************************)
(* What was paid for is owned, for every number of requests under way and   *)
(* whatever is for sale.                                                   *)
(*                                                                         *)
(* PaidForIsOwned alone is not inductive: an administrator's edit that has  *)
(* read the lists of the inventory will write them back.  The invariant     *)
(* adds that whatever such an edit is going to write keeps what was paid    *)
(* for, unless it revokes it or the purchase came in between.               *)
(***************************************************************************)

\* What was paid for, and not while lists were being edited.
Secured == {x \in Items : paid[x] > 0 /\ x \notin raced}

Keeps(r) == r.op = "editWrite" => Secured \subseteq r.lists \cup r.revoked

GoodsInv ==
    /\ paid \in [Items -> Nat]
    /\ req = [i \in Slots |-> req[i]]
    /\ Secured \subseteq owned
    /\ \A i \in Slots : Keeps(req[i])

----------------------------------------------------------------------------
(* Steps that leave the goods alone.                                       *)

\* A request that goes on, to anything but the end of an edit.
LEMMA OthersKeep ==
    ASSUME GoodsInv, UNCHANGED goods, NEW i \in Slots, NEW r, Waits(i, r), Keeps(r)
    PROVE  GoodsInv'
  <1>1. Secured' = Secured
    BY DEF goods, Secured
  <1>2. req' = [j \in Slots |-> IF j = i THEN r ELSE req[j]]
    BY DEF GoodsInv, Waits
  <1>3. \A j \in Slots : Keeps(req'[j])
    BY <1>2 DEF GoodsInv
  <1>4. \A j \in Slots : Keeps(req[j])'
    BY <1>1, <1>3 DEF Keeps
  <1> QED BY <1>1, <1>2, <1>4 DEF GoodsInv, goods

\* Any request that waits for something else than to write its lists.
LEMMA WaitKeeps ==
    ASSUME GoodsInv, UNCHANGED goods, NEW i \in Slots, NEW r, Waits(i, r), r.op # "editWrite"
    PROVE  GoodsInv'
  BY OthersKeep DEF Keeps

LEMMA EndKeeps ==
    ASSUME GoodsInv, UNCHANGED goods, NEW i \in Slots, Ends(i)
    PROVE  GoodsInv'
  <1>1. Idle.op # "editWrite"
    BY DEF Idle
  <1> QED BY <1>1, WaitKeeps DEF Ends

\* No request at all.
LEMMA StillKeeps ==
    ASSUME GoodsInv, UNCHANGED goods, req' = req
    PROVE  GoodsInv'
  BY DEF GoodsInv, goods, Secured, Keeps

----------------------------------------------------------------------------
(* The steps that write the lists.                                         *)

\* A purchase pushes what it pays for; when an edit holds older lists, it is marked.
LEMMA BoughtKeeps ==
    ASSUME GoodsInv, NEW i \in Slots, Ends(i), NEW x \in Items, Bought(x)
    PROVE  GoodsInv'
  <1>1. /\ owned' = owned \cup {x} /\ paid' = [paid EXCEPT ![x] = @ + 1]
        /\ raced' = IF InventoryEditUnderWay THEN raced \cup {x} ELSE raced \ {x}
    BY DEF Bought, Pushed
  <1>2. paid' \in [Items -> Nat] /\ \A y \in Items \ {x} : paid'[y] = paid[y]
    BY <1>1 DEF GoodsInv
  <1>3. Secured' \subseteq Secured \cup {x}
    BY <1>1, <1>2 DEF Secured
  <1>4. req' = [j \in Slots |-> IF j = i THEN Idle ELSE req[j]]
    BY DEF GoodsInv, Ends, Waits
  <1>5. \A j \in Slots : Keeps(req[j])'
    <2> SUFFICES ASSUME NEW j \in Slots, req'[j].op = "editWrite"
                 PROVE  Secured' \subseteq req'[j].lists \cup req'[j].revoked
      BY DEF Keeps
    <2>1. req'[j] = req[j] /\ req[j].op = "editWrite"
      BY <1>4 DEF Idle
    <2>2. x \notin Secured'
      BY <1>1, <2>1 DEF Secured, InventoryEditUnderWay
    <2> QED BY <1>3, <2>1, <2>2 DEF GoodsInv, Keeps
  <1> QED BY <1>1, <1>2, <1>3, <1>4, <1>5 DEF GoodsInv

\* An edit holds the lists it has read, with one item more or one revoked.
LEMMA EditReadKeeps ==
    ASSUME GoodsInv, NEW i \in Slots, EditRead(i)
    PROVE  GoodsInv'
  <1>1. UNCHANGED goods
    BY DEF EditRead, shop, goods
  <1>2. CASE Ends(i)
    BY <1>1, <1>2, EndKeeps
  <1>3. CASE ~Ends(i)
    <2>1. PICK x \in Items :
             \/ Waits(i, [op |-> "editWrite", lists |-> owned \cup {x}, revoked |-> {}])
             \/ Waits(i, [op |-> "editWrite", lists |-> owned \ {x}, revoked |-> {x}])
      BY <1>3 DEF EditRead, Goes
    <2>2. /\ Keeps([op |-> "editWrite", lists |-> owned \cup {x}, revoked |-> {}])
          /\ Keeps([op |-> "editWrite", lists |-> owned \ {x}, revoked |-> {x}])
      BY DEF Keeps, GoodsInv
    <2> QED BY <1>1, <2>1, <2>2, OthersKeep
  <1> QED BY <1>2, <1>3

\* Its write leaves out only what it revokes, or what was marked.
LEMMA EditWriteKeeps ==
    ASSUME GoodsInv, NEW i \in Slots, EditWrite(i)
    PROVE  GoodsInv'
  <1>1. /\ owned' = req[i].lists /\ raced' = raced /\ Keeps(req[i]) /\ req[i].op = "editWrite"
        /\ paid' = [x \in Items |-> IF x \in req[i].revoked THEN 0 ELSE paid[x]]
    BY DEF EditWrite, GoodsInv
  <1>2. paid' \in [Items -> Nat] /\ Secured' = Secured \ req[i].revoked
    BY <1>1 DEF GoodsInv, Secured
  <1>3. Secured' \subseteq owned'
    BY <1>1, <1>2 DEF Keeps
  <1>4. req' = [j \in Slots |-> IF j = i THEN Idle ELSE req[j]]
    BY DEF EditWrite, GoodsInv, Ends, Waits
  <1>5. \A j \in Slots : Keeps(req[j])'
    BY <1>2, <1>4 DEF GoodsInv, Keeps, Idle
  <1> QED BY <1>2, <1>3, <1>4, <1>5 DEF GoodsInv

----------------------------------------------------------------------------
(* The others.                                                             *)

LEMMA PayKeeps ==
    ASSUME GoodsInv, NEW i \in Slots, Pay(i)
    PROVE  GoodsInv'
  <1>1. CASE PayCoins(i) \/ PayDiamonds(i)
    <2>1. Ends(i) /\ req[i].what \in Items /\ Bought(req[i].what)
      BY <1>1 DEF PayCoins, PayDiamonds, Pays, Items
    <2> QED BY <2>1, BoughtKeeps
  <1>2. CASE PayPack(i)
    BY <1>2, EndKeeps DEF PayPack, Pays
  <1> QED BY <1>1, <1>2 DEF Pay

LEMMA BrowseKeeps ==
    ASSUME GoodsInv, NEW i \in Slots,
           \/ \E x : Request(i, x)
           \/ Warm(i) \/ Look(i) \/ Check(i)
    PROVE  GoodsInv'
  <1>1. UNCHANGED goods
    BY DEF Request, Warm, Look, Check, shop, goods
  <1>2. \A x, table : Priced(x, table).op # "editWrite"
    BY DEF Priced, Idle
  <1>3. CASE \E x : Request(i, x)
    <2>1. PICK x : Waits(i, IF cache.fresh THEN Priced(x, cache.rows)
                            ELSE [op |-> "warm", what |-> x, rows |-> overrides])
      BY <1>3 DEF Request, Arrives
    <2> QED BY <1>1, <1>2, <2>1, WaitKeeps
  <1>4. CASE Warm(i)
    <2>1. PICK table : Waits(i, Priced(req[i].what, table))
      BY <1>4 DEF Warm, Goes
    <2> QED BY <1>1, <1>2, <2>1, WaitKeeps
  <1>5. CASE Look(i)
    BY <1>1, <1>5, EndKeeps, WaitKeeps DEF Look, Goes
  <1>6. CASE Check(i)
    <2>1. req[i].op = "check" /\ [req[i] EXCEPT !.op = "pay"].op # "editWrite"
      BY <1>6 DEF Check
    <2>2. Ends(i) \/ Waits(i, [req[i] EXCEPT !.op = "pay"])
      BY <1>6 DEF Check, Goes
    <2> QED BY <1>1, <2>1, <2>2, EndKeeps, WaitKeeps
  <1> QED BY <1>3, <1>4, <1>5, <1>6

LEMMA OfficeKeeps ==
    ASSUME GoodsInv, NEW i \in Slots,
           \/ \E x : SetOverride(i, x)
           \/ Invalidate(i) \/ AdminCredit(i) \/ AdminCreditWrite(i) \/ EditUser(i)
    PROVE  GoodsInv'
  <1>1. UNCHANGED goods
    BY DEF SetOverride, Invalidate, AdminCredit, AdminCreditWrite, EditUser, shop, goods
  <1>2. CASE Invalidate(i) \/ AdminCreditWrite(i)
    BY <1>1, <1>2, EndKeeps DEF Invalidate, AdminCreditWrite
  <1>3. CASE \E x : SetOverride(i, x)
    BY <1>1, <1>3, WaitKeeps DEF SetOverride, Arrives
  <1>4. CASE EditUser(i)
    BY <1>1, <1>4, WaitKeeps DEF EditUser, Arrives
  <1>5. CASE AdminCredit(i)
    <2>1. PICK n : Waits(i, [op |-> "adminCredit", amount |-> n])
      BY <1>5 DEF AdminCredit, Arrives
    <2> QED BY <1>1, <2>1, WaitKeeps
  <1> QED BY <1>2, <1>3, <1>4, <1>5

LEMMA ShopKeeps ==
    ASSUME GoodsInv, ShopNext
    PROVE  GoodsInv'
  <1>1. CASE CacheExpires
    BY <1>1, StillKeeps DEF CacheExpires, requests
  <1> QED BY <1>1, PayKeeps, BrowseKeeps, OfficeKeeps, EditReadKeeps, EditWriteKeeps
          DEF ShopNext, ShopAnswers

\* What a payment may wait for: it is no purchase and no edit.
PaymentOps == {"idle", "checkout", "subscribe", "cancel", "cancelled", "notified", "credit", "redeem"}

LEMMA PaymentRequests ==
    ASSUME PaymentsNext
    PROVE  \/ UNCHANGED <<req, overlapped>>
           \/ \E i \in Slots : \E r : Waits(i, r) /\ r.op \in PaymentOps
  <1>1. ASSUME NEW i \in Slots, NEW p, DiamondCheckout(i, p)
        PROVE  \E r : Waits(i, r) /\ r.op \in PaymentOps
    <2>1. PICK c : Waits(i, [op |-> "checkout", order |-> p, coupon |-> c])
      BY <1>1 DEF DiamondCheckout, Arrives
    <2> QED BY <2>1 DEF PaymentOps
  <1>2. ASSUME NEW i \in Slots, NEW s, PremiumCheckout(i, s)
        PROVE  \E r : Waits(i, r) /\ r.op \in PaymentOps
    <2>1. Waits(i, [op |-> "subscribe", sub |-> s])
      BY <1>2 DEF PremiumCheckout, Arrives
    <2> QED BY <2>1 DEF PaymentOps
  <1>3. ASSUME NEW i \in Slots, NEW s, CancelPremium(i, s)
        PROVE  \E r : Waits(i, r) /\ r.op \in PaymentOps
    <2>1. Waits(i, [op |-> "cancel", sub |-> s])
      BY <1>3 DEF CancelPremium, Arrives
    <2> QED BY <2>1 DEF PaymentOps
  <1>4. ASSUME NEW i \in Slots, NEW x, Notify(i, x) \/ NotifyAgain(i, x)
        PROVE  UNCHANGED <<req, overlapped>> \/ \E r : Waits(i, r) /\ r.op \in PaymentOps
    <2>1. \/ UNCHANGED <<req, overlapped>>
          \/ Waits(i, [op |-> "notified", id |-> x, state |-> provider[x]])
      BY <1>4 DEF Notify, NotifyAgain, Fetches, FetchFails, Arrives
    <2> QED BY <2>1 DEF PaymentOps
  <1>5. ASSUME NEW i \in Slots, PaymentsAnswers(i)
        PROVE  \E r : Waits(i, r) /\ r.op \in PaymentOps
    <2>1. \/ Ends(i)
          \/ Waits(i, [op |-> "cancelled", sub |-> req[i].sub])
          \/ Waits(i, [op |-> "credit", id |-> req[i].id])
          \/ Waits(i, [op |-> "redeem", id |-> req[i].id])
      BY <1>5 DEF PaymentsAnswers, DiamondPreference, PremiumPreapproval, CancelAtProvider,
                  CancelWrite, OrderRead, InvoiceRead, SubUpsert, Credit, CreditRow,
                  CreditFails, Redeem, Goes
    <2> QED BY <2>1 DEF Ends, Idle, PaymentOps
  <1>6. ASSUME \/ \E p \in Orders : OrderPaid(p)
               \/ \E s \in Subs : SubChanges(s)
               \/ \E a \in Invoices : Charged(a)
        PROVE  UNCHANGED <<req, overlapped>>
    BY <1>6 DEF OrderPaid, SubChanges, Charged, CardAnswers, Becomes, requests
  <1>7. ASSUME \/ \E state : CouponEdited(state)
               \/ DatePasses \/ CronUsers \/ CronSubs
        PROVE  UNCHANGED <<req, overlapped>>
    BY <1>7 DEF CouponEdited, DatePasses, CronUsers, CronSubs, requests
  <1> QED BY <1>1, <1>2, <1>3, <1>4, <1>5, <1>6, <1>7 DEF PaymentsNext

\* No payment is an edit of the lists.
LEMMA PaymentsKeep ==
    ASSUME GoodsInv, PaymentsNext, UNCHANGED shop
    PROVE  GoodsInv'
  <1>1. UNCHANGED goods
    BY DEF shop, goods
  <1>2. \/ req' = req
        \/ \E i \in Slots : \E r : Waits(i, r) /\ r.op # "editWrite"
    BY PaymentRequests DEF PaymentOps
  <1> QED BY <1>1, <1>2, StillKeeps, WaitKeeps

\* A stop ends the edits under way.
LEMMA CrashKeeps ==
    ASSUME GoodsInv, Crash
    PROVE  GoodsInv'
  <1>1. Secured' = Secured /\ UNCHANGED <<owned, paid>>
    BY DEF Crash, goods, Secured
  <1>2. req' = [i \in Slots |-> Idle]
    BY DEF Crash
  <1>3. \A i \in Slots : Keeps(req[i])'
    BY <1>2 DEF Keeps, Idle
  <1>4. req' = [i \in Slots |-> req'[i]]
    BY <1>2
  <1> QED BY <1>1, <1>3, <1>4 DEF GoodsInv

----------------------------------------------------------------------------
LEMMA InitIsGoods == Init => GoodsInv
  <1> SUFFICES ASSUME Init PROVE GoodsInv
    OBVIOUS
  <1>1. paid = [x \in Items |-> 0] /\ req = [i \in Slots |-> Idle]
    BY DEF Init, ShopInit, AccountInit
  <1>2. Secured = {}
    BY <1>1 DEF Secured
  <1>3. \A i \in Slots : Keeps(req[i])
    BY <1>1 DEF Keeps, Idle
  <1> QED BY <1>1, <1>2, <1>3 DEF GoodsInv

LEMMA StepKeepsGoods == GoodsInv /\ [Next]_vars => GoodsInv'
  <1> SUFFICES ASSUME GoodsInv, [Next]_vars PROVE GoodsInv'
    OBVIOUS
  <1>1. CASE UNCHANGED vars
    BY <1>1, StillKeeps DEF vars, requests, shop, goods
  <1> QED BY <1>1, ShopKeeps, PaymentsKeep, CrashKeeps DEF Next

\* What was paid for is in the lists of the inventory (purchaseAvatar, purchaseMode,
\* purchaseTheme), or an administrator was editing them as it was bought
\* (updateUserProgression).
THEOREM PaidForStaysOwned == Spec => []PaidForIsOwned
  <1>1. GoodsInv => PaidForIsOwned
    BY DEF GoodsInv, Secured, PaidForIsOwned
  <1> QED BY <1>1, InitIsGoods, StepKeepsGoods, PTL DEF Spec

----------------------------------------------------------------------------
(* Requests that do not overlap.                                           *)
(*                                                                         *)
(* Until two requests that spend have met, what the one request has read    *)
(* is still true when it uses it: the item it pays for is not paid for, and *)
(* the balance it compares with has only grown.                            *)

\* What a request has made sure of: the coins are c, the diamonds d, and what is paid p.
Claim(r, c, d, p) ==
    /\ r.op \in {"check", "pay"} /\ r.what \in Items => p[r.what] = 0
    /\ r.op = "pay" => (IF r.what \in CoinItems THEN c ELSE d) >= r.price
    /\ r.op = "adminCredit" /\ r.amount < 0 => d + r.amount >= 0

\* A purchase names what it buys.
Names(r) == r.op \in {"look", "check", "pay"} => r.what # None

Exact ==
    /\ coins >= 0 /\ diamonds >= 0 /\ raced = {}
    /\ \A x \in Items : paid[x] <= 1
    /\ \A i \in Slots : Spending(req[i]) => Claim(req[i], coins, diamonds, paid)

AloneInv ==
    /\ coins \in Int /\ diamonds \in Int
    /\ \A i \in Slots : Names(req[i])
    /\ Overlap(req) => overlapped
    /\ ~overlapped => Exact

PurchaseInv == IInv /\ GoodsInv /\ AloneInv

\* Two that spend overlap.
LEMMA TwoOverlap ==
    ASSUME NEW reqs, NEW i \in Slots, NEW j \in Slots, i # j, Spending(reqs[i]), Spending(reqs[j])
    PROVE  Overlap(reqs)
  <1> DEFINE S == {k \in Slots : Spending(reqs[k])}
  <1>1. IsFiniteSet(S)
    <2>1. S \in SUBSET Slots
      OBVIOUS
    <2> QED BY <2>1, AccountAssumption, FS_Subset
  <1>2. {i, j} \in SUBSET S
    OBVIOUS
  <1>3. Cardinality({i, j}) <= Cardinality(S)
    BY <1>1, <1>2, FS_Subset
  <1>4. IsFiniteSet({i}) /\ Cardinality({i}) = 1
    BY FS_Singleton
  <1>5. {i, j} = {i} \cup {j} /\ j \notin {i}
    OBVIOUS
  <1>6. Cardinality({i, j}) = 2
    BY <1>4, <1>5, FS_AddElement
  <1>7. Cardinality(S) \in Nat
    BY <1>1, FS_CardinalityType
  <1> HIDE DEF S
  <1>8. Cardinality(S) > 1
    BY <1>3, <1>6, <1>7
  <1> QED BY <1>8 DEF S, Overlap

\* A request waits: what there is grows, or it spends itself.  Then the others hold what
\* they held, or there are none that spend.
LEMMA ExactKeeps ==
    ASSUME PurchaseInv, NEW i \in Slots, NEW r, Waits(i, r), Names(r),
           coins' \in Int, diamonds' \in Int,
           \/ Spending(req[i]) \/ Spending(r)
           \/ coins <= coins' /\ diamonds <= diamonds' /\ UNCHANGED goods,
           ~overlapped /\ Exact =>
              /\ coins' >= 0 /\ diamonds' >= 0 /\ raced' = {}
              /\ \A x \in Items : paid'[x] <= 1
              /\ Spending(r) => Claim(r, coins', diamonds', paid')
    PROVE  AloneInv'
  <1>1. req' = [j \in Slots |-> IF j = i THEN r ELSE req[j]]
    BY DEF PurchaseInv, GoodsInv, Waits
  <1>2. \A j \in Slots : Names(req'[j])
    BY <1>1 DEF PurchaseInv, AloneInv
  <1>3. \A j \in Slots : Names(req[j])'
    BY <1>2 DEF Names
  <1>4. (Overlap(req) => overlapped)'
    BY DEF Waits, Overlap
  <1>5. ASSUME ~overlapped' PROVE Exact'
    <2>1. ~overlapped /\ Exact /\ ~Overlap(req) /\ ~Overlap(req')
      BY <1>5 DEF Waits, PurchaseInv, AloneInv
    <2>2. ASSUME NEW j \in Slots, Spending(req'[j])
          PROVE  Claim(req'[j], coins', diamonds', paid')
      <3>1. CASE j = i
        BY <1>1, <2>1, <2>2, <3>1
      <3>2. CASE j # i
        <4>1. req'[j] = req[j] /\ Spending(req[j])
          BY <1>1, <2>2, <3>2
        <4>2. ~Spending(req[i])
          BY <2>1, <3>2, <4>1, TwoOverlap
        <4>3. ~Spending(r)
          <5>1. req'[i] = r
            BY <1>1
          <5> QED BY <2>1, <2>2, <3>2, <5>1, TwoOverlap
        <4>4. coins <= coins' /\ diamonds <= diamonds' /\ paid' = paid
          BY <4>2, <4>3 DEF goods
        <4>5. Claim(req[j], coins, diamonds, paid)
          BY <2>1, <4>1 DEF Exact
        <4>6. req[j].op = "pay" => req[j].price \in Int
          BY PricesAssumption DEF PurchaseInv, IInv, RequestsOK, RequestOK, Prices
        <4>7. req[j].op = "adminCredit" => req[j].amount \in Int
          BY PricesAssumption DEF PurchaseInv, IInv, RequestsOK, RequestOK
        <4>8. Claim(req[j], coins', diamonds', paid')
          BY <4>4, <4>5, <4>6, <4>7 DEF Claim, PurchaseInv, AloneInv
        <4> QED BY <4>1, <4>8
      <3> QED BY <3>1, <3>2
    <2>3. \A j \in Slots : (Spending(req[j]) => Claim(req[j], coins, diamonds, paid))'
      BY <2>2 DEF Spending, Claim
    <2> QED BY <2>1, <2>3 DEF Exact
  <1> QED BY <1>3, <1>4, <1>5 DEF AloneInv

\* A step that takes nothing.
LEMMA SameExact ==
    ASSUME PurchaseInv, UNCHANGED <<coins, diamonds, goods>>, NEW i \in Slots, NEW r,
           Waits(i, r), Names(r),
           ~overlapped /\ Exact /\ Spending(r) => Claim(r, coins, diamonds, paid)
    PROVE  AloneInv'
  BY ExactKeeps DEF PurchaseInv, AloneInv, Exact, goods

\* No request at all, while what there is grows.
LEMMA StillExact ==
    ASSUME PurchaseInv, UNCHANGED <<goods, req, overlapped>>,
           coins' \in Int, diamonds' \in Int, coins <= coins', diamonds <= diamonds'
    PROVE  AloneInv'
  <1>1. coins \in Int /\ diamonds \in Int
    BY DEF PurchaseInv, AloneInv
  <1>2. /\ \A i \in Slots : req[i].op = "pay" => req[i].price \in Int
        /\ \A i \in Slots : req[i].op = "adminCredit" => req[i].amount \in Int
    BY PricesAssumption DEF PurchaseInv, IInv, RequestsOK, RequestOK, Prices
  <1>3. ASSUME NEW i \in Slots, Claim(req[i], coins, diamonds, paid)
        PROVE  Claim(req[i], coins', diamonds', paid)
    BY <1>1, <1>2, <1>3 DEF Claim
  <1>4. ASSUME Exact PROVE Exact'
    <2>1. \A i \in Slots : Spending(req[i]) => Claim(req[i], coins', diamonds', paid)
      BY <1>3, <1>4 DEF Exact
    <2>2. \A i \in Slots : (Spending(req[i]) => Claim(req[i], coins, diamonds, paid))'
      BY <2>1 DEF goods, Spending, Claim
    <2> QED BY <1>1, <1>4, <2>2 DEF Exact, goods
  <1> QED BY <1>4 DEF PurchaseInv, AloneInv, Names, Overlap, Spending

\* A request that will spend nothing.
Harmless(r) == r.op \notin Purchases \cup Edits \cup {"adminCredit"}

LEMMA HarmlessExact ==
    ASSUME NEW r, Harmless(r)
    PROVE  Names(r) /\ ~Spending(r)
  BY DEF Harmless, Names, Spending, Purchases, Edits

LEMMA IdleIsHarmless == Harmless(Idle)
  BY DEF Harmless, Idle, Purchases, Edits

LEMMA EndExact ==
    ASSUME PurchaseInv, UNCHANGED <<coins, diamonds, goods>>, NEW i \in Slots, Ends(i)
    PROVE  AloneInv'
  BY IdleIsHarmless, HarmlessExact, SameExact DEF Ends

\* A purchase that finds its prices: an item is looked for first.
LEMMA PricedIsExact ==
    ASSUME NEW x, NEW table, NEW c, NEW d, NEW p
    PROVE  LET r == Priced(x, table) IN Names(r) /\ Claim(r, c, d, p)
  <1>1. CASE x = None
    BY <1>1 DEF Priced, Idle, Names, Claim
  <1>2. CASE x # None /\ x \in Items
    BY <1>2 DEF Priced, Names, Claim
  <1>3. CASE x # None /\ x \notin Items
    BY <1>3 DEF Priced, Names, Claim
  <1> QED BY <1>1, <1>2, <1>3

LEMMA RequestExact ==
    ASSUME PurchaseInv, NEW i \in Slots, NEW x, Request(i, x)
    PROVE  AloneInv'
  <1> DEFINE r == [op |-> "warm", what |-> x, rows |-> overrides]
  <1>1. UNCHANGED <<coins, diamonds, goods>>
    BY DEF Request, user, shop, goods
  <1>2. Waits(i, Priced(x, cache.rows)) \/ Waits(i, r)
    BY DEF Request, Arrives
  <1>3. Names(r) /\ Claim(r, coins, diamonds, paid)
    BY DEF Names, Claim
  <1> HIDE DEF r
  <1> QED BY <1>1, <1>2, <1>3, PricedIsExact, SameExact

LEMMA WarmExact ==
    ASSUME PurchaseInv, NEW i \in Slots, Warm(i)
    PROVE  AloneInv'
  <1>1. UNCHANGED <<coins, diamonds, goods>>
    BY DEF Warm, user, goods
  <1>2. PICK table : Waits(i, Priced(req[i].what, table))
    BY DEF Warm, Goes
  <1> QED BY <1>1, <1>2, PricedIsExact, SameExact

\* The inventory has just been read: what is not on its lists is not paid for.
LEMMA LookExact ==
    ASSUME PurchaseInv, NEW i \in Slots, Look(i)
    PROVE  AloneInv'
  <1> DEFINE x == req[i].what
             r == [op |-> "check", what |-> x, price |-> PriceOf(x, cache.rows)]
  <1>1. UNCHANGED <<coins, diamonds, goods>>
    BY DEF Look, user, shop, goods
  <1>2. CASE Ends(i)
    BY <1>1, <1>2, EndExact
  <1>3. CASE ~Ends(i)
    <2>1. x \notin owned /\ Waits(i, r) /\ req[i].op = "look"
      BY <1>3 DEF Look, Goes
    <2>2. Names(r)
      BY <2>1 DEF PurchaseInv, AloneInv, Names
    <2>3. ASSUME Exact, x \in Items PROVE paid[x] = 0
      BY <2>1, <2>3 DEF Exact, PurchaseInv, GoodsInv, Secured
    <2>4. Exact => Claim(r, coins, diamonds, paid)
      BY <2>3 DEF Claim
    <2> HIDE DEF r, x
    <2> QED BY <1>1, <2>1, <2>2, <2>4, SameExact
  <1> QED BY <1>2, <1>3

\* The balance has just been read.
LEMMA CheckExact ==
    ASSUME PurchaseInv, NEW i \in Slots, Check(i)
    PROVE  AloneInv'
  <1> DEFINE r == [req[i] EXCEPT !.op = "pay"]
  <1>1. UNCHANGED <<coins, diamonds, goods>>
    BY DEF Check, user, shop, goods
  <1>2. CASE Ends(i)
    BY <1>1, <1>2, EndExact
  <1>3. CASE ~Ends(i)
    <2>1. /\ Waits(i, r) /\ req[i].op = "check"
          /\ (IF req[i].what \in CoinItems THEN coins ELSE diamonds) >= req[i].price
      BY <1>3 DEF Check, Goes, Affords
    <2>2. req[i].what # None
      BY <2>1 DEF PurchaseInv, AloneInv, Names
    <2>3. Spending(req[i])
      BY <2>1, <2>2 DEF Spending, Purchases
    <2>4. Exact => Claim(req[i], coins, diamonds, paid)
      BY <2>3 DEF Exact
    <2>5. r.op = "pay" /\ r.what = req[i].what /\ r.price = req[i].price
      OBVIOUS
    <2>6. Names(r)
      BY <2>2, <2>5 DEF Names
    <2>7. Exact => Claim(r, coins, diamonds, paid)
      BY <2>1, <2>4, <2>5 DEF Claim
    <2> HIDE DEF r
    <2> QED BY <1>1, <2>1, <2>6, <2>7, SameExact
  <1> QED BY <1>2, <1>3

\* A purchase that is alone takes what it has seen, for an item that nobody paid for.
LEMMA PayExact ==
    ASSUME PurchaseInv, NEW i \in Slots, Pay(i)
    PROVE  AloneInv'
  <1> DEFINE x == req[i].what
             price == req[i].price
  <1>1. req[i].op = "pay" /\ Waits(i, Idle) /\ price \in Nat
    BY PricesAssumption DEF Pay, PayCoins, PayDiamonds, PayPack, Pays, Ends, PurchaseInv, IInv,
                            RequestsOK, RequestOK, Prices
  <1>2. Spending(req[i])
    BY <1>1 DEF PurchaseInv, AloneInv, Names, Spending, Purchases
  <1>3. coins \in Int /\ diamonds \in Int /\ PackCoins \in Nat
    BY PricesAssumption DEF PurchaseInv, AloneInv
  <1>4. ASSUME ~overlapped, Exact
        PROVE  /\ x \in Items => paid[x] = 0
               /\ (IF x \in CoinItems THEN coins ELSE diamonds) >= price
    BY <1>1, <1>2, <1>4 DEF Exact, Claim
  <1>5. ~overlapped => ~InventoryEditUnderWay
    <2> SUFFICES ASSUME NEW j \in Slots, req[j].op = "editWrite" PROVE overlapped
      BY DEF InventoryEditUnderWay
    <2>1. i # j /\ Spending(req[j])
      BY <1>1 DEF Spending, Edits
    <2> QED BY <1>2, <2>1, TwoOverlap DEF PurchaseInv, AloneInv
  <1>6. coins' \in Int /\ diamonds' \in Int
    BY <1>1, <1>3 DEF Pay, PayCoins, PayDiamonds, PayPack, Books
  <1>7. ASSUME ~overlapped, Exact PROVE coins' >= 0 /\ diamonds' >= 0
    <2>1. (IF x \in CoinItems THEN coins ELSE diamonds) >= price
      BY <1>4, <1>7
    <2>2. coins >= 0 /\ diamonds >= 0
      BY <1>7 DEF Exact
    <2>3. CASE PayCoins(i)
      <3>1. x \in CoinItems /\ coins' = coins - price /\ diamonds' = diamonds
        BY <2>3 DEF PayCoins, Pays
      <3> QED BY <1>1, <1>3, <2>1, <2>2, <3>1
    <2>4. CASE PayDiamonds(i)
      <3>1. x \notin CoinItems /\ diamonds' = diamonds + (-price) /\ coins' = coins
        BY <2>4, PricesAssumption DEF PayDiamonds, Pays, Books
      <3> QED BY <1>1, <1>3, <2>1, <2>2, <3>1
    <2>5. CASE PayPack(i)
      <3>1. x \notin CoinItems /\ diamonds' = diamonds + (-price) /\ coins' = coins + PackCoins
        BY <2>5, PricesAssumption DEF PayPack, Pays, Books
      <3> QED BY <1>1, <1>3, <2>1, <2>2, <3>1
    <2> QED BY <2>3, <2>4, <2>5 DEF Pay
  <1>8. ASSUME ~overlapped, Exact PROVE raced' = {} /\ \A y \in Items : paid'[y] <= 1
    <2>1. CASE PayPack(i)
      BY <1>8, <2>1 DEF PayPack, goods, Exact
    <2>2. CASE PayCoins(i) \/ PayDiamonds(i)
      <3>1. /\ x \in Items /\ paid' = [paid EXCEPT ![x] = @ + 1]
            /\ raced' = IF InventoryEditUnderWay THEN raced \cup {x} ELSE raced \ {x}
        BY <2>2 DEF PayCoins, PayDiamonds, Pays, Bought, Items
      <3>2. raced' = {}
        BY <1>5, <1>8, <3>1 DEF Exact
      <3>3. paid[x] = 0 /\ paid \in [Items -> Nat]
        BY <1>4, <1>8, <3>1 DEF PurchaseInv, GoodsInv
      <3> HIDE DEF x
      <3>4. \A y \in Items : paid'[y] = IF y = x THEN 1 ELSE paid[y]
        BY <3>1, <3>3
      <3> QED BY <1>8, <3>2, <3>4 DEF Exact
    <2> QED BY <2>1, <2>2 DEF Pay
  <1>9. Names(Idle) /\ ~Spending(Idle)
    BY IdleIsHarmless, HarmlessExact
  <1> HIDE DEF x, price
  <1> QED BY <1>1, <1>2, <1>6, <1>7, <1>8, <1>9, ExactKeeps

\* An administrator takes what he has seen to be there; what he gives makes no purchase
\* fail.
LEMMA AdminCreditExact ==
    ASSUME PurchaseInv, NEW i \in Slots, AdminCredit(i) \/ AdminCreditWrite(i)
    PROVE  AloneInv'
  <1>1. CASE AdminCredit(i)
    <2>1. PICK n \in Grants : /\ ~(n < 0 /\ diamonds + n < 0)
                              /\ Waits(i, [op |-> "adminCredit", amount |-> n])
      BY <1>1 DEF AdminCredit, Arrives
    <2> DEFINE r == [op |-> "adminCredit", amount |-> n]
    <2>2. n \in Int /\ diamonds \in Int
      BY PricesAssumption DEF PurchaseInv, AloneInv
    <2>3. n < 0 => diamonds + n >= 0
      BY <2>1, <2>2
    <2>4. Names(r) /\ Claim(r, coins, diamonds, paid)
      BY <2>3 DEF Names, Claim
    <2>5. UNCHANGED <<coins, diamonds, goods>>
      BY <1>1 DEF AdminCredit, user, shop, goods
    <2> HIDE DEF r
    <2> QED BY <2>1, <2>4, <2>5, SameExact DEF r
  <1>2. CASE AdminCreditWrite(i)
    <2> DEFINE n == req[i].amount
    <2>1. /\ Waits(i, Idle) /\ req[i].op = "adminCredit"
          /\ diamonds' = diamonds + n /\ UNCHANGED <<coins, goods>>
      BY <1>2 DEF AdminCreditWrite, Ends, Books, shop, goods
    <2>2. n \in Int /\ diamonds \in Int /\ coins \in Int
      BY <2>1, PricesAssumption DEF PurchaseInv, IInv, RequestsOK, RequestOK, AloneInv
    <2>3. n < 0 => Spending(req[i])
      BY <2>1 DEF Spending
    <2>4. ASSUME ~overlapped, Exact, n < 0 PROVE diamonds + n >= 0
      BY <2>1, <2>3, <2>4 DEF Exact, Claim
    <2> HIDE DEF n
    <2>5. ASSUME ~overlapped, Exact PROVE coins' >= 0 /\ diamonds' >= 0
      <3>1. coins >= 0 /\ diamonds >= 0
        BY <2>5 DEF Exact
      <3> QED BY <2>1, <2>2, <2>4, <2>5, <3>1
    <2>6. ASSUME ~overlapped, Exact PROVE raced' = {} /\ \A x \in Items : paid'[x] <= 1
      BY <2>1, <2>6 DEF Exact, goods
    <2>7. \/ Spending(req[i])
          \/ coins <= coins' /\ diamonds <= diamonds' /\ UNCHANGED goods
      BY <2>1, <2>2, <2>3
    <2>8. Names(Idle) /\ ~Spending(Idle)
      BY IdleIsHarmless, HarmlessExact
    <2>9. coins' \in Int /\ diamonds' \in Int
      BY <2>1, <2>2
    <2> QED BY <2>1, <2>5, <2>6, <2>7, <2>8, <2>9, ExactKeeps
  <1> QED BY <1>1, <1>2

\* An edit of the user counts as spending: what it sets holds when it is alone.
LEMMA EditExact ==
    ASSUME PurchaseInv, NEW i \in Slots, EditUser(i) \/ EditRead(i) \/ EditWrite(i)
    PROVE  AloneInv'
  <1>1. coins \in Int /\ diamonds \in Int /\ InitialCoins \in Nat
    BY AccountAssumption DEF PurchaseInv, AloneInv
  <1>2. CASE EditUser(i)
    <2> DEFINE r == [op |-> "editRead"]
    <2>1. /\ Waits(i, r) /\ coins' \in {coins, InitialCoins} /\ diamonds' = diamonds
          /\ UNCHANGED goods
      BY <1>2 DEF EditUser, Arrives, shop, goods
    <2>2. Names(r) /\ Spending(r) /\ \A c, d, p : Claim(r, c, d, p)
      BY DEF Names, Spending, Edits, Claim
    <2>3. coins' \in Int /\ diamonds' \in Int
      BY <1>1, <2>1
    <2>4. ASSUME Exact
          PROVE  coins' >= 0 /\ diamonds' >= 0 /\ raced' = {} /\ \A x \in Items : paid'[x] <= 1
      BY <1>1, <2>1, <2>4 DEF Exact, goods
    <2> HIDE DEF r
    <2> QED BY <2>1, <2>2, <2>3, <2>4, ExactKeeps
  <1>3. CASE EditRead(i)
    <2>1. UNCHANGED <<coins, diamonds, goods>>
      BY <1>3 DEF EditRead, user, shop, goods
    <2>2. Ends(i) \/ \E l, v : Waits(i, [op |-> "editWrite", lists |-> l, revoked |-> v])
      BY <1>3 DEF EditRead, Goes
    <2>3. ASSUME NEW l, NEW v
          PROVE  LET r == [op |-> "editWrite", lists |-> l, revoked |-> v]
                 IN  Names(r) /\ Claim(r, coins, diamonds, paid)
      BY DEF Names, Claim
    <2> QED BY <2>1, <2>2, <2>3, EndExact, SameExact
  <1>4. CASE EditWrite(i)
    <2>1. /\ Waits(i, Idle) /\ req[i].op = "editWrite" /\ UNCHANGED <<coins, diamonds, raced>>
          /\ paid' = [x \in Items |-> IF x \in req[i].revoked THEN 0 ELSE paid[x]]
      BY <1>4 DEF EditWrite, Ends, user
    <2>2. Spending(req[i])
      BY <2>1 DEF Spending, Edits
    <2>3. ASSUME Exact
          PROVE  coins' >= 0 /\ diamonds' >= 0 /\ raced' = {} /\ \A x \in Items : paid'[x] <= 1
      BY <2>1, <2>3 DEF Exact
    <2>4. Names(Idle) /\ ~Spending(Idle)
      BY IdleIsHarmless, HarmlessExact
    <2>5. coins' \in Int /\ diamonds' \in Int
      BY <1>1, <2>1
    <2> QED BY <2>1, <2>2, <2>3, <2>4, <2>5, ExactKeeps
  <1> QED BY <1>2, <1>3, <1>4

LEMMA PriceEditExact ==
    ASSUME PurchaseInv, NEW i \in Slots, NEW x, SetOverride(i, x) \/ Invalidate(i)
    PROVE  AloneInv'
  <1>1. UNCHANGED <<coins, diamonds, goods>>
    BY DEF SetOverride, Invalidate, user, goods
  <1>2. Waits(i, [op |-> "invalidate"]) \/ Ends(i)
    BY DEF SetOverride, Invalidate, Arrives
  <1>3. Harmless([op |-> "invalidate"])
    BY DEF Harmless, Purchases, Edits
  <1> QED BY <1>1, <1>2, <1>3, EndExact, HarmlessExact, SameExact

LEMMA ShopExact ==
    ASSUME PurchaseInv, ShopNext
    PROVE  AloneInv'
  <1>1. CASE CacheExpires
    BY <1>1, StillExact DEF PurchaseInv, AloneInv, CacheExpires, user, requests
  <1> QED BY <1>1, RequestExact, WarmExact, LookExact, CheckExact, PayExact, AdminCreditExact,
             EditExact, PriceEditExact DEF ShopNext, ShopAnswers

\* A payment only adds to the balance.
LEMMA PaymentsExact ==
    ASSUME PurchaseInv, PaymentsNext, UNCHANGED shop
    PROVE  AloneInv'
  <1>1. UNCHANGED <<coins, goods>>
    BY DEF shop, goods, PaymentsNext, PaymentsAnswers, DiamondCheckout, PremiumCheckout,
           CancelPremium, Notify, NotifyAgain, DiamondPreference, PremiumPreapproval,
           CancelAtProvider, CancelWrite, OrderRead, InvoiceRead, SubUpsert, Credit, Redeem,
           CouponEdited, OrderPaid, SubChanges, Charged, CardAnswers, Becomes, DatePasses,
           CronUsers, CronSubs, user
  <1>2. diamonds \in Int /\ coins \in Int
    BY DEF PurchaseInv, AloneInv
  <1>3. diamonds' = diamonds \/ \E i \in Slots : CreditRow(i)
    BY DEF PaymentsNext, PaymentsAnswers, DiamondCheckout, PremiumCheckout,
           CancelPremium, Notify, NotifyAgain, DiamondPreference, PremiumPreapproval,
           CancelAtProvider, CancelWrite, OrderRead, InvoiceRead, SubUpsert, Credit, CreditFails,
           Redeem, CouponEdited, OrderPaid, SubChanges, Charged, CardAnswers, Becomes, DatePasses,
           CronUsers, CronSubs, user
  <1>4. diamonds' \in Int /\ diamonds <= diamonds'
    <2>1. CASE \E i \in Slots : CreditRow(i)
      <3>1. PICK amount \in Nat : diamonds' = diamonds + amount
        BY <2>1, PaymentsAssumption DEF CreditRow, Books
      <3> QED BY <1>2, <3>1
    <2> QED BY <1>2, <1>3, <2>1
  <1>5. CASE UNCHANGED <<req, overlapped>>
    BY <1>1, <1>2, <1>4, <1>5, StillExact
  <1>6. CASE \E i \in Slots : \E r : Waits(i, r) /\ r.op \in PaymentOps
    <2>0. PICK i \in Slots : \E r : Waits(i, r) /\ r.op \in PaymentOps
      BY <1>6
    <2>1. PICK r : Waits(i, r) /\ r.op \in PaymentOps
      BY <2>0
    <2>2. Names(r) /\ ~Spending(r)
      BY <2>1, HarmlessExact DEF Harmless, PaymentOps, Purchases, Edits
    <2>3. ASSUME Exact
          PROVE  coins' >= 0 /\ diamonds' >= 0 /\ raced' = {} /\ \A x \in Items : paid'[x] <= 1
      BY <1>1, <1>2, <1>4, <2>3 DEF Exact, goods
    <2>4. coins' \in Int /\ coins <= coins'
      BY <1>1, <1>2
    <2> QED BY <1>1, <1>4, <2>1, <2>2, <2>3, <2>4, ExactKeeps
  <1> QED BY <1>5, <1>6, PaymentRequests

LEMMA CrashExact ==
    ASSUME PurchaseInv, Crash
    PROVE  AloneInv'
  <1>1. UNCHANGED <<coins, diamonds, goods, overlapped>> /\ req' = [i \in Slots |-> Idle]
    BY DEF Crash, user
  <1>2. \A i \in Slots : Names(req'[i]) /\ ~Spending(req'[i])
    BY <1>1, IdleIsHarmless, HarmlessExact
  <1>3. \A i \in Slots : Names(req[i])' /\ ~Spending(req[i])'
    BY <1>2 DEF Names, Spending
  <1>4. ~Overlap(req)'
    <2>1. {i \in Slots : Spending(req'[i])} = {}
      BY <1>2
    <2> QED BY <2>1, FS_EmptySet DEF Overlap
  <1> QED BY <1>1, <1>3, <1>4 DEF PurchaseInv, AloneInv, Exact, goods

LEMMA InitIsPurchase == Init => PurchaseInv
  <1> SUFFICES ASSUME Init PROVE PurchaseInv
    OBVIOUS
  <1>1. /\ coins = InitialCoins /\ diamonds = InitialDiamonds /\ ~overlapped /\ raced = {}
        /\ paid = [x \in Items |-> 0] /\ req = [i \in Slots |-> Idle]
    BY DEF Init, ShopInit, AccountInit
  <1>2. \A i \in Slots : Names(req[i]) /\ ~Spending(req[i])
    BY <1>1, IdleIsHarmless, HarmlessExact
  <1>3. ~Overlap(req)
    <2>1. {i \in Slots : Spending(req[i])} = {}
      BY <1>2
    <2> QED BY <2>1, FS_EmptySet DEF Overlap
  <1>4. AloneInv
    BY <1>1, <1>2, <1>3, AccountAssumption DEF AloneInv, Exact
  <1> QED BY <1>4, InitIsFine, InitIsGoods DEF PurchaseInv

LEMMA StepKeepsPurchase == PurchaseInv /\ [Next]_vars => PurchaseInv'
  <1> SUFFICES ASSUME PurchaseInv, [Next]_vars PROVE PurchaseInv'
    OBVIOUS
  <1>1. IInv' /\ GoodsInv'
    BY StepIsFine, StepKeepsGoods DEF PurchaseInv, Fine
  <1>2. CASE UNCHANGED vars
    <2>1. UNCHANGED <<coins, diamonds, goods, req, overlapped>>
      BY <1>2 DEF vars, user, requests, shop, goods
    <2> QED BY <1>1, <2>1, StillExact DEF PurchaseInv, AloneInv
  <1>3. CASE Next
    BY <1>1, <1>3, ShopExact, PaymentsExact, CrashExact DEF Next, PurchaseInv
  <1> QED BY <1>2, <1>3

\* As long as no two requests that spend overlap, no balance becomes negative and nothing
\* is paid for twice (purchaseAvatar, purchaseMode, purchaseTheme, purchaseCoinPack,
\* creditDiamonds, updateUserProgression), whatever webhooks, changes of prices and
\* stops of the server come between the steps of one.
THEOREM AloneStaysExact == Spec => []AloneIsExact
  <1>1. PurchaseInv => AloneIsExact
    BY DEF PurchaseInv, AloneInv, Exact, AloneIsExact
  <1> QED BY <1>1, InitIsPurchase, StepKeepsPurchase, PTL DEF Spec

-----------------------------------------------------------------------------
(***************************************************************************)
(* A payment credits once, and only when it is approved, and uses its       *)
(* coupon at most once, for every number of requests under way.             *)
(*                                                                         *)
(* The uses of a coupon are recorded one step after the credit.  So the     *)
(* invariant counts what is still to be recorded: the uses and the requests *)
(* that are about to add one are never more than the orders credited with   *)
(* the coupon.                                                             *)
(***************************************************************************)
Redeemers == {i \in Slots : req[i].op = "redeem"}
Used      == {p \in withCoupon : rows[p] > 0}

CouponOK ==
    /\ coupon \in [state : {"active", "inactive", "removed"}, uses : Nat]
    /\ redemptions \in Nat /\ redemptions = coupon.uses

OrderOK(r) == r.op = "checkout" => r.order \in Orders

Counted == redemptions + Cardinality(Redeemers) <= Cardinality(Used)

OnceInv ==
    /\ IInv
    /\ Credited \subseteq Approved /\ \A x \in Credits : rows[x] <= 1
    /\ withCoupon \subseteq Orders /\ CouponOK
    /\ \A i \in Slots : OrderOK(req[i])
    /\ Counted

\* What every step is known to do: it keeps the invariant of EconomyProofs, and what is
\* credited is approved, since it is a step of Ledger.
Known == OnceInv /\ Fine

----------------------------------------------------------------------------
(* Counting.                                                               *)

LEMMA SetsAreFinite ==
    ASSUME OnceInv
    PROVE  /\ IsFiniteSet(Redeemers) /\ IsFiniteSet(Used)
           /\ Cardinality(Redeemers) \in Nat /\ Cardinality(Used) \in Nat
  <1>1. Redeemers \in SUBSET Slots /\ IsFiniteSet(Slots)
    BY AccountAssumption DEF Redeemers
  <1>2. Used \in SUBSET Orders /\ IsFiniteSet(Orders)
    BY PaymentsAssumption DEF OnceInv, Used
  <1>3. IsFiniteSet(Redeemers) /\ IsFiniteSet(Used)
    BY <1>1, <1>2, FS_Subset
  <1> QED BY <1>3, FS_CardinalityType

\* A step of Ledger credits only what is approved.
LEMMA CreditedIsApproved ==
    ASSUME Known
    PROVE  Credited' \subseteq Approved'
  <1>1. Credited \subseteq Approved
    BY DEF Known, OnceInv
  <1>2. CASE UNCHANGED Abstract!vars
    BY <1>1, <1>2 DEF Abstract!vars, Credited, Approved
  <1>3. CASE Abstract!Next
    BY <1>1, <1>3 DEF Abstract!Next, Abstract!Approve, Abstract!Credit, Abstract!Sell,
                      Abstract!Grant, Credited, Approved
  <1> QED BY <1>2, <1>3 DEF Known, Fine

\* A step that credits nothing and records nothing keeps the count, if no request starts to
\* wait for its use to be recorded.
LEMMA FewerKeeps ==
    ASSUME Known, rows' = rows, withCoupon \subseteq withCoupon', withCoupon' \subseteq Orders,
           CouponOK', redemptions' <= redemptions, Redeemers' \subseteq Redeemers,
           \A i \in Slots : OrderOK(req'[i])
    PROVE  OnceInv'
  <1>1. /\ IsFiniteSet(Redeemers) /\ Cardinality(Redeemers) \in Nat
        /\ Cardinality(Used) \in Nat /\ redemptions \in Nat /\ redemptions' \in Nat
    BY SetsAreFinite DEF Known, OnceInv, CouponOK
  <1>2. Cardinality(Redeemers') \in Nat /\ Cardinality(Redeemers') <= Cardinality(Redeemers)
    <2>1. Redeemers' \in SUBSET Redeemers
      OBVIOUS
    <2>2. IsFiniteSet(Redeemers') /\ Cardinality(Redeemers') <= Cardinality(Redeemers)
      BY <1>1, <2>1, FS_Subset
    <2> QED BY <2>2, FS_CardinalityType
  <1>3. Cardinality(Used') \in Nat /\ Cardinality(Used) <= Cardinality(Used')
    <2>1. Used' \in SUBSET Orders /\ IsFiniteSet(Orders)
      BY PaymentsAssumption DEF Used
    <2>2. IsFiniteSet(Used') /\ Used \in SUBSET Used'
      BY <2>1, FS_Subset DEF Used
    <2> QED BY <2>2, FS_Subset, FS_CardinalityType
  <1>4. Counted'
    BY <1>1, <1>2, <1>3 DEF Known, OnceInv, Counted
  <1>5. \A i \in Slots : OrderOK(req[i])'
    BY DEF OrderOK
  <1>6. IInv' /\ Credited' \subseteq Approved'
    BY CreditedIsApproved DEF Known, Fine
  <1> QED BY <1>4, <1>5, <1>6 DEF Known, OnceInv

\* Most steps let one request go on, and it is not one that will record a use.
Plain(r) == r.op # "redeem" /\ OrderOK(r)

Untouched == UNCHANGED <<rows, withCoupon, coupons>>

LEMMA PlainKeeps ==
    ASSUME Known, UNCHANGED rows, withCoupon \subseteq withCoupon', withCoupon' \subseteq Orders,
           CouponOK', redemptions' <= redemptions,
           req' = req \/ \E i \in Slots : \E r : Waits(i, r) /\ Plain(r)
    PROVE  OnceInv'
  <1>1. CASE req' = req
    BY <1>1, FewerKeeps DEF Known, OnceInv, Redeemers
  <1>2. CASE \E i \in Slots : \E r : Waits(i, r) /\ Plain(r)
    <2>0. PICK i \in Slots : \E r : Waits(i, r) /\ Plain(r)
      BY <1>2
    <2>1. PICK r : Waits(i, r) /\ Plain(r)
      BY <2>0
    <2>2. req' = [j \in Slots |-> IF j = i THEN r ELSE req[j]]
      BY <2>1 DEF Waits, Known, OnceInv, IInv, RequestsOK
    <2>3. Redeemers' \subseteq Redeemers
      BY <2>1, <2>2 DEF Redeemers, Plain
    <2>4. \A j \in Slots : OrderOK(req'[j])
      BY <2>1, <2>2 DEF Plain, Known, OnceInv
    <2> QED BY <2>3, <2>4, FewerKeeps
  <1> QED BY <1>1, <1>2

LEMMA UntouchedKeeps ==
    ASSUME Known, Untouched,
           req' = req \/ \E i \in Slots : \E r : Waits(i, r) /\ Plain(r)
    PROVE  OnceInv'
  <1>1. CouponOK' /\ redemptions' <= redemptions
    BY DEF Known, OnceInv, CouponOK, Untouched, coupons
  <1> QED BY <1>1, PlainKeeps DEF Known, OnceInv, Untouched

\* A request that has ended is one of these.
LEMMA IdleIsPlain == Plain(Idle)
  BY DEF Plain, OrderOK, Idle

----------------------------------------------------------------------------
(* The shop.                                                               *)

LEMMA ShopRequestsArePlain ==
    ASSUME ShopNext
    PROVE  req' = req \/ \E i \in Slots : \E r : Waits(i, r) /\ Plain(r)
  <1>1. \A x, table : Plain(Priced(x, table))
    BY DEF Plain, OrderOK, Priced, Idle
  <1>2. CASE CacheExpires
    BY <1>2 DEF CacheExpires, requests
  <1>3. CASE \E i \in Slots : \E x : Request(i, x) \/ SetOverride(i, x)
    <2>0. PICK i \in Slots : \E x : Request(i, x) \/ SetOverride(i, x)
      BY <1>3
    <2>1. PICK x : Request(i, x) \/ SetOverride(i, x)
      BY <2>0
    <2>2. \/ Waits(i, Priced(x, cache.rows))
          \/ Waits(i, [op |-> "warm", what |-> x, rows |-> overrides])
          \/ Waits(i, [op |-> "invalidate"])
      BY <2>1 DEF Request, SetOverride, Arrives
    <2>3. /\ Plain([op |-> "warm", what |-> x, rows |-> overrides])
          /\ Plain([op |-> "invalidate"])
      BY DEF Plain, OrderOK
    <2> QED BY <1>1, <2>2, <2>3
  <1>4. CASE \E i \in Slots : AdminCredit(i) \/ EditUser(i)
    <2>1. PICK i \in Slots : AdminCredit(i) \/ EditUser(i)
      BY <1>4
    <2>2. Waits(i, [op |-> "editRead"]) \/ \E n : Waits(i, [op |-> "adminCredit", amount |-> n])
      BY <2>1 DEF AdminCredit, EditUser, Arrives
    <2>3. Plain([op |-> "editRead"]) /\ \A n : Plain([op |-> "adminCredit", amount |-> n])
      BY DEF Plain, OrderOK
    <2> QED BY <2>2, <2>3
  <1>5. CASE \E i \in Slots : ShopAnswers(i)
    <2>1. PICK i \in Slots : ShopAnswers(i)
      BY <1>5
    <2>2. CASE \/ Ends(i)
               \/ \E x, table : Waits(i, Priced(x, table))
               \/ \E x, p : Waits(i, [op |-> "check", what |-> x, price |-> p])
               \/ \E l, v : Waits(i, [op |-> "editWrite", lists |-> l, revoked |-> v])
      <3>1. /\ \A x, p : Plain([op |-> "check", what |-> x, price |-> p])
            /\ \A l, v : Plain([op |-> "editWrite", lists |-> l, revoked |-> v])
        BY DEF Plain, OrderOK
      <3> QED BY <1>1, <2>2, <3>1, IdleIsPlain DEF Ends
    <2>3. CASE req[i].op = "check" /\ Waits(i, [req[i] EXCEPT !.op = "pay"])
      <3>1. Plain([req[i] EXCEPT !.op = "pay"])
        BY <2>3 DEF Plain, OrderOK
      <3> QED BY <2>3, <3>1
    <2>4. CASE Warm(i)
      BY <2>2, <2>4 DEF Warm, Goes
    <2>5. CASE Look(i)
      BY <2>2, <2>5 DEF Look, Goes
    <2>6. CASE Check(i)
      BY <2>2, <2>3, <2>6 DEF Check, Goes
    <2>7. CASE EditRead(i)
      BY <2>2, <2>7 DEF EditRead, Goes
    <2>8. CASE Pay(i) \/ Invalidate(i) \/ AdminCreditWrite(i) \/ EditWrite(i)
      BY <2>2, <2>8 DEF Pay, PayCoins, PayDiamonds, PayPack, Pays, Invalidate,
                        AdminCreditWrite, EditWrite
    <2> QED BY <2>1, <2>4, <2>5, <2>6, <2>7, <2>8 DEF ShopAnswers
  <1> QED BY <1>2, <1>3, <1>4, <1>5 DEF ShopNext

LEMMA ShopKeepsOnce ==
    ASSUME Known, ShopNext, UNCHANGED payments
    PROVE  OnceInv'
  BY ShopRequestsArePlain, UntouchedKeeps DEF Untouched, payments, externals

----------------------------------------------------------------------------
(* The payments.                                                           *)

\* Checkouts, cancellations and notifications.
LEMMA AskingKeepsOnce ==
    ASSUME Known, NEW i \in Slots,
           \/ \E p \in Orders : DiamondCheckout(i, p)
           \/ \E s : PremiumCheckout(i, s) \/ CancelPremium(i, s)
           \/ \E x : Notify(i, x) \/ NotifyAgain(i, x)
    PROVE  OnceInv'
  <1>1. Untouched
    BY DEF DiamondCheckout, PremiumCheckout, CancelPremium, Notify, NotifyAgain, payments,
           externals, Untouched
  <1>2. CASE \E p \in Orders : DiamondCheckout(i, p)
    <2>0. PICK p \in Orders : DiamondCheckout(i, p)
      BY <1>2
    <2>1. PICK c : Waits(i, [op |-> "checkout", order |-> p, coupon |-> c])
      BY <2>0 DEF DiamondCheckout, Arrives
    <2>2. Plain([op |-> "checkout", order |-> p, coupon |-> c])
      BY DEF Plain, OrderOK
    <2> QED BY <1>1, <2>1, <2>2, UntouchedKeeps
  <1>3. CASE \E s : PremiumCheckout(i, s) \/ CancelPremium(i, s)
    <2>1. PICK s : \/ Waits(i, [op |-> "subscribe", sub |-> s])
                  \/ Waits(i, [op |-> "cancel", sub |-> s])
      BY <1>3 DEF PremiumCheckout, CancelPremium, Arrives
    <2>2. Plain([op |-> "subscribe", sub |-> s]) /\ Plain([op |-> "cancel", sub |-> s])
      BY DEF Plain, OrderOK
    <2> QED BY <1>1, <2>1, <2>2, UntouchedKeeps
  <1>4. CASE \E x : Notify(i, x) \/ NotifyAgain(i, x)
    <2>1. PICK x : \/ req' = req
                  \/ Waits(i, [op |-> "notified", id |-> x, state |-> provider[x]])
      BY <1>4 DEF Notify, NotifyAgain, Fetches, FetchFails, Arrives
    <2>2. Plain([op |-> "notified", id |-> x, state |-> provider[x]])
      BY DEF Plain, OrderOK
    <2> QED BY <1>1, <2>1, <2>2, UntouchedKeeps
  <1> QED BY <1>2, <1>3, <1>4

\* A preference may name the coupon; its order is not credited yet, or it counts.
LEMMA PreferenceKeepsOnce ==
    ASSUME Known, NEW i \in Slots, DiamondPreference(i)
    PROVE  OnceInv'
  <1>1. /\ Waits(i, Idle) /\ UNCHANGED <<rows, coupons>>
        /\ withCoupon' = withCoupon \/ withCoupon' = withCoupon \cup {req[i].order}
        /\ req[i].op = "checkout"
    BY DEF DiamondPreference, Ends
  <1>2. req[i].order \in Orders
    BY <1>1 DEF Known, OnceInv, OrderOK
  <1>3. CouponOK' /\ redemptions' <= redemptions
    BY <1>1 DEF Known, OnceInv, CouponOK, coupons
  <1>4. withCoupon \subseteq withCoupon' /\ withCoupon' \subseteq Orders
    BY <1>1, <1>2 DEF Known, OnceInv
  <1> QED BY <1>1, <1>3, <1>4, IdleIsPlain, PlainKeeps

LEMMA AnswersKeepOnce ==
    ASSUME Known, NEW i \in Slots,
           \/ PremiumPreapproval(i) \/ CancelAtProvider(i) \/ CancelWrite(i)
           \/ OrderRead(i) \/ InvoiceRead(i) \/ SubUpsert(i)
           \/ Credit(i) /\ CreditFails(i)
    PROVE  OnceInv'
  <1>1. Untouched
    BY DEF PremiumPreapproval, CancelAtProvider, CancelWrite, OrderRead, InvoiceRead, SubUpsert,
           Credit, CreditFails, payments, externals, Untouched
  <1>2. \/ Ends(i)
        \/ Waits(i, [op |-> "cancelled", sub |-> req[i].sub])
        \/ Waits(i, [op |-> "credit", id |-> req[i].id])
    BY DEF PremiumPreapproval, CancelAtProvider, CancelWrite, OrderRead, InvoiceRead, SubUpsert,
           CreditFails, Goes
  <1>3. /\ Plain([op |-> "cancelled", sub |-> req[i].sub])
        /\ Plain([op |-> "credit", id |-> req[i].id])
    BY DEF Plain, OrderOK
  <1> QED BY <1>1, <1>2, <1>3, IdleIsPlain, UntouchedKeeps DEF Ends

\* The transaction: the unique column lets it insert a row only once.  An order with the
\* coupon joins the used ones together with the request that will record it.
LEMMA CreditKeepsOnce ==
    ASSUME Known, NEW i \in Slots, Credit(i), CreditRow(i)
    PROVE  OnceInv'
  <1> DEFINE x == req[i].id
  <1>1. /\ rows' = [rows EXCEPT ![x] = @ + 1] /\ rows[x] = 0 /\ req[i].op = "credit"
        /\ UNCHANGED <<withCoupon, coupons>>
    BY DEF Credit, CreditRow, Insertable, externals
  <1>2. x \in Credits /\ rows \in [Credits -> Nat]
    BY <1>1 DEF Known, OnceInv, IInv, RequestsOK, RequestOK, DataOK, Approved
  <1>3. PICK r : /\ Waits(i, r) /\ OrderOK(r)
                 /\ IF x \in withCoupon THEN r = [op |-> "redeem", id |-> x] ELSE r = Idle
    <2>1. OrderOK([op |-> "redeem", id |-> x]) /\ OrderOK(Idle)
      BY DEF OrderOK, Idle
    <2>2. IF x \in withCoupon THEN Waits(i, [op |-> "redeem", id |-> x]) ELSE Waits(i, Idle)
      BY DEF CreditRow, Goes, Ends
    <2> QED BY <2>1, <2>2
  <1>4. r.op = "redeem" <=> x \in withCoupon
    BY <1>3 DEF Idle
  <1> HIDE DEF x
  <1>5. \A y \in Credits : rows'[y] = IF y = x THEN 1 ELSE rows[y]
    BY <1>1, <1>2
  <1>6. req' = [j \in Slots |-> IF j = i THEN r ELSE req[j]]
    BY <1>3 DEF Waits, Known, OnceInv, IInv, RequestsOK
  <1>7. i \notin Redeemers /\ x \notin Used
    BY <1>1 DEF Redeemers, Used
  <1>8. /\ IsFiniteSet(Redeemers) /\ IsFiniteSet(Used)
        /\ Cardinality(Redeemers) \in Nat /\ Cardinality(Used) \in Nat /\ redemptions \in Nat
    BY SetsAreFinite DEF Known, OnceInv, CouponOK
  <1>9. Counted'
    <2>1. CASE x \in withCoupon
      <3>1. Redeemers' = Redeemers \cup {i}
        BY <1>4, <1>6, <2>1 DEF Redeemers
      <3>2. Used' = Used \cup {x}
        BY <1>1, <1>2, <1>5, <2>1 DEF Used, Known, OnceInv, Credits
      <3>3. /\ Cardinality(Redeemers') = Cardinality(Redeemers) + 1
            /\ Cardinality(Used') = Cardinality(Used) + 1
        BY <1>7, <1>8, <3>1, <3>2, FS_AddElement
      <3> QED BY <1>1, <1>8, <3>3 DEF Counted, Known, OnceInv, coupons
    <2>2. CASE x \notin withCoupon
      <3>1. Redeemers' = Redeemers
        BY <1>4, <1>6, <1>7, <2>2 DEF Redeemers
      <3>2. Used' = Used
        BY <1>1, <1>5, <2>2 DEF Used, Known, OnceInv, Credits
      <3> QED BY <1>1, <3>1, <3>2 DEF Counted, Known, OnceInv, coupons
    <2> QED BY <2>1, <2>2
  <1>10. \A y \in Credits : rows'[y] <= 1
    BY <1>5 DEF Known, OnceInv
  <1>11. \A j \in Slots : OrderOK(req[j])'
    BY <1>3, <1>6 DEF Known, OnceInv, OrderOK
  <1>12. IInv' /\ Credited' \subseteq Approved'
    BY CreditedIsApproved DEF Known, Fine
  <1>13. CouponOK'
    BY <1>1 DEF Known, OnceInv, CouponOK, coupons
  <1> QED BY <1>1, <1>9, <1>10, <1>11, <1>12, <1>13 DEF Known, OnceInv

\* A use is recorded by a request that stood for it.
LEMMA RedeemKeepsOnce ==
    ASSUME Known, NEW i \in Slots, Redeem(i)
    PROVE  OnceInv'
  <1>1. Waits(i, Idle) /\ req[i].op = "redeem" /\ UNCHANGED <<rows, withCoupon>>
    BY DEF Redeem, Ends, externals
  <1>2. CASE UNCHANGED coupons
    BY <1>1, <1>2, IdleIsPlain, UntouchedKeeps DEF Untouched
  <1>3. CASE coupon' = [coupon EXCEPT !.uses = @ + 1] /\ redemptions' = redemptions + 1
    <2>1. CouponOK'
      BY <1>3 DEF Known, OnceInv, CouponOK
    <2>2. req' = [j \in Slots |-> IF j = i THEN Idle ELSE req[j]]
      BY <1>1 DEF Waits, Known, OnceInv, IInv, RequestsOK
    <2>3. Redeemers' = Redeemers \ {i} /\ i \in Redeemers
      BY <1>1, <2>2 DEF Redeemers, Idle
    <2>4. Cardinality(Redeemers') = Cardinality(Redeemers) - 1
      BY <2>3, SetsAreFinite, FS_RemoveElement DEF Known
    <2>5. Used' = Used
      BY <1>1 DEF Used
    <2>6. Counted'
      BY <1>3, <2>4, <2>5, SetsAreFinite DEF Counted, Known, OnceInv, CouponOK
    <2>7. \A j \in Slots : OrderOK(req[j])'
      BY <2>2 DEF Known, OnceInv, OrderOK, Idle
    <2>8. IInv' /\ Credited' \subseteq Approved'
      BY CreditedIsApproved DEF Known, Fine
    <2> QED BY <1>1, <2>1, <2>6, <2>7, <2>8 DEF Known, OnceInv
  <1> QED BY <1>2, <1>3 DEF Redeem

\* What nobody asked for: the provider, the administrator of coupons, time.
LEMMA OutsideKeepsOnce ==
    ASSUME Known,
           \/ \E p \in Orders : OrderPaid(p)
           \/ \E s \in Subs : SubChanges(s)
           \/ \E a \in Invoices : Charged(a)
           \/ \E state \in {"active", "inactive", "removed"} : CouponEdited(state)
           \/ DatePasses \/ CronUsers \/ CronSubs
    PROVE  OnceInv'
  <1>1. CASE \E state \in {"active", "inactive", "removed"} : CouponEdited(state)
    <2>1. req' = req /\ UNCHANGED <<rows, withCoupon>>
      BY <1>1 DEF CouponEdited, externals
    <2>2. PICK state \in {"active", "inactive", "removed"} :
             \/ coupon' = [state |-> state, uses |-> 0] /\ redemptions' = 0
             \/ coupon' = [coupon EXCEPT !.state = state] /\ redemptions' = redemptions
      BY <1>1 DEF CouponEdited
    <2>3. CouponOK' /\ redemptions' <= redemptions
      BY <2>2 DEF Known, OnceInv, CouponOK
    <2> QED BY <2>1, <2>3, PlainKeeps DEF Known, OnceInv
  <1>2. CASE DatePasses \/ CronUsers \/ CronSubs
    BY <1>2, UntouchedKeeps DEF DatePasses, CronUsers, CronSubs, requests, payments, externals,
                                Untouched
  <1>3. CASE \/ \E p \in Orders : OrderPaid(p)
             \/ \E s \in Subs : SubChanges(s)
             \/ \E a \in Invoices : Charged(a)
    BY <1>3, UntouchedKeeps DEF OrderPaid, SubChanges, Charged, CardAnswers, Becomes, requests,
                                Untouched
  <1> QED BY <1>1, <1>2, <1>3

LEMMA PaymentsKeepOnce ==
    ASSUME Known, PaymentsNext
    PROVE  OnceInv'
  <1>1. ASSUME NEW i \in Slots, Credit(i) PROVE OnceInv'
    BY <1>1, CreditKeepsOnce, AnswersKeepOnce DEF Credit
  <1> QED BY <1>1, AskingKeepsOnce, PreferenceKeepsOnce, AnswersKeepOnce, RedeemKeepsOnce,
             OutsideKeepsOnce DEF PaymentsNext, PaymentsAnswers

\* A stop between the credit and the record of the use loses the use, and nothing else.
LEMMA CrashKeepsOnce ==
    ASSUME Known, Crash
    PROVE  OnceInv'
  <1>1. /\ req' = [i \in Slots |-> Idle]
        /\ UNCHANGED <<rows, withCoupon, coupons>>
    BY DEF Crash
  <1>2. Redeemers' = {} /\ \A i \in Slots : OrderOK(req'[i])
    BY <1>1 DEF Redeemers, OrderOK, Idle
  <1>3. CouponOK' /\ redemptions' <= redemptions
    BY <1>1 DEF Known, OnceInv, CouponOK, coupons
  <1> QED BY <1>1, <1>2, <1>3, FewerKeeps DEF Known, OnceInv

----------------------------------------------------------------------------
(* The theorem.                                                            *)

LEMMA InitIsOnce == Init => OnceInv
  <1> SUFFICES ASSUME Init PROVE OnceInv
    OBVIOUS
  <1>1. \A x \in Credits : rows[x] = 0
    BY DEF Init, PaymentsInit
  <1>2. CouponOK /\ withCoupon = {} /\ redemptions = 0
    BY DEF Init, PaymentsInit, CouponOK
  <1>3. \A i \in Slots : req[i] = Idle
    BY DEF Init, AccountInit
  <1>4. Redeemers = {} /\ Used = {} /\ \A i \in Slots : OrderOK(req[i])
    BY <1>2, <1>3 DEF Redeemers, Used, OrderOK, Idle
  <1>5. Counted
    BY <1>2, <1>4, FS_EmptySet DEF Counted
  <1>6. Credited = {}
    BY <1>1 DEF Credited
  <1> QED BY <1>1, <1>2, <1>4, <1>5, <1>6, InitIsFine DEF OnceInv

LEMMA StepKeepsOnce == OnceInv /\ [Next]_vars => OnceInv'
  <1> SUFFICES ASSUME OnceInv, [Next]_vars PROVE OnceInv'
    OBVIOUS
  <1>1. Known
    BY StepIsFine DEF Known, OnceInv
  <1>2. CASE UNCHANGED vars
    BY <1>1, <1>2, UntouchedKeeps DEF vars, requests, payments, externals, Untouched
  <1> QED BY <1>1, <1>2, ShopKeepsOnce, PaymentsKeepOnce, CrashKeepsOnce DEF Next

\* "Webhook replay: idempotência": a payment is credited once at most, and only when it is
\* approved; and the coupon of an order counts one use of it at most
\* (handleDiamondPaymentApproved, handleAuthorizedPayment, recordRedemption).
THEOREM PaymentsCreditOnce == Spec => []OncePerPayment
  <1>1. Init => OnceInv
    BY InitIsOnce
  <1>2. OnceInv /\ [Next]_vars => OnceInv'
    BY StepKeepsOnce
  <1>3. OnceInv => OncePerPayment
    <2> SUFFICES ASSUME OnceInv PROVE OncePerPayment
      OBVIOUS
    <2>1. \A x \in Credits : rows[x] <= 1 /\ (rows[x] = 1 => provider[x] = "approved")
      BY DEF OnceInv, Credited, Approved
    <2>2. redemptions = coupon.uses /\ redemptions <= Cardinality(Used)
      BY SetsAreFinite DEF OnceInv, Counted, CouponOK
    <2> QED BY <2>1, <2>2 DEF OncePerPayment, Used
  <1> QED BY <1>1, <1>2, <1>3, PTL DEF Spec

----------------------------------------------------------------------------
(* The type of the state.                                                  *)
(*                                                                         *)
(* A subscription has a status exactly when it has a date.  For this to be   *)
(* inductive, a cancellation that is under way must be of a subscription    *)
(* that has both: it writes the status alone.                              *)

Dates    == {None, "ahead", "past"}
KnownSubs == {s \in Subs : sub[s].status # None}

NumbersTyped ==
    /\ coins \in Int /\ diamonds \in Int /\ booked \in Int /\ isPremium \in BOOLEAN
    /\ calls \in 0 .. MaxCalls /\ crashes \in 0 .. MaxCrashes /\ overlapped \in BOOLEAN

ThingsTyped ==
    /\ owned \subseteq Items /\ raced \subseteq Items /\ paid \in [Items -> Nat]

PaymentsTyped ==
    /\ due \subseteq Entities /\ lost \subseteq Credits /\ expiresAt \in Dates
    /\ sub \in [Subs -> [status : {None, "ACTIVE", "CANCELLED", "PAST_DUE", "EXPIRED"}, expiresAt : Dates]]
    /\ \A s \in Subs : sub[s].status = None <=> sub[s].expiresAt = None

\* What a request holds, when these subscriptions are known.
Holds(r, known) ==
    /\ r.op = "notified" => r.id \in Entities
    /\ r.op = "redeem" => r.id \in Credits
    /\ r.op = "subscribe" => r.sub \in Subs
    /\ r.op \in {"cancel", "cancelled"} => r.sub \in known
    /\ r.op = "editWrite" => r.lists \subseteq Items

TypeInv ==
    /\ OnceInv /\ NumbersTyped /\ ThingsTyped /\ PaymentsTyped
    /\ \A i \in Slots : Holds(req[i], KnownSubs)

\* A request goes on, and no subscription becomes unknown.
LEMMA HoldsKeeps ==
    ASSUME TypeInv, KnownSubs \subseteq KnownSubs',
           req' = req \/ \E i \in Slots : \E r : Waits(i, r) /\ Holds(r, KnownSubs')
    PROVE  \A i \in Slots : Holds(req[i], KnownSubs)'
  <1>1. CASE req' = req
    BY <1>1 DEF TypeInv, Holds
  <1>2. CASE \E i \in Slots : \E r : Waits(i, r) /\ Holds(r, KnownSubs')
    <2>0. PICK i \in Slots : \E r : Waits(i, r) /\ Holds(r, KnownSubs')
      BY <1>2
    <2>1. PICK r : Waits(i, r) /\ Holds(r, KnownSubs')
      BY <2>0
    <2>2. req' = [j \in Slots |-> IF j = i THEN r ELSE req[j]]
      BY <2>1 DEF Waits, TypeInv, OnceInv, IInv, RequestsOK
    <2>3. \A j \in Slots : Holds(req'[j], KnownSubs')
      BY <2>1, <2>2 DEF TypeInv, Holds
    <2> QED BY <2>3 DEF Holds
  <1> QED BY <1>1, <1>2

LEMMA IdleHolds == \A known : Holds(Idle, known)
  BY DEF Holds, Idle

\* The bounds and the histories of requests.
LEMMA WaitsTyped ==
    ASSUME TypeInv, NEW i \in Slots, NEW r, Waits(i, r)
    PROVE  overlapped' \in BOOLEAN
  BY DEF Waits, TypeInv, NumbersTyped

LEMMA ArrivesTyped ==
    ASSUME TypeInv, NEW i \in Slots, NEW r, Arrives(i, r)
    PROVE  calls' \in 0 .. MaxCalls /\ overlapped' \in BOOLEAN
  BY WaitsTyped, AccountAssumption DEF Arrives, TypeInv, NumbersTyped

\* Enough for a step of the shop: the payments keep their type.
LEMMA ShopTyped ==
    ASSUME TypeInv, OnceInv', UNCHANGED <<payments, crashes>>, NumbersTyped', ThingsTyped',
           req' = req \/ \E i \in Slots : \E r : Waits(i, r) /\ Holds(r, KnownSubs)
    PROVE  TypeInv'
  <1>1. UNCHANGED <<due, lost, expiresAt, sub>> /\ KnownSubs' = KnownSubs
    BY DEF payments, externals, premium, KnownSubs
  <1>2. PaymentsTyped'
    BY <1>1 DEF TypeInv, PaymentsTyped
  <1> QED BY <1>1, <1>2, HoldsKeeps DEF TypeInv

LEMMA BrowseTyped ==
    ASSUME TypeInv, OnceInv', UNCHANGED <<payments, crashes>>, NEW i \in Slots,
           \/ \E x : Request(i, x) \/ SetOverride(i, x)
           \/ Warm(i) \/ Look(i) \/ Check(i) \/ Invalidate(i) \/ AdminCredit(i)
    PROVE  TypeInv'
  <1>1. UNCHANGED <<coins, diamonds, booked, isPremium, goods>>
    BY DEF Request, SetOverride, Warm, Look, Check, Invalidate, AdminCredit, user, shop, goods
  <1>2. \A x, table : Holds(Priced(x, table), KnownSubs)
    BY DEF Holds, Priced, Idle
  <1>3. PICK r : /\ Waits(i, r) /\ Holds(r, KnownSubs)
                 /\ Arrives(i, r) \/ UNCHANGED calls
    <2>1. CASE \E x : Request(i, x)
      <3>1. PICK x : Request(i, x)
        BY <2>1
      <3>2. Holds([op |-> "warm", what |-> x, rows |-> overrides], KnownSubs)
        BY DEF Holds
      <3> QED BY <1>2, <3>1, <3>2 DEF Request, Arrives
    <2>2. CASE \E x : SetOverride(i, x)
      <3>1. Holds([op |-> "invalidate"], KnownSubs)
        BY DEF Holds
      <3> QED BY <2>2, <3>1 DEF SetOverride, Arrives
    <2>3. CASE Warm(i)
      BY <1>2, <2>3 DEF Warm, Goes
    <2>4. CASE Look(i)
      <3>1. Holds([op |-> "check", what |-> req[i].what, price |-> PriceOf(req[i].what, cache.rows)], KnownSubs)
        BY DEF Holds
      <3> QED BY <2>4, <3>1, IdleHolds DEF Look, Goes, Ends
    <2>5. CASE Check(i)
      <3>1. req[i].op = "check"
        BY <2>5 DEF Check
      <3>2. Holds([req[i] EXCEPT !.op = "pay"], KnownSubs)
        BY <3>1 DEF Holds
      <3> QED BY <2>5, <3>2, IdleHolds DEF Check, Goes, Ends
    <2>6. CASE Invalidate(i)
      BY <2>6, IdleHolds DEF Invalidate, Ends
    <2>7. CASE AdminCredit(i)
      <3>1. PICK n : Arrives(i, [op |-> "adminCredit", amount |-> n])
        BY <2>7 DEF AdminCredit
      <3>2. Holds([op |-> "adminCredit", amount |-> n], KnownSubs)
        BY DEF Holds
      <3> QED BY <3>1, <3>2 DEF Arrives
    <2> QED BY <2>1, <2>2, <2>3, <2>4, <2>5, <2>6, <2>7
  <1>4. NumbersTyped'
    BY <1>1, <1>3, WaitsTyped, ArrivesTyped DEF TypeInv, NumbersTyped
  <1>5. ThingsTyped'
    BY <1>1 DEF TypeInv, ThingsTyped, goods
  <1> QED BY <1>3, <1>4, <1>5, ShopTyped

LEMMA PayTyped ==
    ASSUME TypeInv, OnceInv', UNCHANGED <<payments, crashes>>, NEW i \in Slots,
           Pay(i) \/ AdminCreditWrite(i)
    PROVE  TypeInv'
  <1>1. Waits(i, Idle) /\ UNCHANGED <<calls, isPremium>>
    BY DEF Pay, PayCoins, PayDiamonds, PayPack, Pays, AdminCreditWrite, Ends
  <1>2. /\ req[i].op = "pay" => req[i].price \in Int
        /\ req[i].op = "adminCredit" => req[i].amount \in Int
    BY PricesAssumption DEF TypeInv, OnceInv, IInv, RequestsOK, RequestOK, Prices
  <1>3. coins \in Int /\ diamonds \in Int /\ booked \in Int
    BY DEF TypeInv, NumbersTyped
  <1>4. coins' \in Int /\ diamonds' \in Int /\ booked' \in Int
    <2>1. CASE Pay(i)
      BY <1>2, <1>3, <2>1, PricesAssumption DEF Pay, PayCoins, PayDiamonds, PayPack, Pays, Books
    <2>2. CASE AdminCreditWrite(i)
      BY <1>2, <1>3, <2>2 DEF AdminCreditWrite, Books
    <2> QED BY <2>1, <2>2
  <1>5. NumbersTyped'
    BY <1>1, <1>4, WaitsTyped DEF TypeInv, NumbersTyped
  <1>6. ThingsTyped'
    <2>1. CASE UNCHANGED goods
      BY <2>1 DEF TypeInv, ThingsTyped, goods
    <2>2. CASE PayCoins(i) \/ PayDiamonds(i)
      <3>1. PICK x \in Items : Bought(x)
        BY <2>2 DEF PayCoins, PayDiamonds, Pays, Items
      <3>2. owned' \subseteq Items /\ raced' \subseteq Items
        BY <3>1 DEF Bought, Pushed, TypeInv, ThingsTyped
      <3>3. paid' \in [Items -> Nat]
        BY <3>1 DEF Bought, TypeInv, ThingsTyped
      <3> QED BY <3>2, <3>3 DEF ThingsTyped
    <2> QED BY <2>1, <2>2 DEF Pay, PayPack, AdminCreditWrite, shop, goods
  <1> QED BY <1>1, <1>5, <1>6, IdleHolds, ShopTyped

LEMMA EditTyped ==
    ASSUME TypeInv, OnceInv', UNCHANGED <<payments, crashes>>, NEW i \in Slots,
           EditUser(i) \/ EditRead(i) \/ EditWrite(i)
    PROVE  TypeInv'
  <1>1. owned \subseteq Items /\ raced \subseteq Items /\ paid \in [Items -> Nat]
    BY DEF TypeInv, ThingsTyped
  <1>2. CASE EditUser(i)
    <2>1. Arrives(i, [op |-> "editRead"]) /\ UNCHANGED <<diamonds, booked, goods>>
      BY <1>2 DEF EditUser, shop, goods
    <2>2. coins' \in Int /\ isPremium' \in BOOLEAN
      BY <1>2, AccountAssumption DEF EditUser, TypeInv, NumbersTyped
    <2>3. NumbersTyped'
      BY <2>1, <2>2, ArrivesTyped DEF TypeInv, NumbersTyped
    <2>4. ThingsTyped'
      BY <1>1, <2>1 DEF ThingsTyped, goods
    <2>5. Holds([op |-> "editRead"], KnownSubs)
      BY DEF Holds
    <2> QED BY <2>1, <2>3, <2>4, <2>5, ShopTyped DEF Arrives
  <1>3. CASE EditRead(i)
    <2>1. UNCHANGED <<coins, diamonds, booked, isPremium, calls, goods>>
      BY <1>3 DEF EditRead, user, shop, goods, Goes, Ends
    <2>2. PICK r : Waits(i, r) /\ Holds(r, KnownSubs)
      <3>1. CASE Ends(i)
        BY <3>1, IdleHolds DEF Ends
      <3>2. CASE ~Ends(i)
        <4>1. PICK x \in Items :
                 \/ Waits(i, [op |-> "editWrite", lists |-> owned \cup {x}, revoked |-> {}])
                 \/ Waits(i, [op |-> "editWrite", lists |-> owned \ {x}, revoked |-> {x}])
          BY <1>3, <3>2 DEF EditRead, Goes
        <4>2. /\ Holds([op |-> "editWrite", lists |-> owned \cup {x}, revoked |-> {}], KnownSubs)
              /\ Holds([op |-> "editWrite", lists |-> owned \ {x}, revoked |-> {x}], KnownSubs)
          BY <1>1 DEF Holds
        <4> QED BY <4>1, <4>2
      <3> QED BY <3>1, <3>2
    <2>3. NumbersTyped'
      BY <2>1, <2>2, WaitsTyped DEF TypeInv, NumbersTyped
    <2>4. ThingsTyped'
      BY <1>1, <2>1 DEF ThingsTyped, goods
    <2> QED BY <2>2, <2>3, <2>4, ShopTyped
  <1>4. CASE EditWrite(i)
    <2>1. /\ Waits(i, Idle) /\ req[i].op = "editWrite" /\ owned' = req[i].lists
          /\ paid' = [x \in Items |-> IF x \in req[i].revoked THEN 0 ELSE paid[x]]
          /\ UNCHANGED <<coins, diamonds, booked, isPremium, calls, raced>>
      BY <1>4 DEF EditWrite, Ends, user
    <2>2. NumbersTyped'
      BY <2>1, WaitsTyped DEF TypeInv, NumbersTyped
    <2>3. req[i].lists \subseteq Items
      BY <2>1 DEF TypeInv, Holds
    <2>4. ThingsTyped'
      BY <1>1, <2>1, <2>3 DEF ThingsTyped
    <2> QED BY <2>1, <2>2, <2>4, IdleHolds, ShopTyped
  <1> QED BY <1>2, <1>3, <1>4

LEMMA ShopKeepsType ==
    ASSUME TypeInv, OnceInv', ShopNext, UNCHANGED <<payments, crashes>>
    PROVE  TypeInv'
  <1>1. CASE CacheExpires
    <2>1. UNCHANGED <<user, requests, goods>>
      BY <1>1 DEF CacheExpires
    <2>2. NumbersTyped' /\ ThingsTyped'
      BY <2>1 DEF user, requests, goods, TypeInv, NumbersTyped, ThingsTyped
    <2> QED BY <2>1, <2>2, ShopTyped DEF requests
  <1> QED BY <1>1, BrowseTyped, PayTyped, EditTyped DEF ShopNext, ShopAnswers

\* Enough for a step of the payments: what is for sale keeps its type.
LEMMA PaymentTyped ==
    ASSUME TypeInv, OnceInv', UNCHANGED <<shop, crashes>>, NumbersTyped', PaymentsTyped',
           KnownSubs \subseteq KnownSubs',
           req' = req \/ \E i \in Slots : \E r : Waits(i, r) /\ Holds(r, KnownSubs')
    PROVE  TypeInv'
  <1>1. ThingsTyped'
    BY DEF shop, TypeInv, ThingsTyped
  <1> QED BY <1>1, HoldsKeeps DEF TypeInv

\* Most steps leave the subscriptions alone.
LEMMA SameSubsTyped ==
    ASSUME TypeInv, OnceInv', UNCHANGED <<shop, crashes, coins, diamonds, booked, premium>>,
           isPremium' \in BOOLEAN, calls' \in 0 .. MaxCalls,
           due' \subseteq Entities, lost' \subseteq Credits,
           \/ UNCHANGED <<req, overlapped>>
           \/ \E i \in Slots : \E r : Waits(i, r) /\ Holds(r, KnownSubs)
    PROVE  TypeInv'
  <1>1. UNCHANGED <<sub, expiresAt>> /\ KnownSubs' = KnownSubs
    BY DEF premium, KnownSubs
  <1>2. PaymentsTyped'
    BY <1>1 DEF TypeInv, PaymentsTyped
  <1>3. overlapped' \in BOOLEAN
    BY WaitsTyped DEF TypeInv, NumbersTyped
  <1>4. NumbersTyped'
    BY <1>3 DEF TypeInv, NumbersTyped
  <1> QED BY <1>1, <1>2, <1>4, PaymentTyped

LEMMA AskTyped ==
    ASSUME TypeInv, OnceInv', UNCHANGED <<shop, crashes>>, NEW i \in Slots,
           \/ \E p \in Orders : DiamondCheckout(i, p)
           \/ \E s \in Subs : PremiumCheckout(i, s) \/ CancelPremium(i, s)
           \/ \E x \in Entities : NotifyAgain(i, x)
    PROVE  TypeInv'
  <1>1. UNCHANGED <<coins, diamonds, booked, premium>> /\ isPremium' \in BOOLEAN
        /\ due' \subseteq Entities /\ lost' \subseteq Credits
    BY DEF DiamondCheckout, PremiumCheckout, CancelPremium, NotifyAgain, user, payments, externals,
           TypeInv, NumbersTyped, PaymentsTyped
  <1>2. PICK r : Arrives(i, r) /\ Holds(r, KnownSubs)
    <2>1. CASE \E p \in Orders : DiamondCheckout(i, p)
      <3>1. PICK p, c : Arrives(i, [op |-> "checkout", order |-> p, coupon |-> c])
        BY <2>1 DEF DiamondCheckout
      <3>2. Holds([op |-> "checkout", order |-> p, coupon |-> c], KnownSubs)
        BY DEF Holds
      <3> QED BY <3>1, <3>2
    <2>2. CASE \E s \in Subs : PremiumCheckout(i, s)
      <3>1. PICK s \in Subs : Arrives(i, [op |-> "subscribe", sub |-> s])
        BY <2>2 DEF PremiumCheckout
      <3>2. Holds([op |-> "subscribe", sub |-> s], KnownSubs)
        BY DEF Holds
      <3> QED BY <3>1, <3>2
    <2>3. CASE \E s \in Subs : CancelPremium(i, s)
      <3>1. PICK s \in Subs : sub[s].status = "ACTIVE" /\ Arrives(i, [op |-> "cancel", sub |-> s])
        BY <2>3 DEF CancelPremium
      <3>2. Holds([op |-> "cancel", sub |-> s], KnownSubs)
        BY <3>1 DEF Holds, KnownSubs, None
      <3> QED BY <3>1, <3>2
    <2>4. CASE \E x \in Entities : NotifyAgain(i, x)
      <3>1. PICK x \in Entities : Arrives(i, [op |-> "notified", id |-> x, state |-> provider[x]])
        BY <2>4 DEF NotifyAgain
      <3>2. Holds([op |-> "notified", id |-> x, state |-> provider[x]], KnownSubs)
        BY DEF Holds
      <3> QED BY <3>1, <3>2
    <2> QED BY <2>1, <2>2, <2>3, <2>4
  <1>3. Waits(i, r) /\ calls' \in 0 .. MaxCalls
    BY <1>2, ArrivesTyped DEF Arrives
  <1> QED BY <1>1, <1>2, <1>3, SameSubsTyped

LEMMA NotifyTyped ==
    ASSUME TypeInv, OnceInv', UNCHANGED <<shop, crashes>>, NEW i \in Slots, NEW x \in Entities,
           Notify(i, x)
    PROVE  TypeInv'
  <1>1. UNCHANGED <<coins, diamonds, booked, premium>> /\ isPremium' \in BOOLEAN
        /\ calls' \in 0 .. MaxCalls /\ due' \subseteq Entities /\ lost' \subseteq Credits
    BY DEF Notify, Fetches, FetchFails, user, premium, TypeInv, NumbersTyped, PaymentsTyped
  <1>2. Holds([op |-> "notified", id |-> x, state |-> provider[x]], KnownSubs)
    BY DEF Holds
  <1>3. \/ UNCHANGED <<req, overlapped>>
        \/ Waits(i, [op |-> "notified", id |-> x, state |-> provider[x]])
    BY DEF Notify, Fetches, FetchFails
  <1> QED BY <1>1, <1>2, <1>3, SameSubsTyped

\* The answers that change no subscription.
LEMMA AnswersTyped ==
    ASSUME TypeInv, OnceInv', UNCHANGED <<shop, crashes>>, NEW i \in Slots,
           \/ DiamondPreference(i) \/ PremiumPreapproval(i) \/ CancelAtProvider(i)
           \/ OrderRead(i) \/ InvoiceRead(i) \/ (Credit(i) /\ CreditFails(i)) \/ Redeem(i)
    PROVE  TypeInv'
  <1>1. /\ UNCHANGED <<coins, diamonds, booked, isPremium, calls, premium>>
        /\ isPremium \in BOOLEAN /\ calls \in 0 .. MaxCalls
    BY DEF DiamondPreference, PremiumPreapproval, CancelAtProvider, OrderRead, InvoiceRead, Credit,
           CreditFails, Redeem, user, payments, premium, Ends, Goes, TypeInv, NumbersTyped
  <1>2. due' \subseteq Entities
    <2>1. due' = due \/ (due' = due \cup {req[i].sub} /\ req[i].op \in {"subscribe", "cancel"})
      BY DEF DiamondPreference, PremiumPreapproval, CancelAtProvider, OrderRead, InvoiceRead, Credit,
             CreditFails, Redeem, payments, externals
    <2>2. req[i].op \in {"subscribe", "cancel"} => req[i].sub \in Subs
      BY DEF TypeInv, Holds, KnownSubs
    <2> QED BY <2>1, <2>2 DEF TypeInv, PaymentsTyped, Entities
  <1>3. lost' \subseteq Credits
    <2>1. lost' = lost \/ (lost' = lost \cup {req[i].id} /\ req[i].id \in Credits)
      BY DEF DiamondPreference, PremiumPreapproval, CancelAtProvider, OrderRead, InvoiceRead, Notified,
             Credit, CreditFails, Redeem, payments, Credits, Approved, TypeInv, OnceInv, IInv,
             RequestsOK, RequestOK
    <2> QED BY <2>1 DEF TypeInv, PaymentsTyped
  <1>4. PICK r : Waits(i, r) /\ Holds(r, KnownSubs)
    <2>1. \/ Ends(i)
          \/ Waits(i, [op |-> "cancelled", sub |-> req[i].sub]) /\ req[i].op = "cancel"
          \/ Waits(i, [op |-> "credit", id |-> req[i].id])
      BY DEF DiamondPreference, PremiumPreapproval, CancelAtProvider, OrderRead, InvoiceRead,
             CreditFails, Redeem, Goes
    <2>2. req[i].op = "cancel" => Holds([op |-> "cancelled", sub |-> req[i].sub], KnownSubs)
      BY DEF TypeInv, Holds
    <2>3. Holds([op |-> "credit", id |-> req[i].id], KnownSubs)
      BY DEF Holds
    <2> QED BY <2>1, <2>2, <2>3, IdleHolds DEF Ends
  <1> QED BY <1>1, <1>2, <1>3, <1>4, SameSubsTyped

\* A subscription gets a status and a date.
LEMMA SubWritten ==
    ASSUME PaymentsTyped, NEW s \in Subs,
           NEW status \in {"ACTIVE", "CANCELLED", "PAST_DUE", "EXPIRED"}, NEW date \in Dates \ {None},
           sub' = [sub EXCEPT ![s] = [status |-> status, expiresAt |-> date]],
           due' \subseteq Entities, lost' \subseteq Credits, expiresAt' \in Dates
    PROVE  PaymentsTyped' /\ KnownSubs \subseteq KnownSubs'
  <1> DEFINE row == [status |-> status, expiresAt |-> date]
             Row == [status : {None, "ACTIVE", "CANCELLED", "PAST_DUE", "EXPIRED"}, expiresAt : Dates]
  <1>1. row \in Row /\ row.status # None /\ row.expiresAt # None
    BY DEF None
  <1>2. sub \in [Subs -> Row]
    BY DEF PaymentsTyped
  <1> HIDE DEF row
  <1>3. sub' = [sub EXCEPT ![s] = row]
    BY DEF row
  <1>4. sub' \in [Subs -> Row] /\ \A v \in Subs : sub'[v] = IF v = s THEN row ELSE sub[v]
    BY <1>1, <1>2, <1>3
  <1>5. \A v \in Subs : sub'[v].status = None <=> sub'[v].expiresAt = None
    BY <1>1, <1>4 DEF PaymentsTyped
  <1>6. KnownSubs \subseteq KnownSubs'
    BY <1>1, <1>4 DEF KnownSubs
  <1> QED BY <1>4, <1>5, <1>6 DEF PaymentsTyped

LEMMA SubAnswersTyped ==
    ASSUME TypeInv, OnceInv', UNCHANGED <<shop, crashes>>, NEW i \in Slots,
           SubUpsert(i) \/ CancelWrite(i)
    PROVE  TypeInv'
  <1>1. Waits(i, Idle) /\ UNCHANGED <<calls, user, due, lost, expiresAt>>
    BY DEF SubUpsert, CancelWrite, Ends, externals
  <1>2. NumbersTyped'
    BY <1>1, WaitsTyped DEF TypeInv, NumbersTyped, user
  <1>3. PICK s \in Subs, status \in {"ACTIVE", "CANCELLED", "PAST_DUE"}, date \in Dates \ {None} :
           sub' = [sub EXCEPT ![s] = [status |-> status, expiresAt |-> date]]
    <2>1. CASE SubUpsert(i)
      <3>1. req[i].id \in Subs
        BY <2>1 DEF SubUpsert, Notified
      <3>2. sub[req[i].id].expiresAt \in Dates
        BY <3>1 DEF TypeInv, PaymentsTyped
      <3>3. PICK date \in {"ahead", sub[req[i].id].expiresAt} \ {None} :
               sub' = [sub EXCEPT ![req[i].id] = [status |-> DbStatus(req[i].state), expiresAt |-> date]]
        BY <2>1 DEF SubUpsert
      <3>4. date \in Dates \ {None}
        BY <3>2, <3>3 DEF Dates
      <3>5. DbStatus(req[i].state) \in {"ACTIVE", "CANCELLED", "PAST_DUE"}
        BY DEF DbStatus
      <3> QED BY <3>1, <3>3, <3>4, <3>5
    <2>2. CASE CancelWrite(i)
      <3>1. req[i].sub \in KnownSubs /\ sub' = [sub EXCEPT ![req[i].sub].status = "CANCELLED"]
        BY <2>2 DEF CancelWrite, TypeInv, Holds
      <3>2. PICK s \in KnownSubs : sub' = [sub EXCEPT ![s].status = "CANCELLED"]
        BY <3>1
      <3>3. s \in Subs /\ sub[s].expiresAt \in Dates \ {None}
        BY <3>2 DEF KnownSubs, TypeInv, PaymentsTyped
      <3>4. [sub[s] EXCEPT !.status = "CANCELLED"] = [status |-> "CANCELLED", expiresAt |-> sub[s].expiresAt]
        BY <3>3 DEF TypeInv, PaymentsTyped
      <3>5. sub' = [sub EXCEPT ![s] = [status |-> "CANCELLED", expiresAt |-> sub[s].expiresAt]]
        BY <3>2, <3>4
      <3> QED BY <3>3, <3>5
    <2> QED BY <2>1, <2>2
  <1>4. PaymentsTyped' /\ KnownSubs \subseteq KnownSubs'
    <2>1. due' \subseteq Entities /\ lost' \subseteq Credits /\ expiresAt' \in Dates /\ PaymentsTyped
      BY <1>1 DEF TypeInv, PaymentsTyped
    <2> QED BY <1>3, <2>1, SubWritten
  <1> QED BY <1>1, <1>2, <1>4, IdleHolds, PaymentTyped

LEMMA CreditTyped ==
    ASSUME TypeInv, OnceInv', UNCHANGED <<shop, crashes>>, NEW i \in Slots, Credit(i), CreditRow(i)
    PROVE  TypeInv'
  <1> DEFINE x == req[i].id
  <1>1. x \in Credits
    BY DEF Credit, TypeInv, OnceInv, IInv, RequestsOK, RequestOK, Approved
  <1>2. UNCHANGED <<coins, due, lost>>
    BY DEF Credit, CreditRow, externals
  <1>3. PICK r : Waits(i, r) /\ calls' = calls /\ \A known : Holds(r, known)
    <2>1. \A known : Holds([op |-> "redeem", id |-> x], known)
      BY <1>1 DEF Holds
    <2> QED BY <2>1, IdleHolds DEF CreditRow, Goes, Ends
  <1>4. diamonds' \in Int /\ booked' \in Int
    <2>1. PICK amount \in Nat : Books(amount)
      BY PaymentsAssumption DEF CreditRow
    <2> QED BY <2>1 DEF Books, TypeInv, NumbersTyped
  <1>5. isPremium' \in BOOLEAN
    BY DEF CreditRow, TypeInv, NumbersTyped
  <1>6. NumbersTyped'
    BY <1>2, <1>3, <1>4, <1>5, WaitsTyped DEF TypeInv, NumbersTyped
  <1>7. PaymentsTyped' /\ KnownSubs \subseteq KnownSubs'
    <2>1. CASE x \in Invoices
      <3>1. SubOf[x] \in Subs /\ expiresAt' = "ahead"
            /\ sub' = [sub EXCEPT ![SubOf[x]] = [status |-> "ACTIVE", expiresAt |-> "ahead"]]
        BY <2>1, PaymentsAssumption DEF CreditRow
      <3>2. PICK s \in Subs : sub' = [sub EXCEPT ![s] = [status |-> "ACTIVE", expiresAt |-> "ahead"]]
        BY <3>1
      <3>3. "ahead" \in Dates \ {None} /\ due' \subseteq Entities /\ lost' \subseteq Credits
            /\ expiresAt' \in Dates /\ PaymentsTyped
        BY <1>2, <3>1 DEF Dates, None, TypeInv, PaymentsTyped
      <3> QED BY <3>2, <3>3, SubWritten
    <2>2. CASE x \notin Invoices
      <3>1. UNCHANGED <<expiresAt, sub>>
        BY <2>2 DEF CreditRow
      <3> QED BY <1>2, <3>1 DEF TypeInv, PaymentsTyped, KnownSubs
    <2> QED BY <2>1, <2>2
  <1> QED BY <1>3, <1>6, <1>7, PaymentTyped

\* What nobody asked for.
LEMMA OutsideTyped ==
    ASSUME TypeInv, OnceInv', UNCHANGED <<shop, crashes>>,
           \/ \E p \in Orders : OrderPaid(p)
           \/ \E s \in Subs : SubChanges(s)
           \/ \E a \in Invoices : Charged(a)
           \/ \E state : CouponEdited(state)
           \/ CronUsers
    PROVE  TypeInv'
  <1>1. UNCHANGED <<coins, diamonds, booked, premium, req, overlapped, lost>>
    BY DEF OrderPaid, SubChanges, Charged, CardAnswers, Becomes, CouponEdited, CronUsers, user, requests,
           payments
  <1>2. isPremium' \in BOOLEAN
    BY DEF OrderPaid, SubChanges, Charged, CardAnswers, Becomes, CouponEdited, CronUsers, user, TypeInv,
           NumbersTyped
  <1>3. calls' \in 0 .. MaxCalls
    BY AccountAssumption DEF OrderPaid, SubChanges, Charged, CardAnswers, Becomes, CouponEdited,
           CronUsers, requests, TypeInv, NumbersTyped
  <1>4. due' \subseteq Entities
    BY DEF OrderPaid, SubChanges, Charged, CardAnswers, Becomes, CouponEdited, CronUsers, payments,
           externals, TypeInv, PaymentsTyped, Entities, Credits
  <1>5. lost' \subseteq Credits
    BY <1>1 DEF TypeInv, PaymentsTyped
  <1> QED BY <1>1, <1>2, <1>3, <1>4, <1>5, SameSubsTyped

\* Dates pass, and the night ends what has expired.
LEMMA TimeTyped ==
    ASSUME TypeInv, OnceInv', UNCHANGED <<shop, crashes>>, DatePasses \/ CronSubs
    PROVE  TypeInv'
  <1> DEFINE Row == [status : {None, "ACTIVE", "CANCELLED", "PAST_DUE", "EXPIRED"}, expiresAt : Dates]
  <1>1. UNCHANGED <<user, requests, due, lost>>
    BY DEF DatePasses, CronSubs, externals
  <1>2. NumbersTyped'
    BY <1>1 DEF TypeInv, NumbersTyped, user, requests
  <1>3. sub \in [Subs -> Row] /\ expiresAt \in Dates
    BY DEF TypeInv, PaymentsTyped
  <1>4. expiresAt' \in Dates
    BY <1>3 DEF DatePasses, CronSubs, Dates
  <1>5. /\ sub' \in [Subs -> Row]
        /\ \A s \in Subs : /\ sub'[s].status = None <=> sub[s].status = None
                           /\ sub'[s].expiresAt = None <=> sub[s].expiresAt = None
    <2>1. CASE sub' = sub
      BY <1>3, <2>1
    <2>2. CASE \E s \in Subs : sub[s].expiresAt = "ahead" /\ sub' = [sub EXCEPT ![s].expiresAt = "past"]
      <3>1. PICK s \in Subs : sub[s].expiresAt = "ahead" /\ sub' = [sub EXCEPT ![s].expiresAt = "past"]
        BY <2>2
      <3> DEFINE row == [sub[s] EXCEPT !.expiresAt = "past"]
      <3>2. row \in Row /\ row.status = sub[s].status /\ row.expiresAt # None /\ sub[s].expiresAt # None
        BY <1>3, <3>1 DEF Dates, None
      <3>3. sub' = [sub EXCEPT ![s] = row]
        BY <3>1
      <3> HIDE DEF row
      <3> QED BY <1>3, <3>2, <3>3
    <2>3. CASE CronSubs
      <3> DEFINE row(s) == IF Lapsed(s) THEN [sub[s] EXCEPT !.status = "EXPIRED"] ELSE sub[s]
      <3>1. sub' = [s \in Subs |-> row(s)]
        BY <2>3 DEF CronSubs
      <3>2. ASSUME NEW s \in Subs
            PROVE  /\ row(s) \in Row
                   /\ row(s).status = None <=> sub[s].status = None
                   /\ row(s).expiresAt = None <=> sub[s].expiresAt = None
        <4>1. sub[s] \in Row
          BY <1>3
        <4>2. CASE Lapsed(s)
          <5>1. row(s) = [sub[s] EXCEPT !.status = "EXPIRED"] /\ sub[s].status = "ACTIVE"
            BY <4>2 DEF Lapsed
          <5> HIDE DEF row
          <5>2. [sub[s] EXCEPT !.status = "EXPIRED"] \in Row
            BY <4>1
          <5>3. /\ [sub[s] EXCEPT !.status = "EXPIRED"].status = "EXPIRED"
                /\ [sub[s] EXCEPT !.status = "EXPIRED"].expiresAt = sub[s].expiresAt
            BY <4>1
          <5> QED BY <5>1, <5>2, <5>3 DEF None
        <4>3. CASE ~Lapsed(s)
          BY <4>1, <4>3
        <4> QED BY <4>2, <4>3
      <3> HIDE DEF row
      <3> QED BY <3>1, <3>2
    <2> QED BY <2>1, <2>2, <2>3 DEF DatePasses
  <1>6. PaymentsTyped' /\ KnownSubs \subseteq KnownSubs'
    BY <1>1, <1>4, <1>5 DEF TypeInv, PaymentsTyped, KnownSubs
  <1> QED BY <1>1, <1>2, <1>6, PaymentTyped DEF requests

LEMMA PaymentsKeepType ==
    ASSUME TypeInv, OnceInv', PaymentsNext, UNCHANGED <<shop, crashes>>
    PROVE  TypeInv'
  <1>1. ASSUME NEW i \in Slots, Credit(i) PROVE TypeInv'
    BY <1>1, AnswersTyped, CreditTyped DEF Credit
  <1> QED BY <1>1, AskTyped, NotifyTyped, AnswersTyped, SubAnswersTyped, OutsideTyped, TimeTyped
          DEF PaymentsNext, PaymentsAnswers

\* What was under way is notified again.
LEMMA CrashKeepsType ==
    ASSUME TypeInv, OnceInv', Crash
    PROVE  TypeInv'
  <1>1. /\ UNCHANGED <<user, overlapped, calls, goods, sub, expiresAt, lost>>
        /\ req' = [i \in Slots |-> Idle] /\ crashes' = crashes + 1 /\ crashes < MaxCrashes
    BY DEF Crash
  <1>2. due' \subseteq Entities
    <2>1. \A i \in Slots : req[i].op \in {"notified", "credit", "redeem"} => req[i].id \in Entities
      BY DEF TypeInv, Holds, OnceInv, IInv, RequestsOK, RequestOK, Approved, Entities
    <2> QED BY <2>1 DEF Crash, TypeInv, PaymentsTyped
  <1>3. NumbersTyped'
    BY <1>1, MaxCrashesAssumption DEF TypeInv, NumbersTyped, user
  <1>4. ThingsTyped'
    BY <1>1 DEF TypeInv, ThingsTyped, goods
  <1>5. PaymentsTyped'
    BY <1>1, <1>2 DEF TypeInv, PaymentsTyped
  <1>6. \A i \in Slots : Holds(req[i], KnownSubs)'
    BY <1>1, IdleHolds DEF Holds, Idle
  <1> QED BY <1>3, <1>4, <1>5, <1>6 DEF TypeInv

LEMMA InitIsTyped == Init => TypeInv
  <1> SUFFICES ASSUME Init PROVE TypeInv
    OBVIOUS
  <1>1. NumbersTyped
    <2>1. coins \in Int /\ diamonds \in Int /\ booked \in Int
      BY AccountAssumption DEF Init, AccountInit
    <2>2. calls \in 0 .. MaxCalls /\ crashes \in 0 .. MaxCrashes
      BY AccountAssumption, MaxCrashesAssumption DEF Init, AccountInit
    <2>3. isPremium \in BOOLEAN /\ overlapped \in BOOLEAN
      BY DEF Init, AccountInit
    <2> QED BY <2>1, <2>2, <2>3 DEF NumbersTyped
  <1>2. ThingsTyped
    BY DEF Init, ShopInit, ThingsTyped
  <1>3. PaymentsTyped
    BY DEF Init, PaymentsInit, PaymentsTyped, NoSub, Dates
  <1>4. \A i \in Slots : Holds(req[i], KnownSubs)
    BY IdleHolds DEF Init, AccountInit
  <1> QED BY <1>1, <1>2, <1>3, <1>4, InitIsOnce DEF TypeInv

LEMMA StepKeepsType == TypeInv /\ [Next]_vars => TypeInv'
  <1> SUFFICES ASSUME TypeInv, [Next]_vars PROVE TypeInv'
    OBVIOUS
  <1>1. OnceInv'
    BY StepKeepsOnce DEF TypeInv
  <1>2. CASE UNCHANGED vars
    <2>1. UNCHANGED <<user, requests, goods, payments, crashes>>
      BY <1>2 DEF vars, shop, goods
    <2>2. NumbersTyped' /\ ThingsTyped'
      BY <2>1 DEF user, requests, goods, TypeInv, NumbersTyped, ThingsTyped
    <2> QED BY <1>1, <2>1, <2>2, ShopTyped DEF requests
  <1> QED BY <1>1, <1>2, ShopKeepsType, PaymentsKeepType, CrashKeepsType DEF Next

\* The state has its type: whatever a request holds, it names what there is; and the row
\* of a subscription has a status exactly when it has a date.
THEOREM EconomyTyped == Spec => []TypeOK
  <1>1. TypeInv => TypeOK
    <2> SUFFICES ASSUME TypeInv PROVE TypeOK
      OBVIOUS
    <2>1. overrides \in Rows /\ cache.rows \in Rows /\ cache.fresh \in BOOLEAN
      BY DEF TypeInv, OnceInv, IInv, DataOK, Caches
    <2>2. rows \in [Credits -> Nat] /\ redemptions \in Nat /\ withCoupon \subseteq Orders
      BY DEF TypeInv, OnceInv, IInv, DataOK, CouponOK
    <2>3. \A i \in Slots : /\ req[i].op \in {"notified", "credit", "redeem"} => req[i].id \in Entities
                           /\ req[i].op \in {"check", "pay"} => req[i].price \in Nat
      BY PricesAssumption DEF TypeInv, Holds, OnceInv, IInv, RequestsOK, RequestOK, Approved, Entities,
                              Prices
    <2> QED BY <2>1, <2>2, <2>3 DEF TypeOK, TypeInv, NumbersTyped, ThingsTyped, PaymentsTyped, Rows, Dates
  <1> QED BY <1>1, InitIsTyped, StepKeepsType, PTL DEF Spec

=============================================================================
