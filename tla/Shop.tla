-------------------------------- MODULE Shop --------------------------------
(***************************************************************************)
(* The shop: purchases with coins and with diamonds (ShopService), the      *)
(* prices an administrator may override and their cache in memory           *)
(* (ShopPricingService), and the administrator's edits of the same rows     *)
(* (AdminService).  Avatars, modes and themes are items: what tells them    *)
(* apart here is the currency.                                              *)
(***************************************************************************)
EXTENDS Account

CONSTANTS
    DiamondItems,    \* themes and avatars sold for diamonds
    CoinItems,       \* modes and avatars sold for coins
    Packs,           \* packs of coins sold for diamonds
    PackCoins,       \* coins in a pack
    DefaultPrice,    \* the price in the code
    Repriced,        \* what an administrator may give another price
    OverridePrices,  \* ... and these prices
    Readers,         \* {None}, for who loads the prices and buys nothing here, or {} without them
    Grants           \* amounts an administrator may credit, or take when negative

ASSUME PricesAssumption ==
    /\ DefaultPrice \in Nat /\ PackCoins \in Nat /\ OverridePrices \subseteq Nat /\ Grants \subseteq Int
    /\ Repriced \subseteq DiamondItems \cup CoinItems \cup Packs /\ Readers \subseteq {None}
    /\ DiamondItems \cap CoinItems = {} /\ Packs \cap (DiamondItems \cup CoinItems) = {}

VARIABLES
    owned,      \* UserInventory: the items in its lists
    overrides,  \* CatalogPrice: the row of every repriced thing, or NoRow
    cache,      \* the rows the shop has loaded, and whether they count as fresh
    paid,       \* history: how often every item was paid for since it was last revoked
    raced       \* history: items bought while an edit of the lists was under way

shop == <<owned, overrides, cache, paid, raced>>
prices == <<overrides, cache>>
goods == <<owned, paid, raced>>

Items == DiamondItems \cup CoinItems
NoRow == -1
NoRows == [x \in Repriced |-> NoRow]

ShopInit ==
    /\ owned = {} /\ paid = [x \in Items |-> 0] /\ raced = {}
    /\ overrides = NoRows /\ cache = [rows |-> NoRows, fresh |-> FALSE]

----------------------------------------------------------------------------
(* Prices.                                                                 *)

\* getPriceSync: what the cache holds now, else the default; in a mutant the default is
\* forgotten.
PriceOfRow(x, rows) == IF x \in Repriced THEN rows[x] ELSE DefaultPrice
PriceOf(x, rows) == IF x \in Repriced /\ rows[x] # NoRow THEN rows[x] ELSE DefaultPrice

\* A purchase goes on once the prices are loaded: for an item it reads the inventory,
\* and looks up the price afterwards; a pack has its price looked up at once.
Priced(x, rows) ==
    IF x = None THEN Idle
    ELSE IF x \in Items THEN [op |-> "look", what |-> x]
    ELSE [op |-> "check", what |-> x, price |-> PriceOf(x, rows)]

\* purchaseAvatar, purchaseMode, purchaseTheme, purchaseCoinPack; and for None the other
\* readers of prices, getCatalog and the checkouts.
Request(i, x) ==
    /\ Arrives(i, IF cache.fresh THEN Priced(x, cache.rows)
                  ELSE [op |-> "warm", what |-> x, rows |-> overrides])
    /\ UNCHANGED <<user, shop>>

\* ensureCache gets its rows, which may be older than an invalidation; or the database
\* fails, and the cache stays as it is.
Warm(i) ==
    /\ req[i].op = "warm"
    /\ \/ /\ cache' = [rows |-> req[i].rows, fresh |-> TRUE]
          /\ Goes(i, Priced(req[i].what, req[i].rows))
       \/ Goes(i, Priced(req[i].what, cache.rows)) /\ UNCHANGED cache
    /\ UNCHANGED <<user, overrides, goods>>

\* Five seconds pass.
CacheExpires ==
    /\ cache.fresh /\ cache' = [cache EXCEPT !.fresh = FALSE]
    /\ UNCHANGED <<user, requests, overrides, goods>>

\* setOverride and removeOverride write the row ...
SetOverride(i, x) ==
    /\ \E p \in OverridePrices \cup {NoRow} :
          p # overrides[x] /\ overrides' = [overrides EXCEPT ![x] = p]
    /\ Arrives(i, [op |-> "invalidate"])
    /\ UNCHANGED <<user, cache, goods>>

\* ... and forget the cache when the database has answered.
Invalidate(i) ==
    /\ req[i].op = "invalidate" /\ Ends(i)
    /\ cache' = [rows |-> NoRows, fresh |-> FALSE]
    /\ UNCHANGED <<user, overrides, goods>>

----------------------------------------------------------------------------
(* Purchases.                                                              *)

\* The inventory is read, and the price looked up in the cache as it is by now.
Look(i) ==
    LET x == req[i].what
    IN  /\ req[i].op = "look"
        /\ IF x \notin owned THEN Goes(i, [op |-> "check", what |-> x, price |-> PriceOf(x, cache.rows)])
           ELSE Ends(i)
        /\ UNCHANGED <<user, shop>>

\* The balance in the currency of what is bought; in a mutant, always the diamonds.
AffordsInDiamonds(x, price) == diamonds >= price
Affords(x, price) == (IF x \in CoinItems THEN coins ELSE diamonds) >= price

\* The balance is read.
Check(i) ==
    /\ req[i].op = "check"
    /\ IF Affords(req[i].what, req[i].price) THEN Goes(i, [req[i] EXCEPT !.op = "pay"]) ELSE Ends(i)
    /\ UNCHANGED <<user, shop>>

\* An item is pushed on its list; in a mutant it replaces the list.
Replaced(x) == {x}
Pushed(x) == owned \cup {x}

InventoryEditUnderWay == \E j \in Slots : req[j].op = "editWrite"

Bought(x) ==
    /\ owned' = Pushed(x) /\ paid' = [paid EXCEPT ![x] = @ + 1]
    /\ raced' = IF InventoryEditUnderWay THEN raced \cup {x} ELSE raced \ {x}

\* The transaction of a purchase decrements whatever the balance is now.
Pays(i, things) ==
    /\ req[i].op = "pay" /\ req[i].what \in things /\ Ends(i)
    /\ UNCHANGED <<isPremium, prices>>

PayCoins(i) ==
    /\ Pays(i, CoinItems) /\ Bought(req[i].what)
    /\ coins' = coins - req[i].price /\ UNCHANGED <<diamonds, booked>>

PayDiamonds(i) ==
    /\ Pays(i, DiamondItems) /\ Bought(req[i].what)
    /\ Books(-req[i].price) /\ UNCHANGED coins

PayPack(i) ==
    /\ Pays(i, Packs)
    /\ Books(-req[i].price) /\ coins' = coins + PackCoins
    /\ UNCHANGED goods

Pay(i) == PayCoins(i) \/ PayDiamonds(i) \/ PayPack(i)

----------------------------------------------------------------------------
(* The administrator.                                                      *)

\* creditDiamonds compares with the balance it has read ...
AdminCredit(i) ==
    /\ \E n \in Grants : ~(n < 0 /\ diamonds + n < 0) /\ Arrives(i, [op |-> "adminCredit", amount |-> n])
    /\ UNCHANGED <<user, shop>>

\* ... and adds to the balance there is.
AdminCreditWrite(i) ==
    /\ req[i].op = "adminCredit" /\ Ends(i)
    /\ Books(req[i].amount)
    /\ UNCHANGED <<coins, isPremium, shop>>

\* updateUserProgression sets columns of the user first ...
EditUser(i) ==
    /\ Arrives(i, [op |-> "editRead"])
    /\ \E c \in {coins, InitialCoins}, b \in BOOLEAN : coins' = c /\ isPremium' = b
    /\ UNCHANGED <<diamonds, booked, shop>>

\* ... then reads the inventory, if it is to grant or to revoke items ...
EditRead(i) ==
    /\ req[i].op = "editRead"
    /\ \/ Ends(i)
       \/ \E x \in Items :
             \/ Goes(i, [op |-> "editWrite", lists |-> owned \cup {x}, revoked |-> {}])
             \/ Goes(i, [op |-> "editWrite", lists |-> owned \ {x}, revoked |-> {x}])
    /\ UNCHANGED <<user, shop>>

\* ... and writes all its lists back.
EditWrite(i) ==
    /\ req[i].op = "editWrite" /\ Ends(i)
    /\ owned' = req[i].lists
    /\ paid' = [x \in Items |-> IF x \in req[i].revoked THEN 0 ELSE paid[x]]
    /\ UNCHANGED <<user, prices, raced>>

----------------------------------------------------------------------------
ShopAnswers(i) ==
    Warm(i) \/ Look(i) \/ Check(i) \/ Pay(i) \/ Invalidate(i) \/ AdminCreditWrite(i) \/ EditRead(i) \/ EditWrite(i)

ShopNext ==
    \/ \E i \in Slots :
          \/ \E x \in Items \cup Packs \cup Readers : Request(i, x)
          \/ \E x \in Repriced : SetOverride(i, x)
          \/ AdminCredit(i) \/ EditUser(i) \/ ShopAnswers(i)
    \/ CacheExpires

=============================================================================
