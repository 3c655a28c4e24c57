\* One theme, one mode and a pack of coins, each at the price the user can pay once; a
\* second price for the theme; two orders of diamonds of which the coupon can pay one.
SPECIFICATION Spec
CONSTANTS
    c1 = c1
    c2 = c2
    c3 = c3
    p1 = p1
    p2 = p2
    Slots = {c1, c2, c3}
    InitialCoins = 1
    InitialDiamonds = 1
    MaxCalls = 3
    MaxCrashes = 2
    DiamondItems = {"theme"}
    CoinItems = {"mode"}
    Packs = {"pack"}
    PackCoins = 1
    DefaultPrice = 1
    Repriced = {"theme"}
    OverridePrices = {2}
    Readers = {"none"}
    Grants <- OneMoreOrLess
    Orders = {p1, p2}
    Subs = {}
    Invoices = {}
    SubOf <- OneSub
    PackDiamonds = 2
    GrantDiamonds = 1
    MaxUses = 1
SYMMETRY Alike
INVARIANTS TypeOK OncePerPayment PaidForIsOwned AloneIsExact
PROPERTIES ImplementsLedger
\* Nobody need ask anything.
CHECK_DEADLOCK FALSE
