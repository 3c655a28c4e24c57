\* One subscription that is charged twice, each time with or without success, and nothing
\* for sale; the user subscribes and may cancel, or the provider repeats a notification.
SPECIFICATION FairSpec
CONSTANTS
    Slots = {1, 2}
    InitialCoins = 0
    InitialDiamonds = 0
    MaxCalls = 2
    MaxCrashes = 1
    DiamondItems = {}
    CoinItems = {}
    Packs = {}
    PackCoins = 1
    DefaultPrice = 1
    Repriced = {}
    OverridePrices = {}
    Readers = {}
    Grants = {}
    Orders = {}
    Subs = {"s1"}
    Invoices = {"a1", "a2"}
    SubOf <- OneSub
    PackDiamonds = 2
    GrantDiamonds = 1
    MaxUses = 0
INVARIANT OncePerPayment
PROPERTIES ApprovedIsCredited PremiumEnds
\* Nobody need ask anything.
CHECK_DEADLOCK FALSE
