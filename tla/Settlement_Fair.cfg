\* Callbacks that are lost or contradict M-Pesa, a query API that does not answer,
\* one fault anywhere; the order takes both seats there are, or finds one.
SPECIFICATION FairSpec
CONSTANTS
    o1 = o1
    t1 = t1
    NoCap = NoCap
    Tiers <- OneTier
    Orders <- OneOrder
    Totals <- SmallCaps
    TierStatuses = {"active", "closed"}
    MinPerOrder = 2
    MaxPerOrder = 2
    Outcomes = {"succeeded", "underpaid", "cancelled"}
    ContraryNews = TRUE
    MAX_ATTEMPTS = 2
    MaxFaults = 1
CHECK_DEADLOCK TRUE
INVARIANTS
    PaidOnlyIfCharged
    TicketsHaveSeats
PROPERTIES
    KeepsInventory
    SeatsComeBack
    MoneyHonoured
    TicketsFollow
    BuyerIsTold
