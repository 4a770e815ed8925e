\* One throw between the settled payment and the paid order.
SPECIFICATION FairSpec
CONSTANTS
    o1 = o1
    t1 = t1
    NoCap = NoCap
    Tiers <- OneTier
    Orders <- OneOrder
    Totals <- OneSeat
    TierStatuses = {"active", "closed"}
    MinPerOrder = 1
    MaxPerOrder = 1
    Outcomes = {"succeeded"}
    ContraryNews = FALSE
    MAX_ATTEMPTS = 1
    MaxFaults = 1
CHECK_DEADLOCK TRUE
PROPERTY
    NothingLostByFailing
