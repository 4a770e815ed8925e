\* Two buyers, baskets of one or two seats over two tiers, of which a late
\* payment may recover one and not the other; a cap of two seats or none.
SPECIFICATION Spec
CONSTANTS
    o1 = o1
    o2 = o2
    t1 = t1
    t2 = t2
    NoCap = NoCap
    Tiers <- TwoTiers
    Orders <- TwoOrders
    Totals <- CapOrNone
    TierStatuses = {"active", "closed"}
    MinPerOrder = 1
    MaxPerOrder = 2
SYMMETRY Interchangeable
CHECK_DEADLOCK TRUE
INVARIANTS
    SchemaChecks
    ReservedMatchesHolds
    SoldMatchesCommits
    PaidOwnsItsSeats
PROPERTIES
    PaidIsFinal
    KeepsPromise
