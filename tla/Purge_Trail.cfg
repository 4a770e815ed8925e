\* Three orders in any state, two deleted in one pass, a job that fails once.
\* When every order has found its end, nothing is left to do.
CONSTANTS
    o1 = o1
    o2 = o2
    o3 = o3
    Orders <- ThreeOrders
    Limit = 2
    MaxFaults = 1
SPECIFICATION PurgeSpec
INVARIANT RemovalLeavesTrail
PROPERTY RecordsAreKept
CHECK_DEADLOCK FALSE
