\* One buyer waits for the end of one order, and one fetch fails.
CONSTANTS
    c1 = c1
    c2 = c2
    o1 = o1
    o2 = o2
    o3 = o3
    e1 = e1
    e2 = e2
    p1 = p1
    None = None
    Clients <- OneClient
    OrderIds <- TwoOrders
    Emails <- OneEmail
    Phones <- OnePhone
    Bodies <- PageBodies
    KeyOf <- ScopedKeys
    MaxChoices = 1
    MaxAsked = 1
    MaxLost = 1
SPECIFICATION FairSpec
PROPERTY EndIsShown
CHECK_DEADLOCK FALSE
