\* Two requests in progress, with the same key or none; at most one hold each phone.
CONSTANTS
    c1 = c1
    c2 = c2
    o1 = o1
    o2 = o2
    o3 = o3
    e1 = e1
    e2 = e2
    p1 = p1
    b1 = b1
    k1 = k1
    None = None
    Clients <- TwoClients
    OrderIds <- ThreeOrders
    Emails <- TwoEmails
    Phones <- OnePhone
    Baskets <- OneBasket
    Keys <- OneKey
    MAX_ACTIVE_HOLDS_PER_PHONE = 1
SPECIFICATION Spec
SYMMETRY Interchangeable
INVARIANTS
    AnswersAreOwn
    HoldsBounded
PROPERTY KeepsPromise
CHECK_DEADLOCK FALSE
