\* Two identities sign in from two browsers; one call or deletion may die.
CONSTANTS
    u1 = u1
    u2 = u2
    b1 = b1
    b2 = b2
    o1 = o1
    e1 = e1
    e2 = e2
    Nobody = Nobody
    Released = Released
    Uids <- TwoUids
    Emails <- TwoEmails
    Registered <- OneEmail
    Browsers <- TwoBrowsers
    Orders <- OneOrder
    MaxTroubles = 1
SPECIFICATION FairSpec
INVARIANTS
    OwnersAccountedFor
PROPERTIES
    OrdersStayPut
    
CHECK_DEADLOCK FALSE
