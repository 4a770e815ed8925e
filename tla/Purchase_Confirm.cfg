\* One browser with two connections; two choices of tickets and two addresses.
CONSTANTS
    c1 = c1
    c2 = c2
    o1 = o1
    o2 = o2
    o3 = o3
    e1 = e1
    e2 = e2
    p1 = p1
    None = None
    Clients <- TwoClients
    OrderIds <- TwoOrders
    Emails <- TwoEmails
    Phones <- OnePhone
    Bodies <- PageBodies
    KeyOf <- ScopedKeys
    MaxChoices = 2
    MaxAsked = 1
    MaxLost = 1
SPECIFICATION Spec
SYMMETRY Interchangeable
INVARIANTS
    ConfirmedAsShown
    ChoiceHeldOnce
CHECK_DEADLOCK FALSE
