\* Three transactions, two chains, up to four numbers drawn, one reader.
CONSTANTS
    w1 = w1
    w2 = w2
    w3 = w3
    order = order
    global = global
    Null = Null
    Global = global
    Writers <- MCWriters
    Chains <- MCChains
    MaxSeq = 4
    MaxEntries = 2
SPECIFICATION HistorySpec
SYMMETRY Interchangeable
INVARIANTS
    OneSuccessor
    UntouchedVerifies
    DamageIsReported
    HistoryIsVouchedFor
PROPERTY AppendsAtTheEnd
CHECK_DEADLOCK FALSE
