\* Two phones with one scanner link check the ticket of one order in while an
\* admin voids it; the link is good for one hour or two and may be revoked.  An organiser reads the totals
\* meanwhile.
SPECIFICATION ReportsSpec
CONSTANTS
    i1 = i1
    g1 = g1
    g2 = g2
    l1 = l1
    NoTicket = NoTicket
    NoLink = NoLink
    NotGiven = NotGiven
    Items <- OneItem
    Quantity <- OneOfIt
    Gates <- TwoGates
    Links <- OneLink
    DefaultTtl = 1
    LongestTtl = 2
    MaxHours = 3
    MaxStory = 2
SYMMETRY Interchangeable
CHECK_DEADLOCK FALSE
INVARIANTS
    AdmitsOnce
    StoryConnects
    GreenMeansIn
    ReportAddsUp
PROPERTIES
    VoidIsFinal
    ShutOutStaysOut
