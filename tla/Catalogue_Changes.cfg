\* Two organisers and the sweep change one event, two commits at most.
CONSTANTS
    e1 = e1
    a1 = a1
    a2 = a2
    p1 = p1
    s1 = s1
    s2 = s2
    None = None
    Maintenance = Maintenance
    Events <- OneEvent
    Organisers <- TwoOrganisers
    Containers <- OneContainer
    Slugs <- TwoSlugs
    FirstSlug <- SlugOfOne
    Statuses = {"draft", "published"}
    TierStatuses = {"active", "closed"}
    Watched <- ListAndPage
    MaxChanges = 2
SPECIFICATION FairSpec
INVARIANTS
    SalesAsTold
    NothingOrphaned
PROPERTY ServedBecomesTrue
CHECK_DEADLOCK FALSE
