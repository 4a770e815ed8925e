\* Two addresses with accounts, one of which also subscribes, up to twice; two
\* PATCHes and one fault.
CONSTANTS
    e1 = e1
    e2 = e2
    a1 = a1
    a2 = a2
    Subscribers <- OneSubscriber
    AccountAddresses <- TwoAccounts
    Organisers <- TwoOrganisers
    MaxTokens = 2
    MaxPatches = 2
    MaxFaults = 1
SPECIFICATION AudienceFairSpec
INVARIANTS
    AnnouncedOnce
    OnlyOwnersConfirm
PROPERTY ListIsTold
CHECK_DEADLOCK FALSE
