CONSTANTS
    c1 = c1
    fast = fast
    slow = slow
    i1 = i1
    i2 = i2
    i3 = i3
    None = None
    Clients <- Visitors
    Routes <- TwoRoutes
    Calls <- QuotasOf
    Period <- PeriodOf
    CleanupEvery = 3
    MaxTime = 6
    MaxInside = 2
    ImageUrls <- ThreeImages
    MaxEntries = 2
    MaxNames = 2
    MaxBytes = 3
    MaxImage = 2
    MaxFetches = 2
    h1 = h1
    h2 = h2
    h3 = h3
    Hosts <- ThreeHosts
    l1 = l1
    l2 = l2
    Lookups = {l1, l2}
    TTL = 2
    MaxWait = 1
    Nobody = Nobody
SPECIFICATION ProcessSpec
SYMMETRY Symmetry
INVARIANTS
    QuotaHolds
    WindowIsExact
    CachesAreCapped
    VerdictsAreRecent
PROPERTY
    SweepFreesIdleKeys
CHECK_DEADLOCK FALSE
