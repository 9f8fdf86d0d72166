SPECIFICATION MCFairSpec
CONSTANTS
    s1 = s1
    s2 = s2
    n1 = n1
    n2 = n2
    n3 = n3
    n4 = n4
    NoSub = NoSub
    NoHost = NoHost
    Gone = Gone
    Subs = {s1, s2}
    Names = {n1, n2, n3, n4}
    Unsupported = {n2}
    HandMade <- ByHand
    CleanupDeleted = TRUE
    FreshNames = TRUE
    MaxId = 6
    MaxEdits = 3
    MaxFaults = 1
    MaxCrashes = 1
INVARIANTS
    TypeOK
    SyncedTenantHasItsHost
PROPERTIES
    ReapsOnlyExcluded
    SelectedGetsHosted
    ExcludedGetsReaped
