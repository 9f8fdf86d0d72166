SPECIFICATION MCFairSpec
CONSTANTS
    s1 = s1
    s2 = s2
    r1 = r1
    r2 = r2
    n1 = n1
    n2 = n2
    n3 = n3
    device = device
    subscription = subscription
    NoSource = NoSource
    NoState = NoState
    Sources = {s1, s2}
    Kind <- OneOfEachKind
    AzureSources = {s2}
    Names = {n1, n2}
    Reasons = {r1, r2}
    UniqueNames = TRUE
    CleanupDeleted = FALSE
    MaxEdits = 0
    MaxFaults = 1
    MaxCrashes = 1
PROPERTIES
    JournalCatchesUp
