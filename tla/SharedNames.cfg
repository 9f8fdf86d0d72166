SPECIFICATION SharedNameSpec
CONSTANTS
    s1 = s1
    s2 = s2
    r1 = r1
    r2 = r2
    n1 = n1
    n2 = n2
    n3 = n3
    device = device
    subscription = subscription
    NoSource = NoSource
    NoState = NoState
    Sources = {s1, s2}
    Kind <- TwoDevices
    AzureSources = {}
    Names = {n1, n2}
    Reasons = {r1, r2}
    UniqueNames = FALSE
    CleanupDeleted = TRUE
    MaxEdits = 0
    MaxFaults = 0
    MaxCrashes = 0
INVARIANTS
    ReportIsFinal
