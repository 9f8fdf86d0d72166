SPECIFICATION MCSpec
CONSTANTS
    s1 = s1
    s2 = s2
    n1 = n1
    n2 = n2
    n3 = n3
    n4 = n4
    NoSub = NoSub
    NoHost = NoHost
    Gone = Gone
    Subs = {s1}
    Names = {n1}
    Unsupported = {}
    HandMade <- Namesake
    CleanupDeleted = TRUE
    FreshNames = TRUE
    MaxId = 4
    MaxEdits = 2
    MaxFaults = 0
    MaxCrashes = 0
PROPERTIES
    AdoptedHostIsNotMarked
