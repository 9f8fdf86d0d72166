\* A stale link is cleared and a host adopted in the same run.
SPECIFICATION MCSpec
CONSTANTS
    dA = dA
    dB = dB
    r1 = r1
    r2 = r2
    s1 = s1
    s2 = s2
    o1 = o1
    n1 = n1
    n2 = n2
    n3 = n3
    h1 = h1
    h2 = h2
    h3 = h3
    h4 = h4
    NoHost = NoHost
    NoSource = NoSource
    Deployments = {dA}
    Records = {r1}
    Sources = {s1}
    RecordOf <- OneRecord
    DeploymentOf <- OneSource
    OOBSources = {}
    ClusterSources = {}
    Names = {n1, n2}
    ShortName <- OwnShortNames
    Hosts = {h1, h2, h3}
    AdoptExisting = {dA}
    AdoptFqdn = {}
    MetadataOnly = {}
    ClearStale = {dA}
    CleanupDeleted = {dA}
    TagSync = {dA}
    MaxEdits = 3
    MaxFaults = 0
    MaxCrashes = 0
SYMMETRY HostSymmetry
PROPERTIES
    AdoptedHostIsNotMarked
