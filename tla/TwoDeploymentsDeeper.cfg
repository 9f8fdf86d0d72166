\* The two deployments of TwoDeployments, and the rest of the safety properties.
SPECIFICATION MCSpec
CONSTANTS
    dA = dA
    dB = dB
    r1 = r1
    r2 = r2
    s1 = s1
    s2 = s2
    o1 = o1
    n1 = n1
    n2 = n2
    n3 = n3
    h1 = h1
    h2 = h2
    h3 = h3
    h4 = h4
    NoHost = NoHost
    NoSource = NoSource
    Deployments = {dA, dB}
    Records = {r1, r2}
    Sources = {s1, s2}
    RecordOf <- TwoRecords
    DeploymentOf <- TwoDeployments
    OOBSources = {}
    ClusterSources = {}
    Names = {n1, n2}
    ShortName <- OneShortName
    Hosts = {h1, h2, h3}
    AdoptExisting = {dA, dB}
    AdoptFqdn = {dA}
    MetadataOnly = {dA}
    ClearStale = {dB}
    CleanupDeleted = {dA}
    TagSync = {dB}
    MaxEdits = 2
    MaxFaults = 0
    MaxCrashes = 1
SYMMETRY HostSymmetry
INVARIANTS
    TypeOK
    OwnedHostIsLinked
PROPERTIES
    LinkToLiveHostIsKept
    AdoptedHostIsNotMarked
    ImplementsManagedHosts
