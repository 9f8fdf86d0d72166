\* A device, its OOB import and a cluster under one deployment, cleanup on, adoption
\* off; names, records and imports change under way.
SPECIFICATION MCSpec
CONSTANTS
    dA = dA
    dB = dB
    r1 = r1
    r2 = r2
    s1 = s1
    s2 = s2
    o1 = o1
    n1 = n1
    n2 = n2
    n3 = n3
    h1 = h1
    h2 = h2
    h3 = h3
    h4 = h4
    NoHost = NoHost
    NoSource = NoSource
    Deployments = {dA}
    Records = {r1, r2}
    Sources = {s1, o1, s2}
    RecordOf <- DeviceAndCluster
    DeploymentOf <- AllMine
    OOBSources = {o1}
    ClusterSources = {s2}
    Names = {n1, n2, n3}
    ShortName <- OwnShortNames
    Hosts = {h1, h2, h3}
    AdoptExisting = {}
    AdoptFqdn = {}
    MetadataOnly = {}
    ClearStale = {dA}
    CleanupDeleted = {dA}
    TagSync = {dA}
    MaxEdits = 2
    MaxFaults = 0
    MaxCrashes = 1
SYMMETRY HostSymmetry
INVARIANTS
    TypeOK
    OwnedHostIsLinked
    ReapedSourceIsGone
    SyncedSourceHasHost
    HostsAreNotShared
PROPERTIES
    ImplementsManagedHosts
