SPECIFICATION FairSpec
CONSTANTS
    short = short
    fqdn = fqdn
    h1 = h1
    h2 = h2
    h3 = h3
    k1 = k1
    k2 = k2
    NoHost = NoHost
    Kinds = {"vm", "esxi"}
    Hosts = {h1, h2, h3}
    Names = {short, fqdn}
    ShortName <- OneShortName
    MyName = fqdn
    InScope = TRUE
    AdoptFqdn = TRUE
    MetadataOnly = FALSE
    Partial = TRUE
    Keys = {k1}
    NetBoxKeys = {k1}
    MaxEdits = 2
    MaxFaults = 1
INVARIANTS
    TypeOK
PROPERTIES
    HostsAreKeptApart
    DiscoveredHostsAreKept
    DedicatedHostIsInPlace
    LldHostIsEnriched
