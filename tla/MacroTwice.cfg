\* A source without a host, whose record may give a macro twice, in partial mode too.
SPECIFICATION MCFairSpec
CONSTANTS
    m1 = m1
    m2 = m2
    va = va
    vb = vb
    idA = idA
    px = px
    None = None
    Hidden = Hidden
    Macros = {m1, m2}
    Values = {va}
    Identities = {idA}
    ProxyNames = {px}
    MaxEdits = 1
    MaxFaults = 0
PROPERTIES
    GivenTwiceGetsHosted
