SPECIFICATION MCFairSpec
CONSTANTS
    m1 = m1
    m2 = m2
    va = va
    vb = vb
    idA = idA
    px = px
    None = None
    Hidden = Hidden
    Macros = {m1, m2}
    Values = {va, vb}
    Identities = {idA}
    ProxyNames = {px}
    MaxEdits = 2
    MaxFaults = 1
INVARIANTS
    TypeOK
    SecondRunIsSilent
PROPERTIES
    ForeignMacrosAreKept
    SettingsConverge
