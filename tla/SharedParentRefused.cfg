SPECIFICATION MCSpec
CONSTANTS
    dA = dA
    dB = dB
    s1 = s1
    s2 = s2
    a = a
    ab = ab
    ac = ac
    c = c
    NoSource = NoSource
    Sources = {s1, s2}
    Groups = {a, ab, ac}
    Names <- SharedParent
    Deployments = {dA}
    DeploymentOf <- OneDeployment
    AzureSources = {}
    CreateHostgroups = {dA}
    MaxId = 6
    MaxEdits = 0
    MaxFaults = 0
INVARIANTS
    CreatesEachGroupOnce
