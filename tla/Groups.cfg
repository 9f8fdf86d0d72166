SPECIFICATION MCFairSpec
CONSTANTS
    dA = dA
    dB = dB
    s1 = s1
    s2 = s2
    a = a
    ab = ab
    ac = ac
    c = c
    NoSource = NoSource
    Sources = {s1, s2}
    Groups = {a, ab, ac}
    Names <- SharedParent
    Deployments = {dA, dB}
    DeploymentOf <- TwoDeployments
    AzureSources = {s2}
    CreateHostgroups = {dA, dB}
    MaxId = 7
    MaxEdits = 1
    MaxFaults = 1
INVARIANTS
    TypeOK
PROPERTIES
    JoinsOnlyAskedGroups
    CreatedUnderParents
    GroupsConverge
