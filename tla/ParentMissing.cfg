SPECIFICATION ElsewhereSpec
CONSTANTS
    dA = dA
    dB = dB
    s1 = s1
    s2 = s2
    a = a
    ab = ab
    ac = ac
    c = c
    NoSource = NoSource
    Sources = {s1}
    Groups = {a, ab, c}
    Names <- OneParent
    Deployments = {dA}
    DeploymentOf <- OneDeployment
    AzureSources = {}
    CreateHostgroups = {dA}
    MaxId = 7
    MaxEdits = 1
    MaxFaults = 1
PROPERTIES
    ParentsGetCreated
