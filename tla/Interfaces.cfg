SPECIFICATION Spec
CONSTANTS
    Agent = Agent
    Jmx = Jmx
    SNMP = Snmp
    tS = tS
    tA = tA
    tI = tI
    here = here
    there = there
    std = std
    odd = odd
    x1 = x1
    Unset = Unset
    NoAddress = NoAddress
    Types = {Agent, Snmp}
    DefaultType = Snmp
    Addresses = {here, there}
    Ports = {std, odd}
    PrimaryAddress = here
    DefaultPort <- StandardPort
    Configs <- MoreAddresses
    Templates = {tS, tA, tI}
    ItemTypes <- ItemTypesOf
    HandItems = {x1}
    MaxEdits = 2
    MaxFaults = 1
INVARIANTS
    TypeOK
    DoneMeansServed
    SameTypeKeepsItsIds
    SwapFindsItsInterface
PROPERTIES
    MovedItemsAreKept
