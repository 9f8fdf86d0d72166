SPECIFICATION WishesSpec
CONSTANTS
    Agent = Agent
    Jmx = Jmx
    SNMP = Snmp
    tS = tS
    tA = tA
    tI = tI
    here = here
    there = there
    std = std
    odd = odd
    x1 = x1
    Unset = Unset
    NoAddress = NoAddress
    Types = {Agent, Snmp}
    DefaultType = Snmp
    Addresses = {here}
    Ports = {std, odd}
    PrimaryAddress = here
    DefaultPort <- StandardPort
    Configs <- OneAddress
    Templates = {tS, tA, tI}
    ItemTypes <- ItemTypesOf
    HandItems = {x1}
    MaxEdits = 3
    MaxFaults = 1
PROPERTIES
    InterfacesConverge
