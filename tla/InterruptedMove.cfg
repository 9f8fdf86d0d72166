SPECIFICATION WishesSpec
CONSTANTS
    Agent = Agent
    Jmx = Jmx
    SNMP = Snmp
    tS = tS
    tA = tA
    tI = tI
    here = here
    there = there
    std = std
    odd = odd
    x1 = x1
    Unset = Unset
    NoAddress = NoAddress
    Types = {Agent, Snmp}
    DefaultType = Snmp
    Addresses = {here, there}
    Ports = {std, odd}
    PrimaryAddress = here
    DefaultPort <- StandardPort
    Configs <- OtherTypeElsewhere
    Templates = {tI}
    ItemTypes <- ItemTypesOf
    HandItems = {x1}
    MaxEdits = 1
    MaxFaults = 1
PROPERTIES
    InterfacesConverge
