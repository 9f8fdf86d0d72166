--------------------- MODULE MCInterfaceReconciliation ---------------------
(* Instances of InterfaceReconciliation for TLC.                            *)
EXTENDS InterfaceReconciliation

CONSTANTS Agent, Jmx, tS, tA, tI, here, there, std, odd, x1

\* The template of the SNMP items, that of the agent items, one of simple checks.
ItemTypesOf == [t \in Templates |-> IF t = tS THEN {SNMP}
                                    ELSE IF t = tA THEN {Agent} ELSE Types]

StandardPort == [t \in Types |-> std]

Blank == [type |-> Unset, addr |-> Unset, port |-> Unset, main |-> Unset, snmp |-> TRUE]
Typed(t) == [Blank EXCEPT !.type = t]
Only(o) == [primary |-> o, more |-> <<>>]
Plus(o, p) == [primary |-> o, more |-> <<p>>]

\* One type or two, at the address of the object.
OneAddress ==
    {Only(Blank), Only(Typed(Agent)), Plus(Blank, Typed(Agent)),
     Plus(Typed(Agent), Typed(SNMP))}

\* Two interfaces of a type, other addresses and ports.
MoreAddresses ==
    {Only(Blank), Only([Typed(Agent) EXCEPT !.port = odd]),
     Only([Blank EXCEPT !.addr = there]),
     Plus(Blank, [Typed(SNMP) EXCEPT !.addr = there]),
     Plus([Blank EXCEPT !.addr = there], Typed(SNMP)),
     Plus(Blank, [Typed(Agent) EXCEPT !.addr = there, !.main = FALSE]),
     Plus(Blank, [Typed(Agent) EXCEPT !.addr = there, !.port = odd]),
     Plus(Typed(Agent), [Typed(Agent) EXCEPT !.addr = there, !.port = odd])}

\* The type and the address of the one interface.
OtherTypeElsewhere == {Only(Blank), Only([Typed(Agent) EXCEPT !.addr = there])}

\* People change wishes and items, and leave the interfaces to the runs.
OnlyRunsTouchInterfaces == edits' = edits \/ UNCHANGED ifaces
WishesSpec == Init /\ [][Next /\ OnlyRunsTouchInterfaces]_vars /\ WF_vars(RunStep)
=============================================================================
