--------------------------- MODULE MCHostSettings ---------------------------
(* Instances of HostSettings for TLC.                                       *)
EXTENDS HostSettings, TLC

CONSTANTS m1, m2, va, vb, idA, px

\* One configuration for each mode of the usermacros.
MCConf(mode) == [usermacros |-> mode, tlsSync |-> mode # "off",
                 fullProxy |-> mode \in {"off", "partial"}, zabbix7 |-> mode # "full"]

\* NetBox gives a text macro by its field map, and maybe a secret by the context,
\* and a group there is not yet or only a proxy; Zabbix may hold secrets of its own.
MCInit ==
    /\ conf \in {MCConf(mode) : mode \in Modes}
    /\ \E e \in {None, [type |-> "secret", value |-> va]} :
          want = [NoWish EXCEPT !.field[m1] = va, !.context[m2] = e, !.proxyContext = px,
                                !.group = IF e = None THEN px ELSE None, !.tls = idA]
    /\ \E e \in {None, [type |-> "secret", value |-> vb]} : macros = [k \in Macros |-> e]
    /\ proxies = [q \in Proxies |-> IF q[1] = "group" THEN "new" ELSE "there"]
    /\ tls = "open" /\ proxy = None
    /\ Init

MCSpec     == MCInit /\ [][Next]_vars
MCFairSpec == MCSpec /\ WF_vars(RunStep)
=============================================================================
