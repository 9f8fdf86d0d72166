---------------------------- MODULE MCHostGroups ----------------------------
(* Instances of HostGroups for TLC.                                         *)
EXTENDS HostGroups

CONSTANTS dA, dB, s1, s2, a, ab, ac, c

OneDeployment  == [s \in Sources |-> dA]
TwoDeployments == [s \in Sources |-> IF s = s1 THEN dA ELSE dB]

\* "a/b" and "a/c" with the parent they share, which may be asked for itself.
SharedParent == a :> <<a>> @@ ab :> <<ab, a>> @@ ac :> <<ac, a>>

\* "a/b" with its parent, and "c", which has none.
OneParent == a :> <<a>> @@ ab :> <<ab, a>> @@ c :> <<c>>

\* Zabbix starts with at most the parent, for which no source asks yet.
MCInit ==
    /\ want \in [Sources -> SUBSET (Groups \ {a}) \ {{}}]
    /\ gid \in {[g \in Groups |-> 0], [g \in Groups |-> IF g = a THEN 1 ELSE 0]}
    /\ Init

\* Nobody asks for "a/b" yet.
ElsewhereInit ==
    /\ want = [s \in Sources |-> {c}]
    /\ gid = [g \in Groups |-> 0]
    /\ Init

ElsewhereSpec == ElsewhereInit /\ [][Next]_vars
                    /\ \A d \in Deployments : WF_vars(RunStep(d))
MCSpec     == MCInit /\ [][Next]_vars
MCFairSpec == MCSpec /\ \A d \in Deployments : WF_vars(RunStep(d))
=============================================================================
