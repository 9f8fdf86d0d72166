-------------------------- MODULE MCSyncLifecycle --------------------------
(* Instances of SyncLifecycle for TLC.                                      *)
EXTENDS ManagedHostsRefinement, TLC

CONSTANTS dA, dB, r1, r2, s1, s2, o1, n1, n2, n3, h1, h2, h3, h4

\* One deployment with two sources of its own.
TwoRecords    == s1 :> r1 @@ s2 :> r2
OneDeployment == s1 :> dA @@ s2 :> dA

\* Two deployments with one source each.
TwoDeployments == s1 :> dA @@ s2 :> dB

\* A device and its OOB import.
OneDevice     == s1 :> r1 @@ o1 :> r1
DeviceAndOOB  == s1 :> dA @@ o1 :> dA

\* A device with an OOB import, and a cluster.
DeviceAndCluster == s1 :> r1 @@ o1 :> r1 @@ s2 :> r2
AllMine          == s1 :> dA @@ o1 :> dA @@ s2 :> dA

\* One source alone.
OneRecord     == s1 :> r1
OneSource     == s1 :> dA

\* Names with a domain each of their own, and names that differ only in it.
OwnShortNames == [n \in Names |-> n]
OneShortName  == n1 :> n1 @@ n2 :> n1

HostSymmetry == Permutations(Hosts)

\* Every source starts usable and selected, under a name of its own if it can.
MCInit ==
    /\ life \in [Records -> {"new", "live"}]
    /\ mode = [r \in Records |-> "selected"]
    /\ import = [s \in Sources |-> "usable"]
    /\ name = [s \in Sources |-> IF s = s1 THEN n1
                                 ELSE IF s = o1 /\ n3 \in Names THEN n3 ELSE n2]
    /\ Init

MCSpec     == MCInit /\ [][Next]_vars
MCFairSpec == MCInit /\ [][Next]_vars /\ Fairness
=============================================================================
