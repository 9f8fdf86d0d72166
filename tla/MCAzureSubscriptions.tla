------------------------ MODULE MCAzureSubscriptions ------------------------
(* Instances of AzureSubscriptions for TLC.                                 *)
EXTENDS AzureSubscriptions

CONSTANTS s1, s2, n1, n2, n3, n4

\* One host of a subscription's name, and one that only bears the name of a
\* subscription as its visible name.
ByHand == {<<n1, n1>>, <<n3, n2>>}

Namesake == {<<n1, n1>>}

MCInit == name = [s \in Subs |-> IF s = s1 THEN n1 ELSE n2] /\ Init

MCSpec     == MCInit /\ [][Next]_vars
MCFairSpec == MCSpec /\ WF_vars(RunStep)
=============================================================================
