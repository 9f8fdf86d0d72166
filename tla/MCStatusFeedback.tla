-------------------------- MODULE MCStatusFeedback --------------------------
(* Instances of StatusFeedback for TLC.                                     *)
EXTENDS StatusFeedback, TLC

CONSTANTS s1, s2, r1, r2, n1, n2, n3, device, subscription

TwoDevices    == [s \in Sources |-> device]
OneOfEachKind == [s \in Sources |-> IF s = s1 THEN device ELSE subscription]

\* Two devices differ in nothing once their names are exchanged with them.
Alike == {s1 :> s2 @@ s2 :> s1 @@ n1 :> n2 @@ n2 :> n1} \cup Permutations(Reasons)

\* Two names, one each; whoever shares one may be renamed to it.
MCInit == name = [s \in Sources |-> IF s = s1 THEN n1 ELSE n2] /\ Init

SharedNameInit == name = [s \in Sources |-> n1] /\ Init

MCSpec         == MCInit /\ [][Next]_vars
MCFairSpec     == MCSpec /\ WF_vars(RunStep)
SharedNameSpec == SharedNameInit /\ [][Next]_vars
=============================================================================
