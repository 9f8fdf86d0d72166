---------------------------- MODULE MCDualHosts ----------------------------
(* Instances of DualHosts for TLC.                                          *)
EXTENDS DualHosts, TLC

CONSTANTS short, fqdn, h1, h2, h3, k1, k2

\* The discovered host goes by the short name, the source by the full one.
OneShortName == short :> short @@ fqdn :> short

HostSymmetry == Permutations(Hosts)
=============================================================================
