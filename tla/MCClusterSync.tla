---------------------------- MODULE MCClusterSync ----------------------------
(* Model values and symmetry for checking ClusterSync.                      *)
EXTENDS ClusterSync, TLC

CONSTANTS p1, p2, i1, none

MCPrimaries == {p1, p2}
MCOnePrimary == {p1}
MCItems == {i1}
MCNoItems == {}
Symmetry == Permutations(MCPrimaries)
=============================================================================
