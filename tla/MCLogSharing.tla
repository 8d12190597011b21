---------------------------- MODULE MCLogSharing ----------------------------
(* LogSharing for TLC: a node that has two names in turn, two overlapping    *)
(* restores and two overlapping pushes.                                      *)
EXTENDS LogSharing
==============================================================================
