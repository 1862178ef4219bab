---------------------------- MODULE MCGateAccess ----------------------------
(* GateAccess on small sets. *)
EXTENDS GateAccess, TLC

Symmetric == Permutations(Request)
===============================================================================
