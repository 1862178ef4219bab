-------------------------- MODULE MCViolationBilling --------------------------
(* ViolationBilling on small sets: requests and actions are interchangeable. *)
EXTENDS ViolationBilling, TLC

Symmetric == Permutations(Request) \cup Permutations(Action)
===============================================================================
