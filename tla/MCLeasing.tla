------------------------------- MODULE MCLeasing -------------------------------
(* Leasing on small sets: tenants are interchangeable, and so are requests. *)
EXTENDS Leasing, TLC

Symmetric == Permutations(Tenant) \cup Permutations(Request)
===============================================================================
