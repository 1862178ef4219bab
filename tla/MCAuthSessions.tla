--------------------------- MODULE MCAuthSessions ---------------------------
(* AuthSessions on small sets: devices are interchangeable. *)
EXTENDS AuthSessions, TLC

Symmetric == Permutations(Device)
===============================================================================
