--------------------------- MODULE MCServiceBilling ---------------------------
(* ServiceBilling on small sets whose members are interchangeable.  Service *)
(* requests and fees share nothing but the table of invoices, so a run      *)
(* looks at histories with the ones or with the others.                     *)
EXTENDS ServiceBilling, TLC

Symmetric == Permutations(Invoice) \cup Permutations(Fee) \cup Permutations(Request)

OneSide ==
  \/ \A k \in Ticket : ticket[k] = Unborn
  \/ \A f \in Fee : fee[f] = "unborn"
===============================================================================
