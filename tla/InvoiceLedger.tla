--------------------------- MODULE InvoiceLedger ---------------------------
(***************************************************************************)
(* What the invoice API promises its callers, one invoice at a time: it is  *)
(* issued once, then settled or voided, never both ("Paid invoices cannot   *)
(* be cancelled", "Cancelled invoices cannot be paid", "Invoice is already  *)
(* paid"), and deletion is for good.  The tests behind these promises are   *)
(* made before the write: a call that read an open invoice may overrun one  *)
(* that was settled or voided since, and nothing is promised of it then.    *)
(* Which handler performs a step, and what it does to bookings, is left to  *)
(* the detailed module.                                                     *)
(***************************************************************************)
CONSTANT Invoice

VARIABLE ledger

LedgerState == {"absent", "open", "settled", "void", "gone", "overrun"}

Init == ledger = [i \in Invoice |-> "absent"]

Move(S, from, to) ==
  /\ S # {}
  /\ \A i \in S : ledger[i] \in from
  /\ ledger' = [i \in Invoice |-> IF i \in S THEN to ELSE ledger[i]]

Issue(i) == Move({i}, {"absent"}, "open")

Settle(i) == Move({i}, {"open"}, "settled")

(* Cancelling a booking voids all its open invoices at once. *)
Void(S) == Move(S, {"open"}, "void")

Delete(i) == Move({i}, {"open", "settled", "void"}, "gone")

Overrun(i) == Move({i}, {"settled", "void"}, "overrun")

Next ==
  \/ \E i \in Invoice : Issue(i) \/ Settle(i) \/ Delete(i) \/ Overrun(i)
  \/ \E S \in SUBSET Invoice : Void(S)

Spec == Init /\ [][Next]_ledger
=============================================================================
