-------------------------- MODULE MCBookingBilling --------------------------
(* Small instances of BookingBilling: one facility and date, and one     *)
(* slot or two that overlap.                                               *)
EXTENDS BookingBilling, TLC

MCOneSlot == {[start |-> 600, end |-> 660]}

MCSlot == {[start |-> 600, end |-> 660], [start |-> 630, end |-> 690]}

(* Prepaid, and free of prepayment. *)
MCPolicy ==
  {[active |-> TRUE, prepay |-> TRUE, costly |-> Slot],
   [active |-> TRUE, prepay |-> FALSE, costly |-> Slot]}

(* Prepaid, and only one of the two slots is charged for. *)
MCPartlyCostly ==
  {[active |-> TRUE, prepay |-> TRUE, costly |-> MCOneSlot]}

Symmetric ==
  Permutations(Request) \cup Permutations(Booking) \cup Permutations(Invoice)
=============================================================================
