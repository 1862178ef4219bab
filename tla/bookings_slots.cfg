\* Two requests racing over two bookings that compete for a slot.
CONSTANTS
  Booking = {b1, b2}
  Invoice = {i1}
  Request = {r1, r2}
  NoSource = NoSource
  Slot <- MCSlot
  Policy <- MCPartlyCostly
SYMMETRY Symmetric
SPECIFICATION Spec
INVARIANT OverlapExplained
PROPERTY KeepsLedger
