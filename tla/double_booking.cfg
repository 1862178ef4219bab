\* One request at a time: can a slot still be booked twice?
CONSTANTS
  Booking = {b1, b2}
  Invoice = {i1, i2}
  Request = {r1}
  NoSource = NoSource
  Slot <- MCSlot
  Policy <- MCPolicy
SYMMETRY Symmetric
SPECIFICATION Spec
INVARIANT NoDoubleBooking
