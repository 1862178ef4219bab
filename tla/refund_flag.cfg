\* A payment racing a cancellation.
CONSTANTS
  Booking = {b1}
  Invoice = {i1, i2}
  Request = {r1, r2}
  NoSource = NoSource
  Slot <- MCOneSlot
  Policy <- MCPolicy
SYMMETRY Symmetric
SPECIFICATION Spec
INVARIANT PaidCancellationIsFlagged
