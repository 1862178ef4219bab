--------------------------- MODULE BookingBilling ---------------------------
(***************************************************************************)
(* Facility bookings and the invoices they raise.                           *)
(*                                                                          *)
(* BookingsService and InvoicesService are async handlers over PostgreSQL.  *)
(* A handler reads rows, tests them, and later writes: each await outside a *)
(* $transaction is a step of its own, and what it read may be stale by the  *)
(* time it writes.  A $transaction callback is one step here: every callback *)
(* of this module first locks the booking row or the invoice row it updates *)
(* by id, and the lock-order conflict between payment (invoice, booking)    *)
(* and cancellation (booking, invoice) ends in a deadlock abort, which is   *)
(* the action Fail.                                                         *)
(*                                                                          *)
(* All bookings are for one facility and one date: the overlap query keys   *)
(* on both, so others never meet.                                           *)
(***************************************************************************)
EXTENDS Integers, FiniteSets, InvoiceRows

CONSTANTS
  Booking,    \* booking ids
  Invoice,    \* invoice ids
  Request,    \* HTTP requests being served at the same time
  Slot,       \* the [start, end] pairs users ask for, in minutes
  Policy,     \* the facility rows an administrator may save; costly: the
              \* slots that price and billingCycle charge for
  NoSource    \* bookingId of an invoice raised by hand

ASSUME RequestAssumption == IsFiniteSet(Request)
ASSUME SourceAssumption == NoSource \notin Booking
ASSUME SlotAssumption ==
  \A s \in Slot : s.start \in Nat /\ s.end \in Nat /\ s.end > s.start
ASSUME PolicyAssumption ==
  Policy \subseteq [active : BOOLEAN, prepay : BOOLEAN, costly : SUBSET Slot]

VARIABLES
  facility,   \* the facility row
  booking,    \* Booking -> row
  invoice,    \* Invoice -> row, see InvoiceRows
  req,        \* Request -> what the handler has read so far
  hist        \* history, read by no action

vars == <<facility, booking, invoice, req, hist>>

-----------------------------------------------------------------------------
(* Rows and handler states *)

BookingStatus ==
  {"PENDING", "PENDING_PAYMENT", "APPROVED", "CANCELLED", "REJECTED"}

(* refund: cancellationReason ends with [REFUND_REQUIRED] *)
BookingRow ==
  [status : BookingStatus, slot : Slot, refund : BOOLEAN]

Unborn == [status |-> "unborn"]

Idle == [op |-> "idle"]

CreateReq  == [op : {"check", "insert"}, slot : Slot]
ApproveReq == [op : {"approve"}, booking : Booking, billed : BOOLEAN,
               prepay : BOOLEAN, charged : BOOLEAN]
RejectReq  == [op : {"reject"}, booking : Booking]
CancelReq  == [op : {"cancel"}, booking : Booking, sawPaid : BOOLEAN]
InvoiceReq == [op : {"pay", "void"}, invoice : Invoice, saw : {"open", "void"}]
RemoveReq  == [op : {"remove"}, invoice : Invoice]

ReqState ==
  {Idle} \cup CreateReq \cup ApproveReq \cup RejectReq \cup CancelReq
         \cup InvoiceReq \cup RemoveReq

Stored(b) == booking[b].status \in BookingStatus

(* A booking that holds its slot. *)
Live(b) == Stored(b) /\ booking[b].status \notin {"CANCELLED", "REJECTED"}

InvoicesOf(b) == RowsOf(invoice, b)

(* calculateTotalAmount: all that is read of the amount is whether it is    *)
(* above zero; by the hour that depends on the slot.                        *)
Charges(policy, slot) == slot \in policy.costly

(* startTime < other.endTime and endTime > other.startTime *)
Overlap(s, t) == s.start < t.end /\ s.end > t.start

(* The statuses the overlap query leaves out. *)
FreesSlotTooMuch == {"CANCELLED", "REJECTED", "PENDING_PAYMENT"} \* mutated
FreesSlot == {"CANCELLED", "REJECTED"}

(* Which rows updateMany cancels with the booking. *)
VoidedWithBookingPendingOnly == {"PENDING"}                 \* mutated form
VoidedWithBookingPaidToo == {"PENDING", "OVERDUE", "PAID"}  \* mutated form
VoidedWithBooking == {"PENDING", "OVERDUE"}

(* Where approveBooking sends the booking. *)
TargetStatusIgnoringPrepay(q) == "APPROVED"                 \* mutated form
TargetStatusOfInvoice(q) == IF q.prepay THEN "PENDING" ELSE "PAID" \* mutated
TargetStatus(q) ==
  IF q.prepay /\ q.charged THEN "PENDING_PAYMENT" ELSE "APPROVED"

(* Whether approveBooking raises the fee. *)
NeedsInvoiceEveryTime(q) == q.charged                       \* mutated form
NeedsInvoice(q) == q.charged /\ ~q.billed

(* The statuses approveBooking and rejectBooking refuse. *)
ApproveRefusesRejectedOnly == {"REJECTED"}                  \* mutated form
ApproveRefuses == {"CANCELLED", "REJECTED"}
RejectRefuses == {"CANCELLED"}

-----------------------------------------------------------------------------
Init ==
  /\ facility \in Policy
  /\ booking = [b \in Booking |-> Unborn]
  /\ invoice = [i \in Invoice |-> [status |-> "unborn", source |-> NoSource]]
  /\ req = [r \in Request |-> Idle]
  /\ hist = [paid |-> {}, waived |-> {}, revived |-> {}, hidden |-> {}, overrun |-> {}]

Begin(r, state) ==
  /\ req[r] = Idle
  /\ req' = [req EXCEPT ![r] = state]

Finish(r) == req' = [req EXCEPT ![r] = Idle]

SetBooking(b, st) == booking' = [booking EXCEPT ![b].status = st]

(* createBooking: read the facility ... *)
StartCreate(r, s) ==
  /\ facility.active
  /\ Begin(r, [op |-> "check", slot |-> s])
  /\ UNCHANGED <<facility, booking, invoice, hist>>

(* ... look for a booking in the way ... *)
CheckSlot(r) ==
  /\ req[r].op = "check"
  /\ IF \E b \in Booking : /\ Stored(b)
                           /\ booking[b].status \notin FreesSlot
                           /\ Overlap(req[r].slot, booking[b].slot)
     THEN Finish(r)
     ELSE req' = [req EXCEPT ![r].op = "insert"]
  /\ UNCHANGED <<facility, booking, invoice, hist>>

(* History: another creation is past its look for bookings in its way.      *)
OtherInsert(r) ==
  \E s \in Request \ {r} : req[s].op = "insert" /\ Overlap(req[s].slot, req[r].slot)

(* ... and insert. *)
InsertBooking(r, b) ==
  /\ req[r].op = "insert"
  /\ booking[b] = Unborn
  /\ booking' = [booking EXCEPT ![b] =
       [status |-> "PENDING", slot |-> req[r].slot, refund |-> FALSE]]
  /\ Finish(r)
  /\ hist' = [hist EXCEPT !.hidden = IF OtherInsert(r) THEN @ \cup {b} ELSE @]
  /\ UNCHANGED <<facility, invoice>>

(* approveBooking: the booking, its facility and its fee invoices. *)
StartApprove(r, b) ==
  /\ Stored(b)
  /\ booking[b].status \notin ApproveRefuses
  /\ Begin(r, [op |-> "approve", booking |-> b,
               billed |-> InvoicesOf(b) # {},
               prepay |-> facility.prepay,
               charged |-> Charges(facility, booking[b].slot)])
  /\ hist' = [hist EXCEPT !.waived =
       IF facility.prepay /\ Charges(facility, booking[b].slot) THEN @ ELSE @ \cup {b}]
  /\ UNCHANGED <<facility, booking, invoice>>

CommitApprove(r) ==
  /\ req[r].op = "approve"
  /\ LET q == req[r]
         b == q.booking
     IN  /\ SetBooking(b, TargetStatus(q))
         /\ IF NeedsInvoice(q)
            THEN \E i \in Invoice :
                   /\ invoice[i].status = "unborn"
                   /\ invoice' = InsertRow(invoice, i, b)
            ELSE UNCHANGED invoice
         /\ hist' = [hist EXCEPT !.revived = IF Live(b) THEN @ ELSE @ \cup {b}]
  /\ Finish(r)
  /\ UNCHANGED facility

(* rejectBooking writes the booking alone: its invoices stay as they are. *)
StartReject(r, b) ==
  /\ Stored(b)
  /\ booking[b].status \notin RejectRefuses
  /\ Begin(r, [op |-> "reject", booking |-> b])
  /\ UNCHANGED <<facility, booking, invoice, hist>>

CommitReject(r) ==
  /\ req[r].op = "reject"
  /\ SetBooking(req[r].booking, "REJECTED")
  /\ Finish(r)
  /\ UNCHANGED <<facility, invoice, hist>>

(* cancelBooking: hasPaidInvoice is decided on what is read here. *)
StartCancel(r, b) ==
  /\ Stored(b)
  /\ booking[b].status # "CANCELLED"
  /\ Begin(r, [op |-> "cancel", booking |-> b,
               sawPaid |-> \E i \in InvoicesOf(b) : invoice[i].status = "PAID"])
  /\ UNCHANGED <<facility, booking, invoice, hist>>

CommitCancel(r) ==
  /\ req[r].op = "cancel"
  /\ LET b == req[r].booking
     IN  /\ booking' = [booking EXCEPT ![b].status = "CANCELLED",
                                       ![b].refund = req[r].sawPaid]
         /\ invoice' = WriteStatus(invoice,
              {i \in InvoicesOf(b) : invoice[i].status \in VoidedWithBooking},
              "CANCELLED")
  /\ Finish(r)
  /\ UNCHANGED <<facility, hist>>

(* History: the invoice a call writes, when it was settled or voided after  *)
(* the call had read it.                                                    *)
Overrun(r) ==
  {i \in {req[r].invoice} : Seen(invoice[i]) \notin {"open", req[r].saw}}

(* markAsPaid: the status test is before the transaction, and the linked    *)
(* booking becomes APPROVED whatever it is by then.                         *)
StartPay(r, i) ==
  /\ MayPay(invoice[i])
  /\ Begin(r, [op |-> "pay", invoice |-> i, saw |-> Seen(invoice[i])])
  /\ UNCHANGED <<facility, booking, invoice, hist>>

CommitPay(r) ==
  /\ req[r].op = "pay"
  /\ Finish(r)
  /\ LET i == req[r].invoice
         b == invoice[i].source
     IN  IF ~Exists(invoice[i])
         THEN UNCHANGED <<booking, invoice, hist>>   \* P2025: row is gone
         ELSE /\ invoice' = WriteStatus(invoice, {i}, "PAID")
              /\ IF b = NoSource
                 THEN /\ hist' = [hist EXCEPT !.overrun = @ \cup Overrun(r)]
                      /\ UNCHANGED booking
                 ELSE /\ SetBooking(b, "APPROVED")
                      /\ hist' = [hist EXCEPT
                           !.paid = @ \cup {b},
                           !.revived = IF Live(b) THEN @ ELSE @ \cup {b},
                           !.overrun = @ \cup Overrun(r)]
  /\ UNCHANGED facility

(* cancelInvoice *)
StartVoid(r, i) ==
  /\ MayCancel(invoice[i])
  /\ Begin(r, [op |-> "void", invoice |-> i, saw |-> Seen(invoice[i])])
  /\ UNCHANGED <<facility, booking, invoice, hist>>

CommitVoid(r) ==
  /\ req[r].op = "void"
  /\ Finish(r)
  /\ IF Exists(invoice[req[r].invoice])
     THEN /\ invoice' = WriteStatus(invoice, {req[r].invoice}, "CANCELLED")
          /\ hist' = [hist EXCEPT !.overrun = @ \cup Overrun(r)]
     ELSE UNCHANGED <<invoice, hist>>
  /\ UNCHANGED <<facility, booking>>

(* remove *)
StartRemove(r, i) ==
  /\ Exists(invoice[i])
  /\ Begin(r, [op |-> "remove", invoice |-> i])
  /\ UNCHANGED <<facility, booking, invoice, hist>>

CommitRemove(r) ==
  /\ req[r].op = "remove"
  /\ Finish(r)
  /\ IF Exists(invoice[req[r].invoice])
     THEN invoice' = WriteStatus(invoice, {req[r].invoice}, "deleted")
     ELSE UNCHANGED invoice
  /\ UNCHANGED <<facility, booking, hist>>

(* bulkMarkOverdue is one UPDATE; dueDate is the booking's date, so all     *)
(* PENDING rows of the sources that are past due go together.               *)
BulkMarkOverdue(due) ==
  /\ invoice' = WriteStatus(invoice,
       {i \in Invoice : invoice[i].status = "PENDING" /\ invoice[i].source \in due},
       "OVERDUE")
  /\ UNCHANGED <<facility, booking, req, hist>>

(* createInvoice: an invoice raised by hand carries no bookingId. *)
CreateInvoice(i) ==
  /\ invoice[i].status = "unborn"
  /\ invoice' = InsertRow(invoice, i, NoSource)
  /\ UNCHANGED <<facility, booking, req, hist>>

(* updateFacility, toggleFacility *)
UpdateFacility(policy) ==
  /\ facility' = policy
  /\ UNCHANGED <<booking, invoice, req, hist>>

(* A request dies between its read and its write: deadlock victim, lost     *)
(* connection, process restart.                                             *)
Fail(r) ==
  /\ req[r] # Idle
  /\ Finish(r)
  /\ UNCHANGED <<facility, booking, invoice, hist>>

BookingStep(r) ==
  \/ \E s \in Slot : StartCreate(r, s)
  \/ CheckSlot(r)
  \/ \E b \in Booking :
       InsertBooking(r, b) \/ StartApprove(r, b) \/ StartReject(r, b)
                           \/ StartCancel(r, b)
  \/ CommitApprove(r)
  \/ CommitReject(r)
  \/ CommitCancel(r)

InvoiceStep(r) ==
  \/ \E i \in Invoice : StartPay(r, i) \/ StartVoid(r, i) \/ StartRemove(r, i)
  \/ CommitPay(r)
  \/ CommitVoid(r)
  \/ CommitRemove(r)

Next ==
  \/ \E r \in Request : BookingStep(r) \/ InvoiceStep(r) \/ Fail(r)
  \/ \E due \in SUBSET (Booking \cup {NoSource}) : BulkMarkOverdue(due)
  \/ \E i \in Invoice : CreateInvoice(i)
  \/ \E policy \in Policy : UpdateFacility(policy)

Spec == Init /\ [][Next]_vars

-----------------------------------------------------------------------------
(* Properties *)

(* Every row and every handler state has the shape the schema gives it.     *)
TypeOK ==
  /\ facility \in Policy
  /\ booking \in [Booking -> BookingRow \cup {Unborn}]
  /\ invoice \in [Invoice -> InvoiceRow(Booking \cup {NoSource})]
  /\ req \in [Request -> ReqState]
  /\ hist \in [paid : SUBSET Booking, waived : SUBSET Booking, revived : SUBSET Booking,
               hidden : SUBSET Booking, overrun : SUBSET Invoice]

(* A cancelled booking asks for no money: whatever approvals and payments   *)
(* were in flight around cancelBooking, none of its fee invoices is PENDING *)
(* or OVERDUE while the booking is CANCELLED.                               *)
CancelledOwesNothing ==
  \A b \in Booking : booking[b].status = "CANCELLED" =>
    \A i \in InvoicesOf(b) : invoice[i].status \notin Payable

(* An APPROVED booking was paid for at some time, or an approval of it read *)
(* a facility that asked for no prepayment: nothing else gets round the     *)
(* invoice, and a policy that changes between approveBooking's read and its *)
(* write lets through only bookings that were free when it looked.          *)
ApprovedIsPaidOrWaived ==
  \A b \in Booking : booking[b].status = "APPROVED" =>
    b \in hist.paid \cup hist.waived

(* Approvals that found no invoice and may still raise one.                 *)
UnbilledApprovers(b) ==
  {r \in Request : req[r].op = "approve" /\ req[r].booking = b /\ ~req[r].billed}

(* Nothing in approveBooking rechecks for an invoice inside its             *)
(* transaction, so racing approvals may each raise a fee; but a booking     *)
(* never has more fees, raised or about to be, than requests served at the  *)
(* same time.  With one request at a time it has at most one.               *)
FeeBound ==
  \A b \in Booking :
    Cardinality(InvoicesOf(b)) + Cardinality(UnbilledApprovers(b))
      <= Cardinality(Request)

(* The requests that could still bring a cancelled booking back: approvals  *)
(* and rejections that read it before, and payments of its invoices.        *)
MayTouch(r, b) ==
  \/ req[r].op \in {"approve", "reject"} /\ req[r].booking = b
  \/ req[r].op = "pay" /\ invoice[req[r].invoice].source = b

Settled(b) ==
  /\ booking[b].status = "CANCELLED"
  /\ \A r \in Request : ~MayTouch(r, b)

(* A cancellation settles: once the requests that had already read the      *)
(* booking or its invoices are finished, it is CANCELLED for good.  The     *)
(* guards of approveBooking, rejectBooking and markAsPaid, and the voiding  *)
(* in cancelBooking, are all needed for it.                                 *)
CancellationSettles == [][\A b \in Booking : Settled(b) => Settled(b)']_vars

(* "Time slot is already booked for this facility": two live bookings never *)
(* overlap.                                                                 *)
NoDoubleBooking ==
  \A b, c \in Booking :
    b # c /\ Live(b) /\ Live(c) => ~Overlap(booking[b].slot, booking[c].slot)

(* createBooking looks and inserts without a lock, and the payment of an    *)
(* old fee approves a booking whose slot was given away.  Of two live       *)
(* bookings that overlap, one was stored while another creation was past    *)
(* its look, or came back after it was cancelled or rejected; whatever      *)
(* calls overlap, there is no third way.                                    *)
OverlapExplained ==
  \A b, c \in Booking \ (hist.revived \cup hist.hidden) :
    b # c /\ Live(b) /\ Live(c) => ~Overlap(booking[b].slot, booking[c].slot)

(* cancelBooking "flags paid invoices for refund via booking cancellation   *)
(* reason": a cancelled booking with a paid invoice carries the flag.       *)
PaidCancellationIsFlagged ==
  \A b \in Booking : booking[b].status = "CANCELLED" =>
    ((\E i \in InvoicesOf(b) : invoice[i].status = "PAID") => booking[b].refund)

(* The invoice life cycle the API promises, see InvoiceLedger.              *)
LedgerView ==
  [i \in Invoice |-> IF i \in hist.overrun THEN "overrun" ELSE Seen(invoice[i])]

Ledger == INSTANCE InvoiceLedger WITH ledger <- LedgerView

(* Whatever calls overlap, an invoice is issued once, settled or voided but *)
(* never both, and deleted for good, unless a call that had read it open    *)
(* writes it after another has settled or voided it.                        *)
KeepsLedger == Ledger!Spec
=============================================================================
