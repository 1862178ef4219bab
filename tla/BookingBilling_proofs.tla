----------------------- MODULE BookingBilling_proofs -----------------------
(***************************************************************************)
(* Theorems about BookingBilling, for every set of bookings, invoices,      *)
(* slots and facility policies and every number of concurrent requests.     *)
(***************************************************************************)
EXTENDS BookingBilling, FiniteSetTheorems, TLAPS

(* A handler holds references to rows that exist, or once did: no handler    *)
(* here deletes a booking, and an invoice that was read had been inserted.  *)
RefsOk ==
  /\ \A r \in Request :
       /\ req[r].op \in {"approve", "reject", "cancel"} => Stored(req[r].booking)
       /\ req[r].op \in {"pay", "void", "remove"} =>
            invoice[req[r].invoice].status # "unborn"
  /\ \A i \in Invoice :
       invoice[i].status # "unborn" /\ invoice[i].source # NoSource =>
         Stored(invoice[i].source)

(* The part of the inductive invariant that is about shapes.                *)
Shape == TypeOK /\ RefsOk

USE DEF BookingStatus, InvoiceStatus, RowStatus

LEMMA StateOfRequest ==
  ASSUME NEW q \in ReqState
  PROVE  /\ q.op \in {"check", "insert"} => q \in CreateReq
         /\ q.op = "approve" => q \in ApproveReq
         /\ q.op = "reject" => q \in RejectReq
         /\ q.op = "cancel" => q \in CancelReq
         /\ q.op \in {"pay", "void"} => q \in InvoiceReq
         /\ q.op = "remove" => q \in RemoveReq
BY DEF ReqState, Idle, CreateReq, ApproveReq, RejectReq, CancelReq, InvoiceReq,
       RemoveReq

LEMMA RowOfStored ==
  ASSUME TypeOK, NEW b \in Booking, Stored(b)
  PROVE  booking[b] \in BookingRow
BY DEF TypeOK, Stored, Unborn

Rows == InvoiceRow(Booking \cup {NoSource})

Histories ==
  [paid : SUBSET Booking, waived : SUBSET Booking, revived : SUBSET Booking,
   hidden : SUBSET Booking, overrun : SUBSET Invoice]

LEMMA WriteStatusShape ==
  ASSUME NEW table \in [Invoice -> Rows], NEW rows, NEW st \in RowStatus
  PROVE  /\ WriteStatus(table, rows, st) \in [Invoice -> Rows]
         /\ \A i \in Invoice :
              /\ WriteStatus(table, rows, st)[i].source = table[i].source
              /\ WriteStatus(table, rows, st)[i].status =
                   IF i \in rows THEN st ELSE table[i].status
BY DEF WriteStatus, Rows, InvoiceRow

LEMMA InsertRowShape ==
  ASSUME NEW table \in [Invoice -> Rows],
         NEW i \in Invoice, NEW src \in Booking \cup {NoSource}
  PROVE  /\ InsertRow(table, i, src) \in [Invoice -> Rows]
         /\ InsertRow(table, i, src)[i].status = "PENDING"
         /\ InsertRow(table, i, src)[i].source = src
         /\ \A j \in Invoice \ {i} : InsertRow(table, i, src)[j] = table[j]
BY DEF InsertRow, Rows, InvoiceRow

LEMMA SetBookingShape ==
  ASSUME TypeOK, NEW b \in Booking, Stored(b), NEW st \in BookingStatus,
         SetBooking(b, st)
  PROVE  /\ booking' \in [Booking -> BookingRow \cup {Unborn}]
         /\ booking'[b] = [booking[b] EXCEPT !.status = st]
         /\ booking'[b].status = st
         /\ \A c \in Booking \ {b} : booking'[c] = booking[c]
BY RowOfStored DEF TypeOK, SetBooking, BookingRow


LEMMA ShapeInit == Init => Shape
BY SourceAssumption DEF Init, Shape, TypeOK, RefsOk, ReqState, Idle, InvoiceRow, Unborn

(* What a step must do for the shape to survive it. *)
LEMMA ShapeKept ==
  ASSUME Shape,
         facility' \in Policy,
         booking' \in [Booking -> BookingRow \cup {Unborn}],
         invoice' \in [Invoice -> Rows],
         hist' \in Histories,
         req' \in [Request -> ReqState],
         \A b \in Booking : Stored(b) => Stored(b)',
         \A i \in Invoice : invoice[i].status # "unborn" =>
           /\ invoice'[i].status # "unborn"
           /\ invoice'[i].source = invoice[i].source,
         \A i \in Invoice :
           invoice[i].status = "unborn" /\ invoice'[i].status # "unborn"
             /\ invoice'[i].source # NoSource => Stored(invoice'[i].source),
         \A r \in Request : req'[r] # req[r] =>
           /\ req'[r].op \in {"approve", "reject", "cancel"} =>
                req'[r].booking \in Booking /\ Stored(req'[r].booking)
           /\ req'[r].op \in {"pay", "void", "remove"} =>
                req'[r].invoice \in Invoice /\ invoice[req'[r].invoice].status # "unborn"
  PROVE  Shape'
<1>1. TypeOK'
  BY DEF TypeOK, Rows, Histories
<1>2. ASSUME NEW r \in Request
      PROVE  /\ req'[r].op \in {"approve", "reject", "cancel"} =>
                  Stored(req[r].booking)'
             /\ req'[r].op \in {"pay", "void", "remove"} =>
                  invoice'[req'[r].invoice].status # "unborn"
  <2>1. CASE req'[r] # req[r]
    BY <2>1
  <2>2. CASE req'[r] = req[r]
    <3>1. req[r] \in ReqState
      BY DEF Shape, TypeOK, Rows
    <3>2. req[r].op \in {"approve", "reject", "cancel"} => req[r].booking \in Booking
      BY <3>1, StateOfRequest DEF ApproveReq, RejectReq, CancelReq
    <3>3. req[r].op \in {"pay", "void", "remove"} => req[r].invoice \in Invoice
      BY <3>1, StateOfRequest DEF InvoiceReq, RemoveReq
    <3>. QED
      BY <2>2, <3>2, <3>3 DEF Shape, RefsOk
  <2>. QED
    BY <2>1, <2>2
<1>3. ASSUME NEW i \in Invoice, invoice'[i].status # "unborn",
             invoice'[i].source # NoSource
      PROVE  Stored(invoice[i].source)'
  <2>1. invoice'[i].source \in Booking
    BY <1>1, <1>3 DEF TypeOK, Rows, InvoiceRow
  <2>2. Stored(invoice'[i].source)
    BY <1>3 DEF Shape, RefsOk
  <2>. QED
    BY <2>1, <2>2
<1>. QED
  BY <1>1, <1>2, <1>3 DEF Shape, RefsOk

(* A handler that answers leaves no reference behind. *)
LEMMA FinishShape ==
  ASSUME Shape, NEW r \in Request, Finish(r)
  PROVE  /\ req' \in [Request -> ReqState]
         /\ req'[r] = Idle
         /\ \A s \in Request \ {r} : req'[s] = req[s]
BY DEF Shape, TypeOK, Finish, ReqState

LEMMA BeginShape ==
  ASSUME Shape, NEW r \in Request, NEW q \in ReqState, Begin(r, q)
  PROVE  /\ req' \in [Request -> ReqState]
         /\ req[r] = Idle
         /\ req'[r] = q
         /\ \A s \in Request \ {r} : req'[s] = req[s]
BY DEF Shape, TypeOK, Begin

(* Handlers that only read. *)
ReadStep(r) ==
  \/ \E s \in Slot : StartCreate(r, s)
  \/ CheckSlot(r)
  \/ \E b \in Booking : StartApprove(r, b) \/ StartReject(r, b) \/ StartCancel(r, b)
  \/ \E i \in Invoice : StartPay(r, i) \/ StartVoid(r, i) \/ StartRemove(r, i)
  \/ Fail(r)

LEMMA SeenAs ==
  ASSUME NEW row
  PROVE  /\ row.status = "unborn" => Seen(row) = "absent"
         /\ row.status \in Payable => Seen(row) = "open"
         /\ row.status = "PAID" => Seen(row) = "settled"
         /\ row.status = "CANCELLED" => Seen(row) = "void"
         /\ row.status = "deleted" => Seen(row) = "gone"
BY DEF Seen, Payable

(* What markAsPaid and cancelInvoice let through. *)
LEMMA SeenByGuards ==
  ASSUME NEW row
  PROVE  /\ MayPay(row) => Seen(row) = "open"
         /\ MayCancel(row) => Seen(row) \in {"open", "void"}
BY SeenAs DEF MayPay, MayCancel, Exists, Payable

LEMMA ReadStepKeeps ==
  ASSUME Shape, NEW r \in Request, ReadStep(r)
  PROVE  /\ UNCHANGED <<facility, booking, invoice>>
         /\ req' \in [Request -> ReqState]
         /\ \A s \in Request \ {r} : req'[s] = req[s]
         /\ req'[r].op \in {"approve", "reject", "cancel"} =>
              /\ req'[r].booking \in Booking
              /\ Stored(req'[r].booking)
         /\ req'[r].op \in {"pay", "void", "remove"} =>
              /\ req'[r].invoice \in Invoice
              /\ invoice[req'[r].invoice].status # "unborn"
<1>1. ASSUME NEW s \in Slot, StartCreate(r, s)
      PROVE  [op |-> "check", slot |-> s] \in ReqState
  BY DEF ReqState, CreateReq
<1>2. CASE \E s \in Slot : StartCreate(r, s)
  BY <1>1, <1>2, BeginShape DEF StartCreate
<1>3. CASE CheckSlot(r)
  <2>1. req[r] \in CreateReq
    BY <1>3, StateOfRequest DEF Shape, TypeOK, CheckSlot
  <2>2. [req[r] EXCEPT !.op = "insert"] \in CreateReq
    BY <2>1 DEF CreateReq
  <2>3. CASE Finish(r)
    BY <1>3, <2>3, FinishShape DEF CheckSlot, Idle
  <2>4. CASE req' = [req EXCEPT ![r].op = "insert"]
    <3>1. req'[r] = [req[r] EXCEPT !.op = "insert"]
      BY <2>4 DEF Shape, TypeOK, Rows
    <3>2. req'[r] \in CreateReq /\ req'[r].op = "insert"
      BY <2>1, <2>2, <3>1 DEF CreateReq
    <3>3. req' \in [Request -> ReqState] /\ \A s \in Request \ {r} : req'[s] = req[s]
      BY <2>4, <3>1, <3>2 DEF Shape, TypeOK, ReqState
    <3>. QED
      BY <1>3, <3>2, <3>3 DEF CheckSlot
  <2>. QED
    BY <1>3, <2>3, <2>4 DEF CheckSlot
<1>4. CASE \E b \in Booking : StartApprove(r, b)
  <2>1. PICK b \in Booking : StartApprove(r, b)
    BY <1>4
  <2>. DEFINE q == [op |-> "approve", booking |-> b,
                    billed |-> InvoicesOf(b) # {},
                    prepay |-> facility.prepay,
                    charged |-> Charges(facility, booking[b].slot)]
  <2>2. facility.prepay \in BOOLEAN
    BY PolicyAssumption DEF Shape, TypeOK, Rows
  <2>3. q \in ReqState
    BY <2>2 DEF ReqState, ApproveReq, Charges
  <2>4. Begin(r, q)
    BY <2>1 DEF StartApprove
  <2>5. q.op = "approve" /\ q.booking = b
    OBVIOUS
  <2>6. Stored(b)
    BY <2>1 DEF StartApprove
  <2>7. UNCHANGED <<facility, booking, invoice>>
    BY <2>1 DEF StartApprove
  <2>. HIDE DEF q
  <2>. QED
    BY <2>3, <2>4, <2>5, <2>6, <2>7, BeginShape
<1>5. CASE \E b \in Booking : StartReject(r, b)
  <2>1. PICK b \in Booking : StartReject(r, b)
    BY <1>5
  <2>2. [op |-> "reject", booking |-> b] \in ReqState
    BY DEF ReqState, RejectReq
  <2>. QED
    BY <2>1, <2>2, BeginShape DEF StartReject
<1>6. CASE \E b \in Booking : StartCancel(r, b)
  <2>1. PICK b \in Booking : StartCancel(r, b)
    BY <1>6
  <2>. DEFINE q == [op |-> "cancel", booking |-> b,
                    sawPaid |-> \E i \in InvoicesOf(b) : invoice[i].status = "PAID"]
  <2>2. q \in ReqState
    BY DEF ReqState, CancelReq
  <2>3. Begin(r, q) /\ Stored(b) /\ UNCHANGED <<facility, booking, invoice>>
    BY <2>1 DEF StartCancel
  <2>4. q.op = "cancel" /\ q.booking = b
    OBVIOUS
  <2>. HIDE DEF q
  <2>. QED
    BY <2>2, <2>3, <2>4, BeginShape
<1>7. CASE \E i \in Invoice : StartPay(r, i) \/ StartVoid(r, i) \/ StartRemove(r, i)
  <2>1. PICK i \in Invoice : StartPay(r, i) \/ StartVoid(r, i) \/ StartRemove(r, i)
    BY <1>7
  <2>2. [op |-> "remove", invoice |-> i] \in ReqState
    BY DEF ReqState, RemoveReq
  <2>3. Seen(invoice[i]) \in {"open", "void"} =>
          \A o \in {"pay", "void"} :
            [op |-> o, invoice |-> i, saw |-> Seen(invoice[i])] \in ReqState
    BY DEF ReqState, InvoiceReq
  <2>4. invoice[i].status # "unborn"
    BY <2>1 DEF StartPay, StartVoid, StartRemove, MayPay, MayCancel, Exists
  <2>5. CASE StartPay(r, i) \/ StartVoid(r, i)
    <3>1. Seen(invoice[i]) \in {"open", "void"}
      BY <2>5, SeenByGuards DEF StartPay, StartVoid
    <3>. QED
      BY <2>3, <2>4, <2>5, <3>1, BeginShape DEF StartPay, StartVoid
  <2>6. CASE StartRemove(r, i)
    BY <2>2, <2>4, <2>6, BeginShape DEF StartRemove
  <2>. QED
    BY <2>1, <2>5, <2>6
<1>8. CASE Fail(r)
  BY <1>8, FinishShape DEF Fail, Idle
<1>. QED
  BY <1>2, <1>3, <1>4, <1>5, <1>6, <1>7, <1>8 DEF ReadStep

(* The history of a reading step: the approvals that ask for no prepayment. *)
LEMMA ReadStepHistory ==
  ASSUME Shape, NEW r \in Request, ReadStep(r)
  PROVE  /\ hist' \in Histories
         /\ hist'.paid = hist.paid
         /\ hist'.revived = hist.revived
         /\ hist'.hidden = hist.hidden
         /\ hist'.overrun = hist.overrun
         /\ hist.waived \subseteq hist'.waived
<1>0. hist \in Histories
  BY DEF Shape, TypeOK, Histories
<1>1. ASSUME NEW b \in Booking, StartApprove(r, b)
      PROVE  \E W \in SUBSET Booking :
               hist.waived \subseteq W /\ hist' = [hist EXCEPT !.waived = W]
  BY <1>0, <1>1 DEF StartApprove, Histories
<1>2. CASE \E b \in Booking : StartApprove(r, b)
  BY <1>0, <1>1, <1>2 DEF Histories
<1>3. CASE ~\E b \in Booking : StartApprove(r, b)
  <2>1. hist' = hist
    BY <1>3 DEF ReadStep, StartCreate, CheckSlot, StartReject, StartCancel, StartPay,
                StartVoid, StartRemove, Fail
  <2>. QED
    BY <1>0, <2>1
<1>. QED
  BY <1>2, <1>3

LEMMA ReadStepShape ==
  ASSUME Shape, NEW r \in Request, ReadStep(r)
  PROVE  Shape'
<1>1. Shape => /\ facility \in Policy
               /\ booking \in [Booking -> BookingRow \cup {Unborn}]
               /\ invoice \in [Invoice -> Rows]
               /\ hist \in Histories
  BY DEF Shape, TypeOK, Rows, Histories
<1>2. \A b \in Booking : Stored(b) => Stored(b)'
  BY ReadStepKeeps DEF Stored
<1>3. \A s \in Request : req'[s] # req[s] => s = r
  BY ReadStepKeeps
<1>. QED
  BY <1>1, <1>2, <1>3, ReadStepKeeps, ReadStepHistory, ShapeKept

(* A write step that ends the request and leaves invoices to the caller.    *)
LEMMA WriteStepShape ==
  ASSUME Shape, NEW r \in Request, Finish(r),
         facility' = facility,
         booking' \in [Booking -> BookingRow \cup {Unborn}],
         \A b \in Booking : Stored(b) => Stored(b)',
         invoice' \in [Invoice -> Rows],
         \A i \in Invoice : invoice[i].status # "unborn" =>
           /\ invoice'[i].status # "unborn"
           /\ invoice'[i].source = invoice[i].source,
         \A i \in Invoice :
           invoice[i].status = "unborn" /\ invoice'[i].status # "unborn"
             /\ invoice'[i].source # NoSource => Stored(invoice'[i].source),
         hist' \in Histories
  PROVE  Shape'
<1>1. facility' \in Policy
  BY DEF Shape, TypeOK, Rows
<1>2. \A s \in Request : req'[s] # req[s] => req'[s] = Idle
  BY FinishShape
<1>. QED
  BY <1>1, <1>2, FinishShape, ShapeKept DEF Idle

LEMMA ShapeStep == Shape /\ [Next]_vars => Shape'
<1>. SUFFICES ASSUME Shape, [Next]_vars
              PROVE  Shape'
  OBVIOUS
<1>. USE DEF Shape
<1>t. /\ facility \in Policy
      /\ booking \in [Booking -> BookingRow \cup {Unborn}]
      /\ invoice \in [Invoice -> Rows]
      /\ req \in [Request -> ReqState]
      /\ hist \in Histories
  BY DEF TypeOK, Rows, Histories
<1>1. ASSUME NEW r \in Request, ReadStep(r)
      PROVE  Shape'
  BY <1>1, ReadStepShape
<1>2. ASSUME NEW r \in Request, NEW b \in Booking, InsertBooking(r, b)
      PROVE  Shape'
  <2>1. req[r] \in CreateReq
    BY <1>2, <1>t, StateOfRequest DEF InsertBooking
  <2>2. [status |-> "PENDING", slot |-> req[r].slot, refund |-> FALSE] \in BookingRow
    BY <2>1 DEF CreateReq, BookingRow
  <2>3. booking' \in [Booking -> BookingRow \cup {Unborn}]
    BY <1>2, <1>t, <2>2 DEF InsertBooking
  <2>4. \A c \in Booking : Stored(c) => Stored(c)'
    BY <1>2, <1>t DEF InsertBooking, Stored, Unborn
  <2>5. hist' \in Histories
    <3>1. PICK H \in SUBSET Booking : hist' = [hist EXCEPT !.hidden = H]
      BY <1>2, <1>t DEF InsertBooking, Histories
    <3>. QED
      BY <1>t, <3>1 DEF Histories
  <2>. QED
    BY <1>2, <1>t, <2>3, <2>4, <2>5, WriteStepShape DEF InsertBooking
<1>3. ASSUME NEW r \in Request, CommitApprove(r)
      PROVE  Shape'
  <2>. DEFINE b == req[r].booking
  <2>1. req[r] \in ApproveReq /\ b \in Booking /\ Stored(b)
    BY <1>3, <1>t, StateOfRequest DEF CommitApprove, ApproveReq, RefsOk
  <2>2. TargetStatus(req[r]) \in BookingStatus
    BY DEF TargetStatus
  <2>3. SetBooking(b, TargetStatus(req[r])) /\ Finish(r) /\ facility' = facility
    BY <1>3 DEF CommitApprove
  <2>4. /\ booking' \in [Booking -> BookingRow \cup {Unborn}]
        /\ \A c \in Booking : Stored(c) => Stored(c)'
    BY <2>1, <2>2, <2>3, SetBookingShape DEF Stored
  <2>5. \/ UNCHANGED invoice
        \/ \E i \in Invoice : /\ invoice[i].status = "unborn"
                              /\ invoice' = InsertRow(invoice, i, b)
    BY <1>3 DEF CommitApprove
  <2>6. /\ invoice' \in [Invoice -> Rows]
        /\ \A i \in Invoice : invoice[i].status # "unborn" =>
             invoice'[i] = invoice[i]
        /\ \A i \in Invoice :
             invoice[i].status = "unborn" /\ invoice'[i].status # "unborn"
               => invoice'[i].source = b
    <3>1. CASE UNCHANGED invoice
      BY <3>1, <1>t
    <3>2. CASE ~UNCHANGED invoice
      <4>1. PICK i \in Invoice : /\ invoice[i].status = "unborn"
                                 /\ invoice' = InsertRow(invoice, i, b)
        BY <2>5, <3>2
      <4>2. b \in Booking \cup {NoSource}
        BY <2>1
      <4>. HIDE DEF b
      <4>3. /\ invoice' \in [Invoice -> Rows]
            /\ invoice'[i].source = b
            /\ \A j \in Invoice \ {i} : invoice'[j] = invoice[j]
        BY <4>1, <4>2, <1>t, InsertRowShape
      <4>. QED
        BY <4>1, <4>3
    <3>. QED
      BY <3>1, <3>2
  <2>7. hist' \in Histories
    BY <1>3, <2>1, <1>t DEF CommitApprove, Histories
  <2>. QED
    BY <2>1, <2>3, <2>4, <2>6, <2>7, WriteStepShape
<1>4. ASSUME NEW r \in Request, CommitReject(r)
      PROVE  Shape'
  <2>1. req[r].booking \in Booking /\ Stored(req[r].booking)
    BY <1>4, <1>t, StateOfRequest DEF CommitReject, RejectReq, RefsOk
  <2>2. /\ booking' \in [Booking -> BookingRow \cup {Unborn}]
        /\ \A c \in Booking : Stored(c) => Stored(c)'
    BY <1>4, <2>1, SetBookingShape DEF CommitReject, Stored
  <2>. QED
    BY <1>4, <1>t, <2>2, WriteStepShape DEF CommitReject
<1>5. ASSUME NEW r \in Request, CommitCancel(r)
      PROVE  Shape'
  <2>. DEFINE b == req[r].booking
  <2>1. req[r] \in CancelReq /\ b \in Booking /\ booking[b] \in BookingRow
    BY <1>5, <1>t, StateOfRequest, RowOfStored DEF CommitCancel, CancelReq, RefsOk
  <2>2. booking' = [booking EXCEPT ![b] =
          [booking[b] EXCEPT !.status = "CANCELLED", !.refund = req[r].sawPaid]]
    BY <1>5, <2>1, <1>t DEF CommitCancel
  <2>3. [booking[b] EXCEPT !.status = "CANCELLED", !.refund = req[r].sawPaid]
          \in BookingRow
    BY <2>1 DEF BookingRow, CancelReq
  <2>4. /\ booking' \in [Booking -> BookingRow \cup {Unborn}]
        /\ \A c \in Booking : Stored(c) => Stored(c)'
    BY <2>2, <2>3, <2>1, <1>t DEF Stored, BookingRow
  <2>5. PICK S : S \subseteq InvoicesOf(b)
                 /\ invoice' = WriteStatus(invoice, S, "CANCELLED")
    BY <1>5 DEF CommitCancel
  <2>6. \A i \in S : invoice[i].status # "unborn"
    BY <2>5 DEF InvoicesOf, RowsOf, Exists
  <2>7. /\ invoice' \in [Invoice -> Rows]
        /\ \A j \in Invoice : /\ invoice'[j].source = invoice[j].source
                              /\ invoice[j].status = "unborn" <=>
                                   invoice'[j].status = "unborn"
    BY <2>5, <2>6, <1>t, WriteStatusShape
  <2>. QED
    BY <1>5, <1>t, <2>4, <2>7, WriteStepShape DEF CommitCancel
<1>6. ASSUME NEW r \in Request, CommitPay(r)
      PROVE  Shape'
  <2>. DEFINE i == req[r].invoice
  <2>1. i \in Invoice /\ invoice[i].status # "unborn"
    BY <1>6, <1>t, StateOfRequest DEF CommitPay, InvoiceReq, RefsOk
  <2>2. CASE ~Exists(invoice[i])
    BY <1>6, <2>2, <1>t, WriteStepShape DEF CommitPay, Stored
  <2>3. CASE Exists(invoice[i])
    <3>0. invoice' = WriteStatus(invoice, {i}, "PAID")
      BY <1>6, <2>3 DEF CommitPay
    <3>1. /\ invoice' \in [Invoice -> Rows]
          /\ \A j \in Invoice : /\ invoice'[j].source = invoice[j].source
                                /\ invoice[j].status = "unborn" <=>
                                     invoice'[j].status = "unborn"
      <4>1. /\ invoice' \in [Invoice -> Rows]
            /\ \A j \in Invoice : /\ invoice'[j].source = invoice[j].source
                                  /\ invoice'[j].status =
                                       IF j \in {i} THEN "PAID" ELSE invoice[j].status
        <5>1. invoice \in [Invoice -> Rows] /\ "PAID" \in RowStatus
          BY <1>t DEF RowStatus, InvoiceStatus
        <5>. QED
          BY <5>1, <3>0, WriteStatusShape
      <4>. QED
        BY <2>1, <4>1
    <3>. DEFINE O == hist.overrun \cup Overrun(r)
    <3>2. O \in SUBSET Invoice
      BY <2>1, <1>t DEF Overrun, Histories
    <3>3. CASE invoice[i].source = NoSource
      <4>1. Finish(r) /\ UNCHANGED <<facility, booking>>
        BY <1>6, <2>3, <3>3 DEF CommitPay
      <4>2. \A c \in Booking : Stored(c) => Stored(c)'
        BY <4>1 DEF Stored
      <4>3. hist' = [hist EXCEPT !.overrun = O]
        BY <1>6, <2>3, <3>3 DEF CommitPay
      <4>. HIDE DEF O
      <4>4. hist' \in Histories
        BY <3>2, <4>3, <1>t DEF Histories
      <4>. QED
        BY <3>1, <4>1, <4>2, <4>4, <1>t, WriteStepShape
    <3>4. CASE invoice[i].source # NoSource
      <4>. DEFINE b == invoice[i].source
      <4>1. b \in Booking /\ Stored(b)
        BY <2>1, <3>4, <1>t DEF RefsOk, Rows, InvoiceRow
      <4>2. SetBooking(b, "APPROVED")
        BY <1>6, <2>3, <3>4 DEF CommitPay
      <4>3. /\ booking' \in [Booking -> BookingRow \cup {Unborn}]
            /\ \A c \in Booking : Stored(c) => Stored(c)'
        BY <4>1, <4>2, SetBookingShape DEF Stored
      <4>4. hist' \in Histories
        <5>1. PICK R \in {hist.revived, hist.revived \cup {b}} :
                hist' = [hist EXCEPT !.paid = hist.paid \cup {b}, !.revived = R,
                                     !.overrun = O]
          BY <1>6, <2>3, <3>4, <1>t DEF CommitPay
        <5>. HIDE DEF O
        <5>. QED
          BY <3>2, <5>1, <4>1, <1>t DEF Histories
      <4>. QED
        BY <1>6, <3>1, <4>3, <4>4, WriteStepShape DEF CommitPay
    <3>. QED
      BY <3>3, <3>4
  <2>. QED
    BY <2>2, <2>3
<1>7. ASSUME NEW r \in Request, CommitVoid(r) \/ CommitRemove(r)
      PROVE  Shape'
  <2>1. req[r].invoice \in Invoice /\ invoice[req[r].invoice].status # "unborn"
    BY <1>7, <1>t, StateOfRequest DEF CommitVoid, CommitRemove, InvoiceReq, RemoveReq, RefsOk
  <2>2. PICK st \in {"CANCELLED", "deleted"} :
          invoice' = invoice \/ invoice' = WriteStatus(invoice, {req[r].invoice}, st)
    BY <1>7 DEF CommitVoid, CommitRemove
  <2>3. /\ invoice' \in [Invoice -> Rows]
        /\ \A j \in Invoice : /\ invoice'[j].source = invoice[j].source
                              /\ invoice[j].status = "unborn" <=>
                                   invoice'[j].status = "unborn"
    <3>. DEFINE i == req[r].invoice
    <3>1. CASE invoice' = invoice
      BY <3>1, <1>t
    <3>2. CASE invoice' = WriteStatus(invoice, {i}, st)
      <4>1. invoice \in [Invoice -> Rows] /\ st \in RowStatus
        BY <1>t DEF RowStatus, InvoiceStatus
      <4>2. /\ invoice' \in [Invoice -> Rows]
            /\ \A j \in Invoice : /\ invoice'[j].source = invoice[j].source
                                  /\ invoice'[j].status =
                                       IF j \in {i} THEN st ELSE invoice[j].status
        BY <3>2, <4>1, WriteStatusShape
      <4>. QED
        BY <2>1, <4>2
    <3>. QED
      BY <2>2, <3>1, <3>2
  <2>4. Finish(r) /\ UNCHANGED <<facility, booking>>
    BY <1>7 DEF CommitVoid, CommitRemove
  <2>5. \A c \in Booking : Stored(c) => Stored(c)'
    BY <2>4 DEF Stored
  <2>6. hist' \in Histories
    <3>1. PICK O \in SUBSET Invoice :
            hist' = hist \/ hist' = [hist EXCEPT !.overrun = O]
      <4>1. hist.overrun \cup Overrun(r) \in SUBSET Invoice
        BY <2>1, <1>t DEF Overrun, Histories
      <4>. QED
        BY <1>7, <4>1 DEF CommitVoid, CommitRemove
    <3>. QED
      BY <3>1, <1>t DEF Histories
  <2>. QED
    BY <2>3, <2>4, <2>5, <2>6, <1>t, WriteStepShape
<1>8. ASSUME NEW due, BulkMarkOverdue(due)
      PROVE  Shape'
  <2>1. /\ invoice' \in [Invoice -> Rows]
        /\ \A j \in Invoice : /\ invoice'[j].source = invoice[j].source
                              /\ invoice[j].status = "unborn" <=>
                                   invoice'[j].status = "unborn"
    <3>. DEFINE S == {i \in Invoice : /\ invoice[i].status = "PENDING"
                                      /\ invoice[i].source \in due}
    <3>1. invoice' = WriteStatus(invoice, S, "OVERDUE")
      BY <1>8 DEF BulkMarkOverdue
    <3>2. \A j \in S : invoice[j].status # "unborn"
      OBVIOUS
    <3>. HIDE DEF S
    <3>. QED
      BY <1>t, <3>1, <3>2, WriteStatusShape
  <2>. QED
    BY <1>8, <2>1, <1>t, ShapeKept DEF BulkMarkOverdue, Stored
<1>9. ASSUME NEW i \in Invoice, CreateInvoice(i)
      PROVE  Shape'
  <2>1. /\ invoice' \in [Invoice -> Rows]
        /\ invoice'[i].source = NoSource /\ invoice'[i].status # "unborn"
        /\ \A j \in Invoice \ {i} : invoice'[j] = invoice[j]
    BY <1>9, <1>t, InsertRowShape DEF CreateInvoice
  <2>. QED
    BY <1>9, <2>1, <1>t, ShapeKept DEF CreateInvoice, Stored
<1>10. ASSUME NEW policy \in Policy, UpdateFacility(policy)
       PROVE  Shape'
  BY <1>10, <1>t, ShapeKept DEF UpdateFacility, Stored
<1>11. CASE UNCHANGED vars
  BY <1>11, <1>t, ShapeKept DEF vars, Stored
<1>. QED
  BY <1>1, <1>2, <1>3, <1>4, <1>5, <1>6, <1>7, <1>8, <1>9, <1>10, <1>11,
     SourceAssumption
     DEF Next, BookingStep, InvoiceStep, ReadStep

(* Type correctness: every handler interleaving keeps rows and snapshots in *)
(* the shapes the schema and the handlers give them, and no write follows a *)
(* reference to a row that never existed.                                   *)
THEOREM TypeCorrect == Spec => []TypeOK
<1>1. Spec => []Shape
  BY ShapeInit, ShapeStep, PTL DEF Spec
<1>2. Shape => TypeOK
  BY DEF Shape
<1>. QED
  BY <1>1, <1>2, PTL

-----------------------------------------------------------------------------
(* Money *)

LEMMA TypeFacts ==
  ASSUME Shape
  PROVE  /\ facility \in Policy
         /\ booking \in [Booking -> BookingRow \cup {Unborn}]
         /\ invoice \in [Invoice -> Rows]
         /\ req \in [Request -> ReqState]
         /\ hist \in Histories
BY DEF Shape, TypeOK, Rows, Histories

LEMMA RequestFacts ==
  ASSUME Shape, NEW r \in Request
  PROVE  /\ req[r].op \in {"approve", "reject", "cancel"} =>
              /\ req[r].booking \in Booking
              /\ Stored(req[r].booking)
         /\ req[r].op \in {"pay", "void", "remove"} =>
              /\ req[r].invoice \in Invoice
              /\ invoice[req[r].invoice].status # "unborn"
         /\ req[r].op = "approve" => req[r] \in ApproveReq
         /\ req[r].op = "cancel" => req[r] \in CancelReq
BY StateOfRequest
   DEF Shape, TypeOK, RefsOk, ApproveReq, RejectReq, CancelReq, InvoiceReq, RemoveReq

(* The effects of the write steps, as facts about single rows. *)
LEMMA ApproveEffect ==
  ASSUME Shape, NEW r \in Request, CommitApprove(r)
  PROVE  /\ req[r].op = "approve"
         /\ req[r].booking \in Booking
         /\ booking'[req[r].booking].status = TargetStatus(req[r])
         /\ \A c \in Booking \ {req[r].booking} : booking'[c] = booking[c]
         /\ \/ UNCHANGED invoice
            \/ \E i \in Invoice :
                 /\ NeedsInvoice(req[r])
                 /\ invoice[i].status = "unborn"
                 /\ invoice'[i].status = "PENDING"
                 /\ invoice'[i].source = req[r].booking
                 /\ \A j \in Invoice \ {i} : invoice'[j] = invoice[j]
<1>. DEFINE b == req[r].booking
<1>1. req[r].op = "approve" /\ b \in Booking /\ Stored(b)
  BY RequestFacts DEF CommitApprove
<1>2. SetBooking(b, TargetStatus(req[r]))
  BY DEF CommitApprove
<1>3. /\ booking'[b].status = TargetStatus(req[r])
      /\ \A c \in Booking \ {b} : booking'[c] = booking[c]
  BY <1>1, <1>2, SetBookingShape DEF Shape, TargetStatus
<1>4. CASE UNCHANGED invoice
  BY <1>1, <1>3, <1>4
<1>5. CASE ~UNCHANGED invoice
  <2>1. PICK i \in Invoice : /\ NeedsInvoice(req[r])
                             /\ invoice[i].status = "unborn"
                             /\ invoice' = InsertRow(invoice, i, b)
    BY <1>5 DEF CommitApprove
  <2>2. b \in Booking \cup {NoSource} /\ i \in Invoice
    BY <1>1
  <2>. HIDE DEF b
  <2>3. /\ invoice'[i].status = "PENDING"
        /\ invoice'[i].source = b
        /\ \A j \in Invoice \ {i} : invoice'[j] = invoice[j]
    BY <2>1, <2>2, TypeFacts, InsertRowShape
  <2>. QED
    BY <1>1, <1>3, <2>1, <2>3 DEF b
<1>. QED
  BY <1>4, <1>5

LEMMA RejectEffect ==
  ASSUME Shape, NEW r \in Request, CommitReject(r)
  PROVE  /\ req[r].op = "reject"
         /\ req[r].booking \in Booking
         /\ booking'[req[r].booking].status = "REJECTED"
         /\ \A c \in Booking \ {req[r].booking} : booking'[c] = booking[c]
         /\ UNCHANGED <<invoice, hist>>
BY RequestFacts, SetBookingShape DEF CommitReject, Shape

LEMMA CancelEffect ==
  ASSUME Shape, NEW r \in Request, CommitCancel(r)
  PROVE  /\ req[r].op = "cancel"
         /\ req[r].booking \in Booking
         /\ booking'[req[r].booking].status = "CANCELLED"
         /\ \A c \in Booking \ {req[r].booking} : booking'[c] = booking[c]
         /\ \A i \in Invoice :
              /\ invoice'[i].source = invoice[i].source
              /\ invoice'[i].status =
                   IF i \in InvoicesOf(req[r].booking) /\ invoice[i].status \in Payable
                   THEN "CANCELLED" ELSE invoice[i].status
         /\ UNCHANGED hist
<1>. DEFINE b == req[r].booking
<1>1. req[r].op = "cancel" /\ b \in Booking /\ Stored(b)
  BY RequestFacts DEF CommitCancel
<1>2. booking[b] \in BookingRow
  BY <1>1, RowOfStored DEF Shape
<1>3. /\ booking'[b].status = "CANCELLED"
      /\ \A c \in Booking \ {b} : booking'[c] = booking[c]
  BY <1>1, <1>2, TypeFacts DEF CommitCancel, BookingRow
<1>. DEFINE S == {i \in InvoicesOf(b) : invoice[i].status \in VoidedWithBooking}
<1>4. invoice' = WriteStatus(invoice, S, "CANCELLED") /\ UNCHANGED hist
  BY DEF CommitCancel
<1>5. \A i \in S : i \in InvoicesOf(b) /\ invoice[i].status \in Payable
  BY DEF VoidedWithBooking, Payable
<1>6. \A i : i \in InvoicesOf(b) /\ invoice[i].status \in Payable => i \in S
  BY DEF VoidedWithBooking, Payable
<1>. HIDE DEF S
<1>7. \A i \in Invoice :
        /\ invoice'[i].source = invoice[i].source
        /\ invoice'[i].status = IF i \in S THEN "CANCELLED" ELSE invoice[i].status
  BY <1>4, TypeFacts, WriteStatusShape
<1>. QED
  BY <1>1, <1>3, <1>4, <1>5, <1>6, <1>7

LEMMA PayEffect ==
  ASSUME Shape, NEW r \in Request, CommitPay(r)
  PROVE  LET i == req[r].invoice
             b == invoice[i].source
         IN  /\ req[r].op = "pay"
             /\ i \in Invoice
             /\ \A j \in Invoice :
                  /\ invoice'[j].source = invoice[j].source
                  /\ invoice'[j].status = IF j = i /\ Exists(invoice[i])
                                          THEN "PAID" ELSE invoice[j].status
             /\ Exists(invoice[i]) /\ b # NoSource =>
                  b \in Booking /\ booking'[b].status = "APPROVED" /\ b \in hist'.paid
             /\ \A c \in Booking :
                  c # b \/ ~Exists(invoice[i]) => booking'[c] = booking[c]
             /\ hist.paid \subseteq hist'.paid
             /\ hist'.waived = hist.waived
<1>. DEFINE i == req[r].invoice
            b == invoice[i].source
<1>1. req[r].op = "pay" /\ i \in Invoice /\ invoice[i].status # "unborn"
  BY RequestFacts DEF CommitPay
<1>2. CASE ~Exists(invoice[i])
  BY <1>1, <1>2 DEF CommitPay
<1>3. CASE Exists(invoice[i])
  <2>1. invoice' = WriteStatus(invoice, {i}, "PAID")
    BY <1>3 DEF CommitPay
  <2>2. \A j \in Invoice :
          /\ invoice'[j].source = invoice[j].source
          /\ invoice'[j].status = IF j = i THEN "PAID" ELSE invoice[j].status
    BY <2>1, TypeFacts, WriteStatusShape
  <2>3. CASE b = NoSource
    <3>1. booking' = booking /\ \E O : hist' = [hist EXCEPT !.overrun = O]
      BY <1>3, <2>3 DEF CommitPay
    <3>2. hist'.paid = hist.paid /\ hist'.waived = hist.waived
      BY <3>1, TypeFacts DEF Histories
    <3>. QED
      BY <1>1, <1>3, <2>2, <2>3, <3>1, <3>2
  <2>4. CASE b # NoSource
    <3>1. b \in Booking /\ Stored(b)
      BY <1>1, <2>4, TypeFacts DEF Shape, RefsOk, Rows, InvoiceRow
    <3>2. SetBooking(b, "APPROVED")
      BY <1>3, <2>4 DEF CommitPay
    <3>3. /\ booking'[b].status = "APPROVED"
          /\ \A c \in Booking \ {b} : booking'[c] = booking[c]
      BY <3>1, <3>2, SetBookingShape DEF Shape
    <3>4. PICK R, O :
            hist' = [hist EXCEPT !.paid = hist.paid \cup {b}, !.revived = R, !.overrun = O]
      BY <1>3, <2>4 DEF CommitPay
    <3>5. /\ b \in hist'.paid
          /\ hist.paid \subseteq hist'.paid
          /\ hist'.waived = hist.waived
      BY <3>4, TypeFacts DEF Histories
    <3>. QED
      BY <1>1, <1>3, <2>2, <3>1, <3>3, <3>5
  <2>. QED
    BY <2>3, <2>4
<1>. QED
  BY <1>2, <1>3

LEMMA DropEffect ==
  ASSUME Shape, NEW r \in Request, CommitVoid(r) \/ CommitRemove(r)
  PROVE  /\ UNCHANGED booking
         /\ hist'.paid = hist.paid
         /\ hist'.waived = hist.waived
         /\ hist'.revived = hist.revived
         /\ hist'.hidden = hist.hidden
         /\ req[r].op \in {"void", "remove"}
         /\ req[r].invoice \in Invoice
         /\ \A j \in Invoice :
              /\ invoice'[j].source = invoice[j].source
              /\ \/ invoice'[j].status = invoice[j].status
                 \/ /\ j = req[r].invoice
                    /\ Exists(invoice[j])
                    /\ \/ CommitVoid(r) /\ invoice'[j].status = "CANCELLED"
                       \/ CommitRemove(r) /\ invoice'[j].status = "deleted"
<1>0. \E O : hist' \in {hist, [hist EXCEPT !.overrun = O]}
  BY DEF CommitVoid, CommitRemove
<1>1. /\ UNCHANGED booking
      /\ hist'.paid = hist.paid
      /\ hist'.waived = hist.waived
      /\ hist'.revived = hist.revived
      /\ hist'.hidden = hist.hidden
      /\ req[r].op \in {"void", "remove"}
      /\ req[r].invoice \in Invoice
  BY <1>0, RequestFacts, TypeFacts DEF CommitVoid, CommitRemove, Histories
<1>2. CASE UNCHANGED invoice
  BY <1>1, <1>2
<1>3. CASE ~UNCHANGED invoice /\ CommitVoid(r)
  <2>1. /\ Exists(invoice[req[r].invoice])
        /\ invoice' = WriteStatus(invoice, {req[r].invoice}, "CANCELLED")
    BY <1>3 DEF CommitVoid
  <2>. QED
    BY <1>1, <1>3, <2>1, TypeFacts, WriteStatusShape
<1>4. CASE ~UNCHANGED invoice /\ CommitRemove(r)
  <2>1. /\ Exists(invoice[req[r].invoice])
        /\ invoice' = WriteStatus(invoice, {req[r].invoice}, "deleted")
    BY <1>4 DEF CommitRemove
  <2>. QED
    BY <1>1, <1>4, <2>1, TypeFacts, WriteStatusShape
<1>. QED
  BY <1>2, <1>3, <1>4

LEMMA OverdueEffect ==
  ASSUME Shape, NEW due, BulkMarkOverdue(due)
  PROVE  /\ UNCHANGED <<booking, req, hist>>
         /\ \A j \in Invoice :
              /\ invoice'[j].source = invoice[j].source
              /\ \/ invoice'[j].status = invoice[j].status
                 \/ invoice[j].status = "PENDING" /\ invoice'[j].status = "OVERDUE"
<1>. DEFINE S == {i \in Invoice : /\ invoice[i].status = "PENDING"
                                  /\ invoice[i].source \in due}
<1>1. invoice' = WriteStatus(invoice, S, "OVERDUE")
  BY DEF BulkMarkOverdue
<1>2. \A j \in S : invoice[j].status = "PENDING"
  OBVIOUS
<1>. HIDE DEF S
<1>. QED
  BY <1>1, <1>2, TypeFacts, WriteStatusShape DEF BulkMarkOverdue

LEMMA ByHandEffect ==
  ASSUME Shape, NEW i \in Invoice, CreateInvoice(i)
  PROVE  /\ UNCHANGED <<booking, req, hist>>
         /\ invoice[i].status = "unborn"
         /\ invoice'[i].status = "PENDING"
         /\ invoice'[i].source = NoSource
         /\ \A j \in Invoice \ {i} : invoice'[j] = invoice[j]
BY TypeFacts, InsertRowShape DEF CreateInvoice

(* CancelledOwesNothing, row by row. *)
LEMMA OwesRowByRow ==
  ASSUME Shape
  PROVE  CancelledOwesNothing <=>
           \A b \in Booking, i \in Invoice :
             booking[b].status = "CANCELLED" /\ invoice[i].source = b =>
               invoice[i].status \notin Payable
BY TypeFacts DEF CancelledOwesNothing, InvoicesOf, RowsOf, Exists, Payable

LEMMA OwesNothingKept ==
  ASSUME Shape, Shape', CancelledOwesNothing,
         \A b \in Booking, i \in Invoice :
           /\ booking'[b].status = "CANCELLED" /\ invoice'[i].source = b
           /\ invoice'[i].status \in Payable
           => booking[b].status = "CANCELLED" /\ invoice[i].source = b
              /\ invoice[i].status \in Payable
  PROVE  CancelledOwesNothing'
<1>1. \A b \in Booking, i \in Invoice :
        booking'[b].status = "CANCELLED" /\ invoice'[i].source = b =>
          invoice'[i].status \notin Payable
  BY OwesRowByRow
<1>2. DOMAIN invoice' = Invoice
  BY DEF Shape, TypeOK
<1>. QED
  BY <1>1, <1>2 DEF CancelledOwesNothing, InvoicesOf, RowsOf, Exists, Payable

LEMMA CancelledOwesNothingStep ==
  Shape /\ CancelledOwesNothing /\ [Next]_vars => CancelledOwesNothing'
<1>. SUFFICES ASSUME Shape, CancelledOwesNothing, [Next]_vars
              PROVE  CancelledOwesNothing'
  OBVIOUS
<1>0. Shape'
  BY ShapeStep
<1>. USE DEF Payable
<1>1. ASSUME NEW r \in Request, ReadStep(r)
      PROVE  CancelledOwesNothing'
  BY <1>1, <1>0, ReadStepKeeps, OwesNothingKept
<1>2. ASSUME NEW r \in Request, NEW b \in Booking, InsertBooking(r, b)
      PROVE  CancelledOwesNothing'
  <2>1. \A c \in Booking : booking'[c].status = "CANCELLED" => booking'[c] = booking[c]
    BY <1>2, TypeFacts DEF InsertBooking
  <2>2. UNCHANGED invoice
    BY <1>2 DEF InsertBooking
  <2>. QED
    BY <1>0, <2>1, <2>2, OwesNothingKept
<1>3. ASSUME NEW r \in Request, CommitApprove(r)
      PROVE  CancelledOwesNothing'
  <2>1. TargetStatus(req[r]) # "CANCELLED"
    BY DEF TargetStatus
  <2>. QED
    BY <1>0, <1>3, <2>1, ApproveEffect, OwesNothingKept
<1>4. ASSUME NEW r \in Request, CommitReject(r)
      PROVE  CancelledOwesNothing'
  BY <1>0, <1>4, RejectEffect, OwesNothingKept
<1>5. ASSUME NEW r \in Request, CommitCancel(r)
      PROVE  CancelledOwesNothing'
  <2>1. \A i \in Invoice : invoice[i].source = req[r].booking
                           /\ invoice[i].status \in Payable
                           => i \in InvoicesOf(req[r].booking)
    BY TypeFacts DEF InvoicesOf, RowsOf, Exists
  <2>. QED
    BY <1>0, <1>5, <2>1, CancelEffect, OwesNothingKept
<1>6. ASSUME NEW r \in Request, CommitPay(r)
      PROVE  CancelledOwesNothing'
  <2>1. \A c \in Booking : booking'[c].status = "CANCELLED" => booking'[c] = booking[c]
    BY <1>6, PayEffect, SourceAssumption
  <2>2. \A i \in Invoice : /\ invoice'[i].source = invoice[i].source
                           /\ invoice'[i].status \in {"PAID", invoice[i].status}
    BY <1>6, PayEffect
  <2>. QED
    BY <1>0, <2>1, <2>2, OwesNothingKept
<1>7. ASSUME NEW r \in Request, CommitVoid(r) \/ CommitRemove(r)
      PROVE  CancelledOwesNothing'
  BY <1>0, <1>7, DropEffect, OwesNothingKept
<1>8. ASSUME NEW due, BulkMarkOverdue(due)
      PROVE  CancelledOwesNothing'
  BY <1>0, <1>8, OverdueEffect, OwesNothingKept
<1>9. ASSUME NEW i \in Invoice, CreateInvoice(i)
      PROVE  CancelledOwesNothing'
  BY <1>0, <1>9, SourceAssumption, ByHandEffect, OwesNothingKept
<1>10. ASSUME NEW policy \in Policy, UpdateFacility(policy)
       PROVE  CancelledOwesNothing'
  BY <1>0, <1>10, OwesNothingKept DEF UpdateFacility
<1>11. CASE UNCHANGED vars
  BY <1>0, <1>11, OwesNothingKept DEF vars
<1>. QED
  BY <1>1, <1>2, <1>3, <1>4, <1>5, <1>6, <1>7, <1>8, <1>9, <1>10, <1>11
     DEF Next, BookingStep, InvoiceStep, ReadStep

(* No interleaving of approvals, payments, voidings and cancellations       *)
(* leaves a cancelled booking with a payable fee.                           *)
THEOREM NothingOwed == Spec => []CancelledOwesNothing
<1>1. Init => CancelledOwesNothing
  BY DEF Init, CancelledOwesNothing, Unborn
<1>. QED
  BY <1>1, ShapeInit, ShapeStep, CancelledOwesNothingStep, PTL DEF Spec

LEMMA ApproveHistory ==
  ASSUME Shape, NEW r \in Request, CommitApprove(r)
  PROVE  /\ hist'.paid = hist.paid
         /\ hist'.waived = hist.waived
         /\ hist'.hidden = hist.hidden
         /\ hist.revived \subseteq hist'.revived
         /\ ~Live(req[r].booking) => req[r].booking \in hist'.revived
<1>1. PICK R : /\ hist' = [hist EXCEPT !.revived = R]
               /\ R = IF Live(req[r].booking) THEN hist.revived
                      ELSE hist.revived \cup {req[r].booking}
  BY DEF CommitApprove
<1>. QED
  BY <1>1, TypeFacts DEF Histories

LEMMA InsertHistory ==
  ASSUME Shape, NEW r \in Request, NEW b \in Booking, InsertBooking(r, b)
  PROVE  /\ hist'.paid = hist.paid
         /\ hist'.waived = hist.waived
         /\ hist'.revived = hist.revived
         /\ hist'.hidden = IF OtherInsert(r) THEN hist.hidden \cup {b} ELSE hist.hidden
BY TypeFacts DEF InsertBooking, Histories

(* An approval in hand that asks for no prepayment is on record as such.    *)
WaiversKnown ==
  \A r \in Request :
    req[r].op = "approve" /\ TargetStatus(req[r]) = "APPROVED" =>
      req[r].booking \in hist.waived

WaivedInv == WaiversKnown /\ ApprovedIsPaidOrWaived

LEMMA ReadStepWaives ==
  ASSUME Shape, WaiversKnown, NEW r \in Request, ReadStep(r)
  PROVE  WaiversKnown'
<1>1. ASSUME NEW b \in Booking, StartApprove(r, b)
      PROVE  /\ req'[r].booking = b
             /\ TargetStatus(req'[r]) = "APPROVED" => b \in hist'.waived
  <2>1. /\ req'[r].booking = b
        /\ req'[r].prepay = facility.prepay
        /\ req'[r].charged = Charges(facility, booking[b].slot)
    BY <1>1, TypeFacts DEF StartApprove, Begin
  <2>2. hist'.waived = IF facility.prepay /\ Charges(facility, booking[b].slot)
                       THEN hist.waived ELSE hist.waived \cup {b}
    BY <1>1, TypeFacts DEF StartApprove, Histories
  <2>. QED
    BY <2>1, <2>2 DEF TargetStatus
<1>2. ASSUME ~\E b \in Booking : StartApprove(r, b)
      PROVE  req'[r].op # "approve"
  <2>1. CASE CheckSlot(r)
    <3>1. req[r] \in CreateReq
      BY <2>1, StateOfRequest, TypeFacts DEF CheckSlot
    <3>2. req'[r] \in {Idle, [req[r] EXCEPT !.op = "insert"]}
      BY <2>1, FinishShape, TypeFacts DEF CheckSlot
    <3>. QED
      BY <3>1, <3>2 DEF CreateReq, Idle
  <2>2. CASE Fail(r)
    BY <2>2, FinishShape DEF Fail, Idle
  <2>. QED
    BY <1>2, <2>1, <2>2, TypeFacts
       DEF ReadStep, StartCreate, StartReject, StartCancel, StartPay, StartVoid,
           StartRemove, Begin
<1>. QED
  BY <1>1, <1>2, ReadStepKeeps, ReadStepHistory DEF WaiversKnown, TargetStatus

LEMMA WaivedInvStep == Shape /\ WaivedInv /\ [Next]_vars => WaivedInv'
<1>. SUFFICES ASSUME Shape, WaivedInv, [Next]_vars
              PROVE  WaivedInv'
  OBVIOUS
<1>. USE DEF ApprovedIsPaidOrWaived, WaivedInv
<1>f. ASSUME NEW r \in Request, Finish(r), hist.waived \subseteq hist'.waived
      PROVE  WaiversKnown'
  BY <1>f, FinishShape DEF WaiversKnown, Idle, TargetStatus
<1>u. ASSUME UNCHANGED <<req, hist>>
      PROVE  WaiversKnown'
  BY <1>u DEF WaiversKnown, TargetStatus
<1>1. ASSUME NEW r \in Request, ReadStep(r)
      PROVE  WaivedInv'
  BY <1>1, ReadStepKeeps, ReadStepHistory, ReadStepWaives
<1>2. ASSUME NEW r \in Request, NEW b \in Booking, InsertBooking(r, b)
      PROVE  WaivedInv'
  <2>1. \A c \in Booking : booking'[c].status = "APPROVED" => booking'[c] = booking[c]
    BY <1>2, TypeFacts DEF InsertBooking
  <2>. QED
    BY <1>2, <1>f, <2>1, InsertHistory DEF InsertBooking
<1>3. ASSUME NEW r \in Request, CommitApprove(r)
      PROVE  WaivedInv'
  <2>1. TargetStatus(req[r]) = "APPROVED" => req[r].booking \in hist.waived
    BY <1>3 DEF WaiversKnown, CommitApprove
  <2>. QED
    BY <1>3, <1>f, <2>1, ApproveEffect, ApproveHistory DEF CommitApprove
<1>4. ASSUME NEW r \in Request, CommitReject(r)
      PROVE  WaivedInv'
  BY <1>4, <1>f, RejectEffect DEF CommitReject
<1>5. ASSUME NEW r \in Request, CommitCancel(r)
      PROVE  WaivedInv'
  BY <1>5, <1>f, CancelEffect DEF CommitCancel
<1>6. ASSUME NEW r \in Request, CommitPay(r)
      PROVE  WaivedInv'
  BY <1>6, <1>f, PayEffect, SourceAssumption DEF CommitPay
<1>7. ASSUME NEW r \in Request, CommitVoid(r) \/ CommitRemove(r)
      PROVE  WaivedInv'
  BY <1>7, <1>f, DropEffect DEF CommitVoid, CommitRemove
<1>8. ASSUME UNCHANGED <<booking, req, hist>>
      PROVE  WaivedInv'
  BY <1>8, <1>u
<1>. QED
  BY <1>1, <1>2, <1>3, <1>4, <1>5, <1>6, <1>7, <1>8
     DEF Next, BookingStep, InvoiceStep, ReadStep, BulkMarkOverdue, CreateInvoice,
         UpdateFacility, vars

(* The only ways to APPROVED are a payment and an approval that read a      *)
(* facility, or a slot, that asked for no prepayment, however the handlers  *)
(* and the changes of the facility interleave.                              *)
THEOREM PaidOrWaived == Spec => []ApprovedIsPaidOrWaived
<1>1. Init => WaivedInv
  BY DEF Init, WaivedInv, WaiversKnown, ApprovedIsPaidOrWaived, Unborn, Idle
<1>2. WaivedInv => ApprovedIsPaidOrWaived
  BY DEF WaivedInv
<1>. QED
  BY <1>1, <1>2, ShapeInit, ShapeStep, WaivedInvStep, PTL DEF Spec

-----------------------------------------------------------------------------
(* Cancellation *)

(* What a handler has tested in the step that leaves it holding a reference. *)
LEMMA ReadStepGuards ==
  ASSUME Shape, NEW r \in Request, ReadStep(r)
  PROVE  /\ req'[r].op \in {"approve", "reject"} =>
              booking[req'[r].booking].status # "CANCELLED"
         /\ req'[r].op = "pay" => MayPay(invoice[req'[r].invoice])
         /\ req'[r].op = "void" => MayCancel(invoice[req'[r].invoice])
         /\ req'[r].op = "approve" /\ ~req'[r].billed =>
              InvoicesOf(req'[r].booking) = {}
<1>. USE TypeFacts
<1>1. ASSUME NEW s \in Slot, StartCreate(r, s)
      PROVE  req'[r].op = "check"
  BY <1>1 DEF StartCreate, Begin
<1>2. ASSUME CheckSlot(r)
      PROVE  req'[r].op \in {"idle", "insert"}
  <2>1. CASE Finish(r)
    BY <2>1, FinishShape DEF Idle
  <2>2. CASE req' = [req EXCEPT ![r].op = "insert"]
    <3>1. req[r] \in CreateReq
      BY <1>2, StateOfRequest DEF CheckSlot
    <3>2. req'[r] = [req[r] EXCEPT !.op = "insert"]
      BY <2>2
    <3>. QED
      BY <3>1, <3>2 DEF CreateReq
  <2>. QED
    BY <1>2, <2>1, <2>2 DEF CheckSlot
<1>3. ASSUME NEW b \in Booking, StartApprove(r, b)
      PROVE  /\ req'[r].op = "approve" /\ req'[r].booking = b
             /\ req'[r].billed = (InvoicesOf(b) # {})
             /\ booking[b].status # "CANCELLED"
  BY <1>3 DEF StartApprove, Begin, ApproveRefuses
<1>4. ASSUME NEW b \in Booking, StartReject(r, b)
      PROVE  /\ req'[r].op = "reject" /\ req'[r].booking = b
             /\ booking[b].status # "CANCELLED"
  BY <1>4 DEF StartReject, Begin, RejectRefuses
<1>5. ASSUME NEW b \in Booking, StartCancel(r, b)
      PROVE  req'[r].op = "cancel"
  BY <1>5 DEF StartCancel, Begin
<1>6. ASSUME NEW i \in Invoice, StartPay(r, i)
      PROVE  req'[r].op = "pay" /\ req'[r].invoice = i /\ MayPay(invoice[i])
  BY <1>6 DEF StartPay, Begin
<1>7. ASSUME NEW i \in Invoice, StartVoid(r, i)
      PROVE  req'[r].op = "void" /\ req'[r].invoice = i /\ MayCancel(invoice[i])
  BY <1>7 DEF StartVoid, Begin
<1>8. ASSUME NEW i \in Invoice, StartRemove(r, i)
      PROVE  req'[r].op = "remove"
  BY <1>8 DEF StartRemove, Begin
<1>9. ASSUME Fail(r)
      PROVE  req'[r].op = "idle"
  BY <1>9, FinishShape DEF Fail, Idle
<1>. QED
  BY <1>1, <1>2, <1>3, <1>4, <1>5, <1>6, <1>7, <1>8, <1>9 DEF ReadStep

(* Every other step leaves the handlers' references as they are, or drops   *)
(* them.                                                                    *)
LEMMA WriteStepForgets ==
  ASSUME Shape, [Next]_vars, \A r \in Request : ~ReadStep(r)
  PROVE  \A r \in Request : req'[r] \in {req[r], Idle}
<1>1. ASSUME NEW r \in Request, Finish(r)
      PROVE  \A s \in Request : req'[s] \in {req[s], Idle}
  BY <1>1, FinishShape
<1>2. ASSUME NEW r \in Request, BookingStep(r) \/ InvoiceStep(r) \/ Fail(r)
      PROVE  Finish(r)
  BY <1>2 DEF BookingStep, InvoiceStep, ReadStep, InsertBooking, CommitApprove,
              CommitReject, CommitCancel, CommitPay, CommitVoid, CommitRemove
<1>3. CASE UNCHANGED req
  BY <1>3
<1>. QED
  BY <1>1, <1>2, <1>3 DEF Next, BulkMarkOverdue, CreateInvoice, UpdateFacility, vars

(* An invoice that was inserted keeps its source. *)
LEMMA SourceKept ==
  ASSUME Shape, [Next]_vars, NEW i \in Invoice, invoice[i].status # "unborn"
  PROVE  invoice'[i].source = invoice[i].source
<1>1. ASSUME NEW r \in Request, ReadStep(r)
      PROVE  invoice'[i].source = invoice[i].source
  BY <1>1, ReadStepKeeps
<1>2. ASSUME NEW r \in Request, CommitApprove(r)
      PROVE  invoice'[i].source = invoice[i].source
  BY <1>2, ApproveEffect
<1>3. ASSUME NEW r \in Request, CommitCancel(r)
      PROVE  invoice'[i].source = invoice[i].source
  BY <1>3, CancelEffect
<1>4. ASSUME NEW r \in Request, CommitPay(r)
      PROVE  invoice'[i].source = invoice[i].source
  BY <1>4, PayEffect
<1>5. ASSUME NEW r \in Request, CommitVoid(r) \/ CommitRemove(r)
      PROVE  invoice'[i].source = invoice[i].source
  BY <1>5, DropEffect
<1>6. ASSUME NEW due, BulkMarkOverdue(due)
      PROVE  invoice'[i].source = invoice[i].source
  BY <1>6, OverdueEffect
<1>7. ASSUME NEW j \in Invoice, CreateInvoice(j)
      PROVE  invoice'[i].source = invoice[i].source
  BY <1>7, ByHandEffect, SourceAssumption
<1>8. CASE UNCHANGED invoice
  BY <1>8
<1>. QED
  BY <1>1, <1>2, <1>3, <1>4, <1>5, <1>6, <1>7, <1>8
     DEF Next, BookingStep, InvoiceStep, ReadStep, InsertBooking, CommitReject,
         UpdateFacility, vars

LEMMA SettledStep ==
  ASSUME Shape, CancelledOwesNothing, [Next]_vars, NEW b \in Booking, Settled(b)
  PROVE  Settled(b)'
<1>1. booking'[b].status = "CANCELLED"
  <2>1. ASSUME NEW r \in Request, ReadStep(r)
        PROVE  booking'[b] = booking[b]
    BY <2>1, ReadStepKeeps
  <2>2. ASSUME NEW r \in Request, NEW c \in Booking, InsertBooking(r, c)
        PROVE  booking'[b] = booking[b]
    BY <2>2, TypeFacts DEF InsertBooking, Unborn, Settled
  <2>3. ASSUME NEW r \in Request, CommitApprove(r) \/ CommitReject(r)
        PROVE  booking'[b] = booking[b]
    BY <2>3, ApproveEffect, RejectEffect DEF Settled, MayTouch
  <2>4. ASSUME NEW r \in Request, CommitCancel(r)
        PROVE  booking'[b].status = "CANCELLED"
    BY <2>4, CancelEffect DEF Settled
  <2>5. ASSUME NEW r \in Request, CommitPay(r)
        PROVE  booking'[b] = booking[b]
    BY <2>5, PayEffect DEF Settled, MayTouch
  <2>6. ASSUME UNCHANGED booking
        PROVE  booking'[b] = booking[b]
    BY <2>6
  <2>. QED
    BY <2>1, <2>2, <2>3, <2>4, <2>5, <2>6
       DEF Settled, Next, BookingStep, InvoiceStep, ReadStep, CommitVoid,
           CommitRemove, BulkMarkOverdue, CreateInvoice, UpdateFacility, vars
<1>2. ASSUME NEW r \in Request, MayTouch(r, b)'
      PROVE  FALSE
  <2>1. CASE req'[r] = req[r]
    <3>1. req[r].op = "pay" => /\ req[r].invoice \in Invoice
                               /\ invoice[req[r].invoice].status # "unborn"
      BY RequestFacts
    <3>2. req[r].op = "pay" =>
            invoice'[req[r].invoice].source = invoice[req[r].invoice].source
      BY <3>1, SourceKept
    <3>. QED
      BY <1>2, <2>1, <3>2 DEF MayTouch, Settled
  <2>2. CASE req'[r] # req[r] /\ ReadStep(r)
    <3>1. req'[r].op = "pay" /\ invoice'[req'[r].invoice].source = b
      BY <1>2, <2>2, ReadStepGuards DEF MayTouch, Settled
    <3>2. /\ req'[r].invoice \in Invoice
          /\ MayPay(invoice[req'[r].invoice])
          /\ invoice' = invoice
      BY <2>2, <3>1, ReadStepKeeps, ReadStepGuards
    <3>3. req'[r].invoice \in InvoicesOf(b)
      BY <3>1, <3>2, TypeFacts DEF InvoicesOf, RowsOf, MayPay
    <3>. QED
      BY <3>2, <3>3 DEF CancelledOwesNothing, Settled, MayPay, Exists, Payable
  <2>3. CASE req'[r] # req[r] /\ ~ReadStep(r)
    <3>1. \A s \in Request : ~ReadStep(s)
      BY <2>3, ReadStepKeeps
    <3>. QED
      BY <1>2, <2>3, <3>1, WriteStepForgets DEF MayTouch, Idle
  <2>. QED
    BY <2>1, <2>2, <2>3
<1>. QED
  BY <1>1, <1>2 DEF Settled

(* Once the handlers that had read a cancelled booking or its invoices are  *)
(* through, nothing brings it back: approval and rejection refuse it, and   *)
(* there is no fee left for markAsPaid to accept.                           *)
THEOREM CancellationIsFinal == Spec => CancellationSettles
<1>1. Init => CancelledOwesNothing
  BY DEF Init, CancelledOwesNothing, Unborn
<1>2. Shape /\ CancelledOwesNothing /\ [Next]_vars =>
        [\A b \in Booking : Settled(b) => Settled(b)']_vars
  BY SettledStep
<1>. QED
  BY <1>1, <1>2, ShapeInit, ShapeStep, CancelledOwesNothingStep, PTL
     DEF Spec, CancellationSettles

-----------------------------------------------------------------------------
(* Fees *)

(* FeeBound counts finite sets: what it needs beside the bound itself.      *)
FeesCounted ==
  /\ \A b \in Booking : IsFiniteSet(InvoicesOf(b))
  /\ FeeBound

LEMMA Counts ==
  ASSUME FeesCounted, NEW b \in Booking
  PROVE  /\ IsFiniteSet(InvoicesOf(b))
         /\ IsFiniteSet(UnbilledApprovers(b))
         /\ Cardinality(InvoicesOf(b)) \in Nat
         /\ Cardinality(UnbilledApprovers(b)) \in Nat
         /\ Cardinality(Request) \in Nat
         /\ Cardinality(InvoicesOf(b)) + Cardinality(UnbilledApprovers(b))
              <= Cardinality(Request)
<1>1. UnbilledApprovers(b) \subseteq Request
  BY DEF UnbilledApprovers
<1>. QED
  BY <1>1, RequestAssumption, FS_Subset, FS_CardinalityType DEF FeesCounted, FeeBound

(* A step that neither adds a fee to b nor an approver that found none.     *)
LEMMA FeesShrink ==
  ASSUME FeesCounted, NEW b \in Booking,
         InvoicesOf(b)' \subseteq InvoicesOf(b),
         UnbilledApprovers(b)' \subseteq UnbilledApprovers(b)
  PROVE  /\ IsFiniteSet(InvoicesOf(b))'
         /\ (Cardinality(InvoicesOf(b)) + Cardinality(UnbilledApprovers(b))
               <= Cardinality(Request))'
<1>1. /\ IsFiniteSet(InvoicesOf(b)')
      /\ Cardinality(InvoicesOf(b)') <= Cardinality(InvoicesOf(b))
      /\ Cardinality(InvoicesOf(b)') \in Nat
  BY Counts, FS_Subset, FS_CardinalityType
<1>2. /\ Cardinality(UnbilledApprovers(b)') <= Cardinality(UnbilledApprovers(b))
      /\ Cardinality(UnbilledApprovers(b)') \in Nat
  BY Counts, FS_Subset, FS_CardinalityType
<1>. QED
  BY <1>1, <1>2, Counts

(* Where fees come from: a row whose source was not b before the step was   *)
(* inserted by an approval of b that had found none.                        *)
LEMMA FeesGrow ==
  ASSUME Shape, [Next]_vars, NEW b \in Booking
  PROVE  \/ InvoicesOf(b)' \subseteq InvoicesOf(b)
         \/ \E r \in UnbilledApprovers(b), i \in Invoice :
              /\ InvoicesOf(b)' \subseteq InvoicesOf(b) \cup {i}
              /\ req'[r] = Idle
<1>. DEFINE Kept == InvoicesOf(b)' \subseteq InvoicesOf(b)
<1>0. /\ InvoicesOf(b) = {i \in Invoice : Exists(invoice[i]) /\ invoice[i].source = b}
      /\ InvoicesOf(b)' =
           {i \in Invoice : Exists(invoice'[i]) /\ invoice'[i].source = b}
  BY ShapeStep DEF Shape, TypeOK, InvoicesOf, RowsOf, Exists
<1>1. ASSUME NEW r \in Request, ReadStep(r)
      PROVE  Kept
  BY <1>1, <1>0, ReadStepKeeps
<1>2. ASSUME NEW r \in Request, CommitApprove(r)
      PROVE  \/ Kept
             \/ \E i \in Invoice : /\ InvoicesOf(b)' \subseteq InvoicesOf(b) \cup {i}
                                   /\ r \in UnbilledApprovers(b)
                                   /\ req'[r] = Idle
  <2>1. req'[r] = Idle
    BY <1>2, FinishShape DEF CommitApprove
  <2>2. CASE UNCHANGED invoice
    BY <2>2, <1>0
  <2>3. CASE ~UNCHANGED invoice
    <3>1. PICK i \in Invoice : /\ NeedsInvoice(req[r])
                               /\ invoice'[i].source = req[r].booking
                               /\ \A j \in Invoice \ {i} : invoice'[j] = invoice[j]
      BY <1>2, <2>3, ApproveEffect
    <3>2. CASE req[r].booking = b
      <4>1. r \in UnbilledApprovers(b)
        BY <1>2, <3>1, <3>2 DEF UnbilledApprovers, NeedsInvoice, CommitApprove
      <4>2. InvoicesOf(b)' \subseteq InvoicesOf(b) \cup {i}
        BY <1>0, <3>1
      <4>. QED
        BY <2>1, <4>1, <4>2
    <3>3. CASE req[r].booking # b
      BY <1>0, <3>1, <3>3
    <3>. QED
      BY <3>2, <3>3
  <2>. QED
    BY <2>2, <2>3
<1>3. ASSUME NEW r \in Request, CommitCancel(r)
      PROVE  Kept
  BY <1>3, <1>0, CancelEffect DEF Exists, Payable
<1>4. ASSUME NEW r \in Request, CommitPay(r)
      PROVE  Kept
  BY <1>4, <1>0, PayEffect DEF Exists
<1>5. ASSUME NEW r \in Request, CommitVoid(r) \/ CommitRemove(r)
      PROVE  Kept
  BY <1>5, <1>0, DropEffect DEF Exists
<1>6. ASSUME NEW due, BulkMarkOverdue(due)
      PROVE  Kept
  BY <1>6, <1>0, OverdueEffect DEF Exists
<1>7. ASSUME NEW i \in Invoice, CreateInvoice(i)
      PROVE  Kept
  BY <1>7, <1>0, ByHandEffect, SourceAssumption
<1>8. CASE UNCHANGED invoice
  BY <1>8, <1>0
<1>. QED
  BY <1>1, <1>2, <1>3, <1>4, <1>5, <1>6, <1>7, <1>8
     DEF Next, BookingStep, InvoiceStep, ReadStep, InsertBooking, CommitReject,
         UpdateFacility, vars, UnbilledApprovers

(* A new approver that found no fee saw none there.                         *)
LEMMA ApproversGrow ==
  ASSUME Shape, [Next]_vars, NEW b \in Booking
  PROVE  \/ UnbilledApprovers(b)' \subseteq UnbilledApprovers(b)
         \/ InvoicesOf(b) = {} /\ InvoicesOf(b)' = {}
<1>1. CASE \A r \in Request : ~ReadStep(r)
  <2>1. \A r \in Request : req'[r] \in {req[r], Idle}
    BY <1>1, WriteStepForgets
  <2>. QED
    BY <2>1 DEF UnbilledApprovers, Idle
<1>2. ASSUME NEW r \in Request, ReadStep(r)
      PROVE  \/ UnbilledApprovers(b)' \subseteq UnbilledApprovers(b)
             \/ InvoicesOf(b) = {} /\ InvoicesOf(b)' = {}
  <2>1. /\ \A s \in Request \ {r} : req'[s] = req[s]
        /\ invoice' = invoice
    BY <1>2, ReadStepKeeps
  <2>2. InvoicesOf(b)' = InvoicesOf(b)
    BY <2>1 DEF InvoicesOf
  <2>3. CASE InvoicesOf(b) = {}
    BY <2>2, <2>3
  <2>4. CASE InvoicesOf(b) # {}
    <3>1. ~(req'[r].op = "approve" /\ req'[r].booking = b /\ ~req'[r].billed)
      BY <1>2, <2>4, ReadStepGuards
    <3>. QED
      BY <2>1, <3>1 DEF UnbilledApprovers
  <2>. QED
    BY <2>3, <2>4
<1>. QED
  BY <1>1, <1>2

LEMMA FeesCountedStep == Shape /\ FeesCounted /\ [Next]_vars => FeesCounted'
<1>. SUFFICES ASSUME Shape, FeesCounted, [Next]_vars
              PROVE  FeesCounted'
  OBVIOUS
<1>. SUFFICES ASSUME NEW b \in Booking
              PROVE  /\ IsFiniteSet(InvoicesOf(b))'
                     /\ (Cardinality(InvoicesOf(b)) + Cardinality(UnbilledApprovers(b))
                           <= Cardinality(Request))'
  BY DEF FeesCounted, FeeBound
<1>. DEFINE I == InvoicesOf(b)
            J == InvoicesOf(b)'
            U == UnbilledApprovers(b)
            V == UnbilledApprovers(b)'
<1>0. /\ IsFiniteSet(I) /\ IsFiniteSet(U)
      /\ Cardinality(I) \in Nat /\ Cardinality(U) \in Nat
      /\ Cardinality(Request) \in Nat
      /\ Cardinality(I) + Cardinality(U) <= Cardinality(Request)
  BY Counts
<1>1. CASE I = {} /\ J = {}
  <2>1. V \subseteq Request
    BY DEF UnbilledApprovers
  <2>2. Cardinality(V) \in Nat /\ Cardinality(V) <= Cardinality(Request)
    BY <2>1, RequestAssumption, FS_Subset, FS_CardinalityType
  <2>3. IsFiniteSet(J) /\ Cardinality(J) = 0
    BY <1>1, FS_EmptySet
  <2>. QED
    BY <1>0, <2>2, <2>3
<1>2. CASE J \subseteq I /\ V \subseteq U
  BY <1>2, FeesShrink
<1>3. CASE /\ V \subseteq U
           /\ \E r \in U, i \in Invoice : J \subseteq I \cup {i} /\ req'[r] = Idle
  <2>1. PICK r \in U, i \in Invoice : J \subseteq I \cup {i} /\ req'[r] = Idle
    BY <1>3
  <2>2. V \subseteq U \ {r}
    BY <1>3, <2>1 DEF UnbilledApprovers, Idle
  <2>3. /\ IsFiniteSet(U \ {r})
        /\ Cardinality(U \ {r}) = Cardinality(U) - 1
    BY <1>0, <2>1, FS_RemoveElement
  <2>4. /\ Cardinality(V) <= Cardinality(U) - 1
        /\ Cardinality(V) \in Nat
    BY <2>2, <2>3, FS_Subset, FS_CardinalityType
  <2>5. /\ IsFiniteSet(I \cup {i})
        /\ Cardinality(I \cup {i}) <= Cardinality(I) + 1
        /\ Cardinality(I \cup {i}) \in Nat
    <3>1. /\ IsFiniteSet(I \cup {i})
          /\ Cardinality(I \cup {i}) \in {Cardinality(I), Cardinality(I) + 1}
      BY <1>0, FS_AddElement
    <3>. QED
      BY <1>0, <3>1
  <2>6. /\ IsFiniteSet(J)
        /\ Cardinality(J) <= Cardinality(I) + 1
        /\ Cardinality(J) \in Nat
    BY <1>0, <2>1, <2>5, FS_Subset, FS_CardinalityType
  <2>. QED
    BY <1>0, <2>4, <2>6
<1>. QED
  BY <1>1, <1>2, <1>3, FeesGrow, ApproversGrow

(* However many approvals race, a booking never has more fees than there    *)
(* are requests served at once; one request at a time raises at most one.   *)
THEOREM FeesBounded == Spec => []FeeBound
<1>1. Init => FeesCounted
  <2>. SUFFICES ASSUME Init, NEW b \in Booking
                PROVE  /\ IsFiniteSet(InvoicesOf(b))
                       /\ Cardinality(InvoicesOf(b)) + Cardinality(UnbilledApprovers(b))
                            <= Cardinality(Request)
    BY DEF FeesCounted, FeeBound
  <2>1. InvoicesOf(b) = {}
    BY DEF Init, InvoicesOf, RowsOf, Exists
  <2>2. UnbilledApprovers(b) = {}
    BY DEF Init, UnbilledApprovers, Idle
  <2>3. Cardinality(Request) \in Nat
    BY RequestAssumption, FS_CardinalityType
  <2>. QED
    BY <2>1, <2>2, <2>3, FS_EmptySet
<1>2. FeesCounted => FeeBound
  BY DEF FeesCounted
<1>. QED
  BY <1>1, <1>2, ShapeInit, ShapeStep, FeesCountedStep, PTL DEF Spec

(* Approvals of one booking that never overlap in time. *)
OneApproval ==
  \A r, s \in Request :
    /\ req[r].op = "approve" /\ req[s].op = "approve"
    /\ req[r].booking = req[s].booking
    => r = s

(* A booking has one fee at most, and none while an approval that saw none  *)
(* is about to raise it.                                                    *)
AtMostOneFee ==
  \A b \in Booking :
    /\ \A i, j \in InvoicesOf(b) : i = j
    /\ UnbilledApprovers(b) # {} => InvoicesOf(b) = {}

LEMMA AtMostOneFeeStep ==
  OneApproval /\ Shape /\ AtMostOneFee /\ [Next]_vars => AtMostOneFee'
<1>. SUFFICES ASSUME OneApproval, Shape, AtMostOneFee, [Next]_vars, NEW b \in Booking
              PROVE  (/\ \A i, j \in InvoicesOf(b) : i = j
                      /\ UnbilledApprovers(b) # {} => InvoicesOf(b) = {})'
  BY DEF AtMostOneFee
<1>. DEFINE I == InvoicesOf(b)
            J == InvoicesOf(b)'
            U == UnbilledApprovers(b)
            V == UnbilledApprovers(b)'
<1>0. /\ \A i, j \in I : i = j
      /\ U # {} => I = {}
      /\ \A r, s \in U : r = s
  BY DEF AtMostOneFee, OneApproval, UnbilledApprovers
<1>1. CASE J = {}
  BY <1>1
<1>2. CASE J \subseteq I /\ V \subseteq U
  BY <1>0, <1>2
<1>3. CASE /\ V \subseteq U
           /\ \E r \in U, i \in Invoice : J \subseteq I \cup {i} /\ req'[r] = Idle
  <2>1. PICK r \in U, i \in Invoice : J \subseteq I \cup {i} /\ req'[r] = Idle
    BY <1>3
  <2>2. r \notin V
    BY <2>1 DEF UnbilledApprovers, Idle
  <2>3. V = {} /\ I = {}
    BY <1>0, <1>3, <2>1, <2>2
  <2>. QED
    BY <2>1, <2>3
<1>. QED
  BY <1>1, <1>2, <1>3, FeesGrow, ApproversGrow

(* The fee of a booking is raised once as long as its approvals do not      *)
(* overlap in time: the look for an invoice before approveBooking's         *)
(* transaction is stale only because of another approval, and no payment,   *)
(* voiding, deletion or cancellation in between makes it raise a second.    *)
THEOREM FeeRaisedOnce == Spec /\ []OneApproval => []AtMostOneFee
<1>1. Init => AtMostOneFee
  BY DEF Init, AtMostOneFee, InvoicesOf, RowsOf, Exists, UnbilledApprovers, Idle
<1>. QED
  BY <1>1, ShapeInit, ShapeStep, AtMostOneFeeStep, PTL DEF Spec

-----------------------------------------------------------------------------
(* Slots *)

(* The query of createBooking, startTime < other.endTime and endTime >      *)
(* other.startTime, finds exactly the bookings that share a minute with the *)
(* one asked for; slots that only touch do not meet.                        *)
THEOREM OverlapIsASharedMinute ==
  ASSUME NEW s \in Slot, NEW t \in Slot
  PROVE  Overlap(s, t) <=>
           \E m \in Nat : s.start <= m /\ m < s.end /\ t.start <= m /\ m < t.end
<1>. /\ s.start \in Nat /\ s.end \in Nat /\ s.start < s.end
     /\ t.start \in Nat /\ t.end \in Nat /\ t.start < t.end
  BY SlotAssumption
<1>1. ASSUME Overlap(s, t)
      PROVE  \E m \in Nat : s.start <= m /\ m < s.end /\ t.start <= m /\ m < t.end
  <2>1. CASE s.start <= t.start
    BY <1>1, <2>1 DEF Overlap
  <2>2. CASE t.start <= s.start
    BY <1>1, <2>2 DEF Overlap
  <2>. QED
    BY <2>1, <2>2
<1>2. ASSUME NEW m \in Nat, s.start <= m, m < s.end, t.start <= m, m < t.end
      PROVE  Overlap(s, t)
  BY <1>2 DEF Overlap
<1>. QED
  BY <1>1, <1>2

(* Bookings that came back, or were stored past another creation's look.    *)
Excused == hist.revived \cup hist.hidden

(* A creation that has passed the overlap query still has its slot free,    *)
(* but for those bookings.                                                  *)
SlotReserved ==
  \A r \in Request : req[r].op = "insert" =>
    \A b \in Booking \ Excused :
      Live(b) => ~Overlap(req[r].slot, booking[b].slot)

SlotInv == SlotReserved /\ OverlapExplained

LEMMA OverlapSymmetric ==
  ASSUME NEW s \in Slot, NEW t \in Slot
  PROVE  Overlap(s, t) <=> Overlap(t, s)
BY SlotAssumption DEF Overlap

LEMMA SlotOfStored ==
  ASSUME Shape, NEW b \in Booking, Stored(b)
  PROVE  booking[b].slot \in Slot
BY RowOfStored DEF Shape, BookingRow

(* Approval and payment write the status of one booking, and when it did    *)
(* not hold its slot they record it as revived.                             *)
LEMMA StatusWriteRevives ==
  ASSUME Shape, NEW b \in Booking, Stored(b), NEW st \in BookingStatus,
         SetBooking(b, st), Excused \subseteq Excused',
         ~Live(b) => b \in hist'.revived \/ st \in {"CANCELLED", "REJECTED"}
  PROVE  \A c \in Booking \ Excused' :
           Live(c)' => /\ c \notin Excused
                       /\ Live(c)
                       /\ booking'[c].slot = booking[c].slot
<1>1. /\ booking'[b] = [booking[b] EXCEPT !.status = st]
      /\ booking'[b].status = st
      /\ \A c \in Booking \ {b} : booking'[c] = booking[c]
  BY SetBookingShape DEF Shape
<1>2. booking'[b].slot = booking[b].slot
  BY <1>1, RowOfStored DEF Shape, BookingRow
<1>3. Live(b)' => Live(b) \/ b \in Excused'
  BY <1>1 DEF Live, Excused
<1>4. \A c \in Booking \ {b} : Live(c)' => Live(c)
  BY <1>1 DEF Live, Stored
<1>. QED
  BY <1>1, <1>2, <1>3, <1>4

(* Whatever a step other than an insertion does, a booking that is not      *)
(* excused holds its slot afterwards only if it did before, and it is the   *)
(* same slot.                                                               *)
LEMMA LiveOnlyByRevival ==
  ASSUME Shape, [Next]_vars,
         \A r \in Request, b \in Booking : ~InsertBooking(r, b)
  PROVE  \A c \in Booking \ Excused' :
           Live(c)' => /\ c \notin Excused
                       /\ Live(c)
                       /\ booking'[c].slot = booking[c].slot
<1>. DEFINE Goal == \A c \in Booking \ Excused' :
                      Live(c)' => /\ c \notin Excused
                                  /\ Live(c)
                                  /\ booking'[c].slot = booking[c].slot
<1>1. ASSUME booking' = booking, hist'.revived = hist.revived, hist'.hidden = hist.hidden
      PROVE  Goal
  BY <1>1 DEF Live, Stored, Excused
<1>2. ASSUME NEW r \in Request, CommitApprove(r)
      PROVE  Goal
  <2>. DEFINE b == req[r].booking
  <2>1. b \in Booking /\ Stored(b)
    BY <1>2, RequestFacts DEF CommitApprove
  <2>2. SetBooking(b, TargetStatus(req[r])) /\ TargetStatus(req[r]) \in BookingStatus
    BY <1>2 DEF CommitApprove, TargetStatus
  <2>3. /\ Excused \subseteq Excused'
        /\ ~Live(b) => b \in hist'.revived
    BY <1>2, ApproveHistory DEF Excused
  <2>. HIDE DEF b
  <2>. QED
    BY <2>1, <2>2, <2>3, StatusWriteRevives
<1>3. ASSUME NEW r \in Request, CommitReject(r)
      PROVE  Goal
  <2>. DEFINE b == req[r].booking
  <2>1. b \in Booking /\ Stored(b)
    BY <1>3, RequestFacts DEF CommitReject
  <2>2. SetBooking(b, "REJECTED") /\ UNCHANGED hist
    BY <1>3 DEF CommitReject
  <2>. HIDE DEF b
  <2>. QED
    BY <2>1, <2>2, StatusWriteRevives DEF Excused
<1>4. ASSUME NEW r \in Request, CommitCancel(r)
      PROVE  Goal
  <2>1. /\ \A c \in Booking : Live(c)' => booking'[c] = booking[c]
        /\ UNCHANGED hist
    BY <1>4, CancelEffect DEF Live
  <2>. QED
    BY <2>1 DEF Live, Stored, Excused
<1>5. ASSUME NEW r \in Request, CommitPay(r)
      PROVE  Goal
  <2>. DEFINE i == req[r].invoice
              b == invoice[i].source
  <2>1. i \in Invoice /\ invoice[i].status # "unborn"
    BY <1>5, RequestFacts DEF CommitPay
  <2>2. CASE ~Exists(invoice[i]) \/ b = NoSource
    <3>1. booking' = booking /\ \E O : hist' \in {hist, [hist EXCEPT !.overrun = O]}
      BY <1>5, <2>2 DEF CommitPay
    <3>. QED
      BY <1>1, <3>1, TypeFacts DEF Histories
  <2>3. CASE Exists(invoice[i]) /\ b # NoSource
    <3>2. b \in Booking /\ Stored(b)
      BY <2>1, <2>3, TypeFacts DEF Shape, RefsOk, Rows, InvoiceRow
    <3>3. SetBooking(b, "APPROVED")
      BY <1>5, <2>3 DEF CommitPay
    <3>4. PICK P, R, O :
            /\ hist' = [hist EXCEPT !.paid = P, !.revived = R, !.overrun = O]
            /\ R = IF Live(b) THEN hist.revived ELSE hist.revived \cup {b}
      BY <1>5, <2>3 DEF CommitPay
    <3>5. hist'.revived = R /\ hist'.hidden = hist.hidden
      BY <3>4, TypeFacts DEF Histories
    <3>. HIDE DEF b
    <3>. QED
      BY <3>2, <3>3, <3>4, <3>5, StatusWriteRevives DEF Excused
  <2>. QED
    BY <2>2, <2>3
<1>6. ASSUME NEW r \in Request, ReadStep(r)
      PROVE  Goal
  BY <1>1, <1>6, ReadStepKeeps, ReadStepHistory
<1>7. ASSUME NEW r \in Request, CommitVoid(r) \/ CommitRemove(r)
      PROVE  Goal
  BY <1>1, <1>7, DropEffect
<1>. QED
  BY <1>1, <1>2, <1>3, <1>4, <1>5, <1>6, <1>7
     DEF Next, BookingStep, InvoiceStep, ReadStep, BulkMarkOverdue, CreateInvoice,
         UpdateFacility, vars

(* A creation holds a slot of the facility, and gets to "insert" only when  *)
(* the overlap query finds no live booking in its way.                      *)
LEMMA InsertRequest ==
  ASSUME Shape, [Next]_vars, NEW r \in Request, req'[r].op = "insert"
  PROVE  /\ req'[r].slot \in Slot
         /\ \/ req'[r] = req[r]
            \/ /\ UNCHANGED <<booking, hist>>
               /\ \A b \in Booking :
                    Live(b) => ~Overlap(req'[r].slot, booking[b].slot)
<1>1. req'[r].slot \in Slot
  <2>1. req'[r] \in ReqState
    BY ShapeStep, TypeFacts DEF Shape, TypeOK
  <2>. QED
    BY <2>1, StateOfRequest DEF CreateReq
<1>2. CASE \E s \in Request : ReadStep(s)
  <2>1. PICK s \in Request : ReadStep(s)
    BY <1>2
  <2>2. CASE s # r
    BY <1>1, <2>1, <2>2, ReadStepKeeps
  <2>3. CASE s = r
    <3>1. CheckSlot(r)
      <4>1. req'[r].op \notin {"check", "idle", "approve", "reject", "cancel",
                              "pay", "void", "remove"}
        OBVIOUS
      <4>2. ~\E t \in Slot : StartCreate(r, t)
        BY <4>1, TypeFacts DEF StartCreate, Begin
      <4>4. ~Fail(r)
        BY <4>1, FinishShape DEF Fail, Idle
      <4>5. ~\E b \in Booking :
               StartApprove(r, b) \/ StartReject(r, b) \/ StartCancel(r, b)
        BY <4>1, TypeFacts DEF StartApprove, StartReject, StartCancel, Begin
      <4>6. ~\E i \in Invoice : StartPay(r, i) \/ StartVoid(r, i) \/ StartRemove(r, i)
        BY <4>1, TypeFacts DEF StartPay, StartVoid, StartRemove, Begin
      <4>. QED
        BY <2>1, <2>3, <4>2, <4>4, <4>5, <4>6 DEF ReadStep
    <3>2. req[r] \in CreateReq
      BY <3>1, StateOfRequest DEF CheckSlot, Shape, TypeOK
    <3>3. ~Finish(r)
      BY FinishShape DEF Idle
    <3>4. req' = [req EXCEPT ![r].op = "insert"]
      BY <3>1, <3>3 DEF CheckSlot
    <3>5. req'[r] = [req[r] EXCEPT !.op = "insert"]
      BY <3>4, TypeFacts
    <3>6. req'[r].slot = req[r].slot
      BY <3>2, <3>5 DEF CreateReq
    <3>7. /\ \A b \in Booking : Live(b) => ~Overlap(req[r].slot, booking[b].slot)
          /\ UNCHANGED <<booking, hist>>
      BY <3>1, <3>3 DEF CheckSlot, Live, FreesSlot
    <3>. QED
      BY <1>1, <3>6, <3>7
  <2>. QED
    BY <2>2, <2>3
<1>3. CASE \A s \in Request : ~ReadStep(s)
  BY <1>1, <1>3, WriteStepForgets DEF Idle
<1>. QED
  BY <1>2, <1>3

LEMMA SlotInvStep == Shape /\ SlotInv /\ [Next]_vars => SlotInv'
<1>. SUFFICES ASSUME Shape, SlotInv, [Next]_vars
              PROVE  SlotInv'
  OBVIOUS
<1>0. Shape'
  BY ShapeStep
<1>1. CASE \A r \in Request, b \in Booking : ~InsertBooking(r, b)
  <2>1. OverlapExplained'
    BY <1>1, LiveOnlyByRevival DEF SlotInv, OverlapExplained, Excused
  <2>2. ASSUME NEW r \in Request, req'[r].op = "insert",
               NEW b \in Booking \ Excused', Live(b)'
        PROVE  ~Overlap(req'[r].slot, booking'[b].slot)
    <3>1. /\ b \notin Excused
          /\ Live(b)
          /\ booking'[b].slot = booking[b].slot
      BY <1>1, <2>2, LiveOnlyByRevival
    <3>. QED
      BY <2>2, <3>1, InsertRequest DEF SlotInv, SlotReserved
  <2>. QED
    BY <2>1, <2>2 DEF SlotInv, SlotReserved
<1>2. ASSUME NEW r \in Request, NEW b \in Booking, InsertBooking(r, b)
      PROVE  SlotInv'
  <2>1. /\ req[r].op = "insert" /\ req[r].slot \in Slot
        /\ booking[b] = Unborn
    BY <1>2, StateOfRequest DEF InsertBooking, Shape, TypeOK, CreateReq
  <2>2. /\ booking'[b].slot = req[r].slot
        /\ \A c \in Booking \ {b} : booking'[c] = booking[c]
        /\ Excused \subseteq Excused'
        /\ OtherInsert(r) => b \in Excused'
    BY <1>2, TypeFacts, InsertHistory DEF InsertBooking, Excused
  <2>3. /\ \A s \in Request \ {r} : req'[s] = req[s]
        /\ req'[r] = Idle
    BY <1>2, FinishShape DEF InsertBooking
  <2>4. \A c \in Booking \ {b} : Live(c)' <=> Live(c)
    BY <2>2 DEF Live, Stored
  <2>5. SlotReserved'
    <3>. SUFFICES ASSUME NEW s \in Request, req'[s].op = "insert",
                         NEW c \in Booking \ Excused', Live(c)'
                  PROVE  ~Overlap(req'[s].slot, booking'[c].slot)
      BY DEF SlotReserved
    <3>1. s # r /\ req'[s] = req[s]
      BY <2>3 DEF Idle
    <3>2. CASE c = b
      BY <2>1, <2>2, <3>1, <3>2 DEF OtherInsert
    <3>3. CASE c # b
      BY <2>2, <2>4, <3>1, <3>3 DEF SlotInv, SlotReserved
    <3>. QED
      BY <3>2, <3>3
  <2>6. ASSUME NEW c \in Booking \ Excused', c # b, Live(c)'
        PROVE  /\ ~Overlap(booking'[b].slot, booking'[c].slot)
               /\ ~Overlap(booking'[c].slot, booking'[b].slot)
    <3>1. ~Overlap(booking'[b].slot, booking'[c].slot)
      BY <2>1, <2>2, <2>4, <2>6 DEF SlotInv, SlotReserved
    <3>2. booking'[c].slot \in Slot /\ booking'[b].slot \in Slot
      BY <2>1, <2>2, <2>4, <2>6, SlotOfStored DEF Live
    <3>. QED
      BY <3>1, <3>2, OverlapSymmetric
  <2>7. OverlapExplained'
    BY <2>2, <2>4, <2>6 DEF OverlapExplained, SlotInv, Excused
  <2>. QED
    BY <2>5, <2>7 DEF SlotInv
<1>. QED
  BY <1>1, <1>2

(* Whatever calls overlap, of two live bookings that overlap one was stored *)
(* while another creation was past its look, or came back to life: the      *)
(* query of createBooking lets no other overlap through.                    *)
THEOREM SlotsExplained == Spec => []OverlapExplained
<1>1. Init => SlotInv
  BY DEF Init, SlotInv, SlotReserved, OverlapExplained, Idle, Unborn, Live, Stored
<1>2. SlotInv => OverlapExplained
  BY DEF SlotInv
<1>. QED
  BY <1>1, <1>2, ShapeInit, ShapeStep, SlotInvStep, PTL DEF Spec

-----------------------------------------------------------------------------
(* The invoice ledger *)

(* markAsPaid goes on with open invoices only. *)
PayersSawOpen == \A r \in Request : req[r].op = "pay" => req[r].saw = "open"

LEMMA PayersSawOpenStep == Shape /\ PayersSawOpen /\ [Next]_vars => PayersSawOpen'
<1>. SUFFICES ASSUME Shape, PayersSawOpen, [Next]_vars, NEW r \in Request,
                     req'[r].op = "pay"
              PROVE  req'[r].saw = "open"
  BY DEF PayersSawOpen
<1>1. CASE req'[r] = req[r]
  BY <1>1 DEF PayersSawOpen
<1>2. CASE req'[r] # req[r] /\ ReadStep(r)
  <2>1. ~CheckSlot(r) /\ ~Fail(r)
    <3>1. CASE CheckSlot(r)
      <4>1. req[r] \in CreateReq
        BY <3>1, StateOfRequest, TypeFacts DEF CheckSlot
      <4>2. req'[r] \in {Idle, [req[r] EXCEPT !.op = "insert"]}
        BY <3>1, FinishShape, TypeFacts DEF CheckSlot
      <4>. QED
        BY <4>1, <4>2 DEF CreateReq, Idle
    <3>2. CASE Fail(r)
      BY <3>2, FinishShape DEF Fail, Idle
    <3>. QED
      BY <3>1, <3>2
  <2>2. PICK i \in Invoice : StartPay(r, i)
    BY <1>2, <2>1, TypeFacts
       DEF ReadStep, StartCreate, StartApprove, StartReject, StartCancel, StartVoid,
           StartRemove, Begin
  <2>. QED
    BY <2>2, SeenByGuards, TypeFacts DEF StartPay, Begin
<1>3. CASE req'[r] # req[r] /\ ~ReadStep(r)
  <2>1. \A s \in Request : ~ReadStep(s)
    BY <1>3, ReadStepKeeps
  <2>. QED
    BY <1>3, <2>1, WriteStepForgets DEF Idle
<1>. QED
  BY <1>1, <1>2, <1>3

(* One invoice as the ledger shows it. *)
RowView(i) == IF i \in hist.overrun THEN "overrun" ELSE Seen(invoice[i])

LEMMA SeenByStatus ==
  ASSUME NEW row, NEW other, row.status = other.status
  PROVE  Seen(row) = Seen(other)
BY DEF Seen

(* A step that moves the rows of S, and no others as the ledger sees them.  *)
LEMMA LedgerMove ==
  ASSUME NEW S \in SUBSET Invoice, S # {}, NEW from, NEW to,
         \A i \in S : RowView(i) \in from /\ RowView(i)' = to,
         \A i \in Invoice \ S : RowView(i)' = RowView(i)
  PROVE  Ledger!Move(S, from, to)
BY DEF Ledger!Move, LedgerView, RowView

LEMMA LedgerStutter ==
  ASSUME \A i \in Invoice : RowView(i)' = RowView(i)
  PROVE  UNCHANGED LedgerView
BY DEF LedgerView, RowView

LEMMA RowViewKept ==
  ASSUME NEW i \in Invoice,
         i \in hist'.overrun <=> i \in hist.overrun,
         i \in hist.overrun \/ invoice'[i].status = invoice[i].status
  PROVE  RowView(i)' = RowView(i)
BY SeenByStatus DEF RowView

(* What a single invoice may do in one step. *)
Edge(from, to) ==
  \/ from = "absent" /\ to = "open"
  \/ from = "open" /\ to \in {"settled", "void", "gone"}
  \/ from \in {"settled", "void"} /\ to \in {"overrun", "gone"}

LEMMA LedgerOneRow ==
  ASSUME NEW i \in Invoice,
         RowView(i)' = RowView(i) \/ Edge(RowView(i), RowView(i)'),
         \A j \in Invoice \ {i} : RowView(j)' = RowView(j)
  PROVE  Ledger!Next \/ UNCHANGED LedgerView
<1>1. CASE RowView(i)' = RowView(i)
  BY <1>1, LedgerStutter
<1>2. ASSUME NEW from, NEW to, RowView(i) \in from, RowView(i)' = to
      PROVE  Ledger!Move({i}, from, to)
  BY <1>2, LedgerMove
<1>3. CASE Edge(RowView(i), RowView(i)')
  <2>1. \/ Ledger!Move({i}, {"absent"}, "open")
        \/ Ledger!Move({i}, {"open"}, "settled")
        \/ Ledger!Move({i}, {"open"}, "void")
        \/ Ledger!Move({i}, {"open", "settled", "void"}, "gone")
        \/ Ledger!Move({i}, {"settled", "void"}, "overrun")
    BY <1>2, <1>3 DEF Edge
  <2>2. {i} \in SUBSET Invoice
    OBVIOUS
  <2>. QED
    BY <2>1, <2>2
       DEF Ledger!Next, Ledger!Issue, Ledger!Settle, Ledger!Void, Ledger!Delete,
           Ledger!Overrun
<1>. QED
  BY <1>1, <1>3

(* A payment or a voiding overruns the invoice when it was settled or       *)
(* voided since the call read it.                                           *)
LEMMA OverrunHistory ==
  ASSUME Shape, NEW r \in Request,
         \/ CommitPay(r) /\ Exists(invoice[req[r].invoice])
         \/ CommitVoid(r) /\ Exists(invoice[req[r].invoice])
  PROVE  /\ \A j \in Invoice \ {req[r].invoice} :
              j \in hist'.overrun <=> j \in hist.overrun
         /\ req[r].invoice \in hist'.overrun <=>
              \/ req[r].invoice \in hist.overrun
              \/ Seen(invoice[req[r].invoice]) \notin {"open", req[r].saw}
<1>1. \E P, R : hist' = [hist EXCEPT !.paid = P, !.revived = R,
                                     !.overrun = hist.overrun \cup Overrun(r)]
  <2>1. hist = [hist EXCEPT !.paid = hist.paid, !.revived = hist.revived]
    BY TypeFacts DEF Histories
  <2>2. CASE CommitVoid(r)
    <3>1. hist' = [hist EXCEPT !.overrun = hist.overrun \cup Overrun(r)]
      BY <2>2 DEF CommitVoid
    <3>2. hist' = [hist EXCEPT !.paid = hist.paid, !.revived = hist.revived,
                               !.overrun = hist.overrun \cup Overrun(r)]
      BY <3>1, TypeFacts DEF Histories
    <3>. QED
      BY <3>2
  <2>3. CASE CommitPay(r) /\ invoice[req[r].invoice].source = NoSource
    <3>1. hist' = [hist EXCEPT !.overrun = hist.overrun \cup Overrun(r)]
      BY <2>3 DEF CommitPay
    <3>2. hist' = [hist EXCEPT !.paid = hist.paid, !.revived = hist.revived,
                               !.overrun = hist.overrun \cup Overrun(r)]
      BY <3>1, TypeFacts DEF Histories
    <3>. QED
      BY <3>2
  <2>4. CASE CommitPay(r) /\ invoice[req[r].invoice].source # NoSource
    BY <2>4 DEF CommitPay
  <2>. QED
    BY <2>2, <2>3, <2>4
<1>2. hist'.overrun = hist.overrun \cup Overrun(r)
  BY <1>1, TypeFacts DEF Histories
<1>. QED
  BY <1>2 DEF Overrun

LEMMA LedgerStep == Shape /\ PayersSawOpen /\ [Next]_vars => [Ledger!Next]_LedgerView
<1>. SUFFICES ASSUME Shape, PayersSawOpen, [Next]_vars
              PROVE  Ledger!Next \/ UNCHANGED LedgerView
  OBVIOUS
<1>. DEFINE Goal == Ledger!Next \/ UNCHANGED LedgerView
<1>0. ASSUME NEW i \in Invoice, invoice[i].status = "unborn",
             invoice'[i].status = "PENDING",
             \A j \in Invoice \ {i} : invoice'[j] = invoice[j],
             hist'.overrun = hist.overrun
      PROVE  Goal
  <2>1. RowView(i)' = RowView(i) \/ Edge(RowView(i), RowView(i)')
    BY <1>0, SeenAs DEF RowView, Payable, Edge
  <2>2. \A j \in Invoice \ {i} : RowView(j)' = RowView(j)
    BY <1>0, RowViewKept
  <2>. QED
    BY <2>1, <2>2, LedgerOneRow
<1>1. ASSUME invoice' = invoice, hist'.overrun = hist.overrun
      PROVE  Goal
  BY <1>1, RowViewKept, LedgerStutter
<1>2. ASSUME NEW r \in Request, CommitApprove(r)
      PROVE  Goal
  <2>0. hist'.overrun = hist.overrun
    BY <1>2, TypeFacts DEF CommitApprove, Histories
  <2>1. CASE UNCHANGED invoice
    BY <1>1, <2>0, <2>1
  <2>2. CASE ~UNCHANGED invoice
    BY <1>0, <1>2, <2>0, <2>2, ApproveEffect
  <2>. QED
    BY <2>1, <2>2
<1>3. ASSUME NEW r \in Request, CommitCancel(r)
      PROVE  Goal
  <2>. DEFINE S == {i \in Invoice \ hist.overrun : /\ i \in InvoicesOf(req[r].booking)
                                                   /\ invoice[i].status \in Payable}
  <2>0. hist' = hist
    BY <1>3, CancelEffect
  <2>1. \A i \in Invoice \ hist.overrun :
           invoice'[i].status = IF i \in S THEN "CANCELLED" ELSE invoice[i].status
    BY <1>3, CancelEffect
  <2>2. \A i \in S : RowView(i) = "open" /\ RowView(i)' = "void"
    BY <2>0, <2>1, SeenAs DEF Payable, RowView
  <2>3. \A i \in Invoice \ S : RowView(i)' = RowView(i)
    <3>. HIDE DEF S
    <3>. QED
      BY <2>0, <2>1, RowViewKept
  <2>4. CASE S = {}
    BY <2>3, <2>4, LedgerStutter
  <2>5. CASE S # {}
    <3>1. S \in SUBSET Invoice
      OBVIOUS
    <3>. HIDE DEF S
    <3>2. Ledger!Move(S, {"open"}, "void")
      BY <2>2, <2>3, <2>5, <3>1, LedgerMove
    <3>. QED
      BY <3>1, <3>2 DEF Ledger!Next, Ledger!Void
  <2>. QED
    BY <2>4, <2>5
<1>4. ASSUME NEW r \in Request, CommitPay(r)
      PROVE  Goal
  <2>0. PICK i : i = req[r].invoice
    OBVIOUS
  <2>1. i \in Invoice /\ req[r].saw = "open"
    BY <1>4, <2>0, PayEffect DEF PayersSawOpen
  <2>2. \A j \in Invoice :
          invoice'[j].status =
            IF j = i /\ Exists(invoice[i]) THEN "PAID" ELSE invoice[j].status
    BY <1>4, <2>0, PayEffect
  <2>3. CASE ~Exists(invoice[i])
    BY <1>1, <1>4, <2>0, <2>3 DEF CommitPay
  <2>4. CASE Exists(invoice[i])
    <3>1. /\ \A j \in Invoice \ {i} : j \in hist'.overrun <=> j \in hist.overrun
          /\ i \in hist'.overrun <=> i \in hist.overrun \/ Seen(invoice[i]) # "open"
      BY <1>4, <2>0, <2>1, <2>4, OverrunHistory
    <3>2. \A j \in Invoice \ {i} : RowView(j)' = RowView(j)
      BY <2>2, <3>1, RowViewKept
    <3>3. Seen(invoice[i]) \in {"open", "settled", "void"} /\ Seen(invoice'[i]) = "settled"
      BY <2>1, <2>2, <2>4, SeenAs DEF Exists, Payable
    <3>4. RowView(i)' = RowView(i) \/ Edge(RowView(i), RowView(i)')
      BY <3>1, <3>3 DEF RowView, Edge
    <3>. QED
      BY <2>1, <3>2, <3>4, LedgerOneRow
  <2>. QED
    BY <2>3, <2>4
<1>5. ASSUME NEW r \in Request, CommitVoid(r)
      PROVE  Goal
  <2>0. PICK i : i = req[r].invoice
    OBVIOUS
  <2>1. i \in Invoice /\ req[r].saw \in {"open", "void"}
    BY <1>5, <2>0, RequestFacts, StateOfRequest, TypeFacts DEF CommitVoid, InvoiceReq
  <2>2. CASE ~Exists(invoice[i])
    BY <1>1, <1>5, <2>0, <2>2 DEF CommitVoid
  <2>3. CASE Exists(invoice[i])
    <3>1. /\ \A j \in Invoice \ {i} : j \in hist'.overrun <=> j \in hist.overrun
          /\ i \in hist'.overrun <=>
               i \in hist.overrun \/ Seen(invoice[i]) \notin {"open", req[r].saw}
      BY <1>5, <2>0, <2>3, OverrunHistory
    <3>2. /\ invoice'[i].status = "CANCELLED"
          /\ \A j \in Invoice \ {i} : invoice'[j].status = invoice[j].status
      <4>1. invoice' = WriteStatus(invoice, {i}, "CANCELLED")
        BY <1>5, <2>0, <2>3 DEF CommitVoid
      <4>. QED
        BY <2>1, <4>1, TypeFacts, WriteStatusShape
    <3>3. \A j \in Invoice \ {i} : RowView(j)' = RowView(j)
      BY <3>1, <3>2, RowViewKept
    <3>4. Seen(invoice[i]) \in {"open", "settled", "void"} /\ Seen(invoice'[i]) = "void"
      BY <2>3, <3>2, SeenAs DEF Exists, Payable
    <3>5. RowView(i)' = RowView(i) \/ Edge(RowView(i), RowView(i)')
      BY <2>1, <3>1, <3>4 DEF RowView, Edge
    <3>. QED
      BY <2>1, <3>3, <3>5, LedgerOneRow
  <2>. QED
    BY <2>2, <2>3
<1>6. ASSUME NEW r \in Request, CommitRemove(r)
      PROVE  Goal
  <2>0. PICK i : i = req[r].invoice
    OBVIOUS
  <2>1. i \in Invoice /\ hist' = hist
    BY <1>6, <2>0, RequestFacts DEF CommitRemove
  <2>2. CASE ~Exists(invoice[i])
    BY <1>1, <1>6, <2>0, <2>1, <2>2 DEF CommitRemove
  <2>3. CASE Exists(invoice[i])
    <3>1. /\ invoice'[i].status = "deleted"
          /\ \A j \in Invoice \ {i} : invoice'[j].status = invoice[j].status
      <4>1. invoice' = WriteStatus(invoice, {i}, "deleted")
        BY <1>6, <2>0, <2>3 DEF CommitRemove
      <4>. QED
        BY <2>1, <4>1, TypeFacts, WriteStatusShape
    <3>2. \A j \in Invoice \ {i} : RowView(j)' = RowView(j)
      BY <2>1, <3>1, RowViewKept
    <3>3. Seen(invoice[i]) \in {"open", "settled", "void"} /\ Seen(invoice'[i]) = "gone"
      BY <2>3, <3>1, SeenAs DEF Exists, Payable
    <3>4. RowView(i)' = RowView(i) \/ Edge(RowView(i), RowView(i)')
      BY <2>1, <3>3 DEF RowView, Edge
    <3>. QED
      BY <2>1, <3>2, <3>4, LedgerOneRow
  <2>. QED
    BY <2>2, <2>3
<1>7. ASSUME NEW due, BulkMarkOverdue(due)
      PROVE  Goal
  <2>1. hist' = hist
    BY <1>7, OverdueEffect
  <2>2. \A i \in Invoice : \/ invoice'[i].status = invoice[i].status
                           \/ /\ invoice[i].status \in Payable
                              /\ invoice'[i].status \in Payable
    BY <1>7, OverdueEffect DEF Payable
  <2>3. \A i \in Invoice : Seen(invoice'[i]) = Seen(invoice[i])
    BY <2>2, SeenAs, SeenByStatus
  <2>4. \A i \in Invoice : RowView(i)' = RowView(i)
    BY <2>1, <2>3 DEF RowView
  <2>. QED
    BY <2>4, LedgerStutter
<1>8. ASSUME NEW i \in Invoice, CreateInvoice(i)
      PROVE  Goal
  BY <1>0, <1>8, ByHandEffect
<1>9. ASSUME NEW r \in Request, ReadStep(r)
      PROVE  Goal
  BY <1>1, <1>9, ReadStepKeeps, ReadStepHistory
<1>10. ASSUME NEW r \in Request, NEW b \in Booking, InsertBooking(r, b)
       PROVE  Goal
  <2>1. hist'.overrun = hist.overrun
    BY <1>10, TypeFacts DEF InsertBooking, Histories
  <2>. QED
    BY <1>1, <1>10, <2>1 DEF InsertBooking
<1>11. ASSUME UNCHANGED <<invoice, hist>>
       PROVE  Goal
  BY <1>1, <1>11
<1>. QED
  BY <1>2, <1>3, <1>4, <1>5, <1>6, <1>7, <1>8, <1>9, <1>10, <1>11
     DEF Next, BookingStep, InvoiceStep, ReadStep, CommitReject, UpdateFacility, vars

(* However many requests are served at once, the handlers implement the     *)
(* invoice lifecycle of InvoiceLedger: approvals, payments, voidings,       *)
(* deletions and the overdue job are steps of it or leave it alone, and the *)
(* only calls that break its promises are those that write an invoice which *)
(* was settled or voided after they had read it.                            *)
THEOREM LedgerKept == Spec => KeepsLedger
<1>1. Init => PayersSawOpen
  BY DEF Init, PayersSawOpen, Idle
<1>2. Init => Ledger!Init
  BY SeenAs DEF Init, Ledger!Init, LedgerView
<1>3. Spec => Ledger!Spec
  BY <1>1, <1>2, PayersSawOpenStep, ShapeInit, ShapeStep, LedgerStep, PTL
     DEF Spec, Ledger!Spec
<1>. QED
  BY <1>3 DEF KeepsLedger

(* What the ledger promises of one invoice, in the terms of its column: no  *)
(* call voids what is settled or pays what is void, unless it overruns it.  *)
FinalStatus ==
  \A i \in Invoice \ hist'.overrun :
    /\ invoice[i].status = "PAID" => invoice'[i].status \in {"PAID", "deleted"}
    /\ invoice[i].status = "CANCELLED" => invoice'[i].status \in {"CANCELLED", "deleted"}

LEMMA LedgerFinal ==
  ASSUME TypeOK, TypeOK', [Ledger!Next]_LedgerView
  PROVE  FinalStatus
<1>. SUFFICES ASSUME NEW i \in Invoice \ hist'.overrun,
                     invoice[i].status \in {"PAID", "CANCELLED"}
              PROVE  invoice'[i].status \in {invoice[i].status, "deleted"}
  BY DEF FinalStatus
<1>1. /\ LedgerView[i] \in {"overrun", Seen(invoice[i])}
      /\ LedgerView'[i] = Seen(invoice'[i])
  BY DEF LedgerView
<1>2. LedgerView[i] \in {"overrun", "settled", "void"}
  BY <1>1, SeenAs
<1>3. LedgerView'[i] \in {LedgerView[i], "gone", "overrun"}
  BY <1>2 DEF Ledger!Next, Ledger!Issue, Ledger!Settle, Ledger!Void, Ledger!Delete,
              Ledger!Overrun, Ledger!Move
<1>4. invoice'[i].status \in RowStatus
  BY DEF TypeOK, InvoiceRow
<1>. QED
  BY <1>1, <1>3, <1>4, SeenAs DEF RowStatus, InvoiceStatus, Payable

(* "Paid invoices cannot be cancelled", "Cancelled invoices cannot be       *)
(* paid": so it is, whatever else is served at the same time, unless a call *)
(* had read the invoice before it was paid or cancelled.                    *)
THEOREM PaidOrVoidIsFinal == Spec => [][FinalStatus]_vars
<1>1. Init => PayersSawOpen
  BY DEF Init, PayersSawOpen, Idle
<1>2. ASSUME Shape, Shape', PayersSawOpen, [Next]_vars
      PROVE  FinalStatus
  BY <1>2, LedgerStep, LedgerFinal DEF Shape
<1>3. Shape /\ Shape' /\ PayersSawOpen /\ [Next]_vars => [FinalStatus]_vars
  BY <1>2
<1>. QED
  BY <1>1, <1>3, PayersSawOpenStep, ShapeInit, ShapeStep, PTL DEF Spec

-----------------------------------------------------------------------------
(* Refunds *)

(* A payment of an invoice is in flight together with a cancelBooking of    *)
(* its booking.                                                             *)
MeetsCancel(i) ==
  \E r, s \in Request :
    /\ req[r].op = "pay" /\ req[r].invoice = i
    /\ req[s].op = "cancel" /\ req[s].booking = invoice[i].source

NoPayMeetsCancel == \A i \in Invoice : ~MeetsCancel(i)

(* Every payment of its fees is known to a cancellation in flight, and      *)
(* flagged in a cancelled booking.                                          *)
RefundInv ==
  /\ \A r \in Request, i \in Invoice :
       /\ req[r].op = "cancel"
       /\ invoice[i].status = "PAID" /\ invoice[i].source = req[r].booking
       => req[r].sawPaid
  /\ \A b \in Booking, i \in Invoice :
       /\ booking[b].status = "CANCELLED"
       /\ invoice[i].status = "PAID" /\ invoice[i].source = b
       => booking[b].refund

(* Only markAsPaid makes an invoice PAID. *)
LEMMA PaidBy ==
  ASSUME Shape, [Next]_vars, NEW i \in Invoice, invoice'[i].status = "PAID"
  PROVE  /\ invoice'[i].source = invoice[i].source
         /\ \/ invoice[i].status = "PAID"
            \/ \E r \in Request :
                 CommitPay(r) /\ req[r].invoice = i /\ Exists(invoice[i])
<1>. DEFINE Goal == /\ invoice'[i].source = invoice[i].source
                    /\ \/ invoice[i].status = "PAID"
                       \/ \E r \in Request :
                            CommitPay(r) /\ req[r].invoice = i /\ Exists(invoice[i])
<1>1. CASE UNCHANGED invoice
  BY <1>1
<1>2. ASSUME NEW r \in Request, CommitApprove(r)
      PROVE  Goal
  BY <1>2, ApproveEffect
<1>3. ASSUME NEW r \in Request, CommitCancel(r)
      PROVE  Goal
  BY <1>3, CancelEffect
<1>4. ASSUME NEW r \in Request, CommitPay(r)
      PROVE  Goal
  <2>1. /\ invoice'[i].source = invoice[i].source
        /\ invoice'[i].status = IF i = req[r].invoice /\ Exists(invoice[req[r].invoice])
                                THEN "PAID" ELSE invoice[i].status
    BY <1>4, PayEffect
  <2>. QED
    BY <1>4, <2>1
<1>5. ASSUME NEW r \in Request, CommitVoid(r) \/ CommitRemove(r)
      PROVE  Goal
  BY <1>5, DropEffect
<1>6. ASSUME NEW due, BulkMarkOverdue(due)
      PROVE  Goal
  BY <1>6, OverdueEffect
<1>7. ASSUME NEW j \in Invoice, CreateInvoice(j)
      PROVE  Goal
  BY <1>7, ByHandEffect, SourceAssumption
<1>. QED
  BY <1>1, <1>2, <1>3, <1>4, <1>5, <1>6, <1>7, ReadStepKeeps
     DEF Next, BookingStep, InvoiceStep, ReadStep, InsertBooking, CommitReject,
         UpdateFacility, vars

(* Only cancelBooking makes a booking CANCELLED. *)
LEMMA CancelledBy ==
  ASSUME Shape, [Next]_vars, NEW b \in Booking, booking'[b].status = "CANCELLED"
  PROVE  \/ booking'[b] = booking[b]
         \/ \E r \in Request : /\ req[r].op = "cancel" /\ req[r].booking = b
                               /\ booking'[b].refund = req[r].sawPaid
<1>. DEFINE Goal == \/ booking'[b] = booking[b]
                    \/ \E r \in Request : /\ req[r].op = "cancel" /\ req[r].booking = b
                                          /\ booking'[b].refund = req[r].sawPaid
<1>1. CASE UNCHANGED booking
  BY <1>1
<1>2. ASSUME NEW r \in Request, NEW c \in Booking, InsertBooking(r, c)
      PROVE  Goal
  BY <1>2, TypeFacts DEF InsertBooking
<1>3. ASSUME NEW r \in Request, CommitApprove(r)
      PROVE  Goal
  BY <1>3, ApproveEffect DEF TargetStatus
<1>4. ASSUME NEW r \in Request, CommitReject(r)
      PROVE  Goal
  BY <1>4, RejectEffect
<1>5. ASSUME NEW r \in Request, CommitCancel(r)
      PROVE  Goal
  <2>1. CASE req[r].booking = b
    <3>1. /\ booking[b] \in BookingRow
          /\ req[r].op = "cancel"
          /\ booking' = [booking EXCEPT ![b].status = "CANCELLED",
                                        ![b].refund = req[r].sawPaid]
      BY <1>5, <2>1, RequestFacts, RowOfStored DEF CommitCancel, Shape
    <3>2. booking'[b].refund = req[r].sawPaid
      BY <3>1, TypeFacts DEF BookingRow
    <3>. QED
      BY <2>1, <3>1, <3>2
  <2>2. CASE req[r].booking # b
    BY <1>5, <2>2, CancelEffect
  <2>. QED
    BY <2>1, <2>2
<1>6. ASSUME NEW r \in Request, CommitPay(r)
      PROVE  Goal
  BY <1>6, PayEffect, SourceAssumption
<1>7. ASSUME NEW r \in Request, ReadStep(r) \/ CommitVoid(r) \/ CommitRemove(r)
      PROVE  Goal
  BY <1>1, <1>7, ReadStepKeeps, DropEffect
<1>. QED
  BY <1>1, <1>2, <1>3, <1>4, <1>5, <1>6, <1>7
     DEF Next, BookingStep, InvoiceStep, ReadStep, BulkMarkOverdue, CreateInvoice,
         UpdateFacility, vars

(* cancelBooking has looked at every invoice of the booking when it starts. *)
LEMMA CancelLooks ==
  ASSUME Shape, NEW r \in Request, ReadStep(r), req'[r].op = "cancel", req'[r] # req[r],
         NEW i \in Invoice, invoice[i].status = "PAID",
         invoice[i].source = req'[r].booking
  PROVE  req'[r].sawPaid
<1>1. ~CheckSlot(r)
  <2>1. CASE Finish(r)
    BY <2>1, FinishShape DEF Idle
  <2>2. CASE CheckSlot(r) /\ req' = [req EXCEPT ![r].op = "insert"]
    <3>1. req[r] \in CreateReq /\ req'[r] = [req[r] EXCEPT !.op = "insert"]
      BY <2>2, StateOfRequest, TypeFacts DEF CheckSlot
    <3>. QED
      BY <3>1 DEF CreateReq
  <2>. QED
    BY <2>1, <2>2 DEF CheckSlot
<1>2. ~Fail(r)
  BY FinishShape DEF Fail, Idle
<1>3. PICK b \in Booking : StartCancel(r, b)
  BY <1>1, <1>2, TypeFacts DEF ReadStep, StartCreate, StartApprove, StartReject, StartPay,
     StartVoid, StartRemove, Begin
<1>4. /\ req'[r].booking = b
      /\ req'[r].sawPaid = \E j \in InvoicesOf(b) : invoice[j].status = "PAID"
  BY <1>3, TypeFacts DEF StartCancel, Begin
<1>5. i \in InvoicesOf(b)
  BY <1>4, TypeFacts DEF InvoicesOf, RowsOf, Exists
<1>. QED
  BY <1>4, <1>5

LEMMA RefundInvStep == NoPayMeetsCancel /\ Shape /\ RefundInv /\ [Next]_vars => RefundInv'
<1>. SUFFICES ASSUME NoPayMeetsCancel, Shape, RefundInv, [Next]_vars,
                     NEW i \in Invoice, invoice'[i].status = "PAID"
              PROVE  /\ \A r \in Request :
                          /\ req'[r].op = "cancel"
                          /\ invoice'[i].source = req'[r].booking
                          => req'[r].sawPaid
                     /\ \A b \in Booking :
                          booking'[b].status = "CANCELLED" /\ invoice'[i].source = b
                          => booking'[b].refund
  BY DEF RefundInv
<1>1. invoice'[i].source = invoice[i].source
  BY PaidBy
<1>2. ASSUME NEW r \in Request, req'[r].op = "cancel",
             invoice'[i].source = req'[r].booking
      PROVE  req'[r].sawPaid
  <2>1. CASE req'[r] = req[r] /\ invoice[i].status = "PAID"
    BY <1>1, <1>2, <2>1 DEF RefundInv
  <2>2. CASE req'[r] = req[r] /\ invoice[i].status # "PAID"
    <3>1. PICK s \in Request : CommitPay(s) /\ req[s].invoice = i
      BY <2>2, PaidBy
    <3>2. MeetsCancel(i)
      BY <1>1, <1>2, <2>2, <3>1 DEF MeetsCancel, CommitPay
    <3>. QED
      BY <3>2 DEF NoPayMeetsCancel
  <2>3. CASE req'[r] # req[r] /\ ReadStep(r)
    <3>1. invoice' = invoice
      BY <2>3, ReadStepKeeps
    <3>. QED
      BY <1>2, <2>3, <3>1, CancelLooks
  <2>4. CASE req'[r] # req[r] /\ ~ReadStep(r)
    <3>1. \A s \in Request : ~ReadStep(s)
      BY <2>4, ReadStepKeeps
    <3>. QED
      BY <1>2, <2>4, <3>1, WriteStepForgets DEF Idle
  <2>. QED
    BY <2>1, <2>2, <2>3, <2>4
<1>3. ASSUME NEW b \in Booking, booking'[b].status = "CANCELLED",
             invoice'[i].source = b
      PROVE  booking'[b].refund
  <2>1. CASE invoice[i].status = "PAID"
    <3>1. CASE booking'[b] = booking[b]
      BY <1>1, <1>3, <2>1, <3>1 DEF RefundInv
    <3>2. CASE \E r \in Request : /\ req[r].op = "cancel" /\ req[r].booking = b
                                  /\ booking'[b].refund = req[r].sawPaid
      BY <1>1, <1>3, <2>1, <3>2 DEF RefundInv
    <3>. QED
      BY <1>3, <3>1, <3>2, CancelledBy
  <2>2. CASE invoice[i].status # "PAID"
    <3>1. PICK r \in Request : CommitPay(r) /\ req[r].invoice = i /\ Exists(invoice[i])
      BY <2>2, PaidBy
    <3>2. booking'[b].status = "APPROVED"
      BY <1>1, <1>3, <3>1, PayEffect, SourceAssumption
    <3>. QED
      BY <1>3, <3>2
  <2>. QED
    BY <2>1, <2>2
<1>. QED
  BY <1>2, <1>3

(* cancelBooking "flags paid invoices for refund": it always does when no   *)
(* payment of the booking's fees is in flight beside it.  The payment that  *)
(* commits between its look at the invoices and its transaction is the only *)
(* way to lose a refund.                                                    *)
THEOREM RefundsFlagged == Spec /\ []NoPayMeetsCancel => []PaidCancellationIsFlagged
<1>1. Init => RefundInv
  BY DEF Init, RefundInv, Idle
<1>2. Shape /\ RefundInv => PaidCancellationIsFlagged
  BY TypeFacts DEF RefundInv, PaidCancellationIsFlagged, InvoicesOf, RowsOf
<1>. QED
  BY <1>1, <1>2, ShapeInit, ShapeStep, RefundInvStep, PTL DEF Spec
=============================================================================
