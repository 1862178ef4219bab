----------------------- MODULE ServiceBilling_proofs -----------------------
(***************************************************************************)
(* Theorems about ServiceBilling, for every finite set of service requests, *)
(* invoices and calls, and every set of fees.                               *)
(***************************************************************************)
EXTENDS ServiceBilling, FiniteSetTheorems, TLAPS

USE DEF ServiceRequestStatus, InvoiceStatus, RowStatus

Rows == InvoiceRow(Source)
Hist == [late : SUBSET Request]

(* A call refers to service requests that are stored, and an invoice for a  *)
(* service request to a stored one: none is ever deleted.                   *)
HeldKnown(q) ==
  /\ q.op \in {"assign", "status", "invoice"} => Known(q.ticket)
  /\ q.op = "scan" => \A k \in q.tickets : Known(k)

RefsOk ==
  /\ \A r \in Request : HeldKnown(req[r])
  /\ \A i \in Invoice :
       invoice[i].status # "unborn" /\ invoice[i].source \in Ticket =>
         Known(invoice[i].source)

Shape == TypeOK /\ RefsOk

-----------------------------------------------------------------------------
(* Shapes *)

(* What a handler holds, by what it is doing. *)
LEMMA StateOfRequest ==
  ASSUME NEW q \in ReqState
  PROVE  /\ q.op = "assign" => q.ticket \in Ticket
         /\ q.op = "status" => q.ticket \in Ticket /\ q.to \in ServiceRequestStatus
         /\ q.op = "scan" => q.tickets \in SUBSET Ticket
         /\ q.op = "invoice" => q.ticket \in Ticket
         /\ q.op \in {"pay", "void", "remove"} => q.invoice \in Invoice
         /\ q.op \in {"run", "bill"} => q.fees \in SUBSET Fee
         /\ q.op = "removeFee" => q.fee \in Fee
BY DEF ReqState, Idle

LEMMA RequestShapes ==
  /\ Idle \in ReqState
  /\ \A k \in Ticket, saw \in ServiceRequestStatus :
       [op |-> "assign", ticket |-> k, saw |-> saw] \in ReqState
  /\ \A k \in Ticket, to \in ServiceRequestStatus :
       [op |-> "status", ticket |-> k, to |-> to] \in ReqState
  /\ \A S \in SUBSET Ticket : [op |-> "scan", tickets |-> S] \in ReqState
  /\ \A k \in Ticket : [op |-> "invoice", ticket |-> k] \in ReqState
  /\ \A i \in Invoice, o \in {"pay", "void", "remove"} :
       [op |-> o, invoice |-> i] \in ReqState
  /\ \A S \in SUBSET Fee, o \in {"run", "bill"} : [op |-> o, fees |-> S] \in ReqState
  /\ \A f \in Fee : [op |-> "removeFee", fee |-> f] \in ReqState
BY DEF ReqState

LEMMA BeginShape ==
  ASSUME TypeOK, NEW r \in Request, NEW q \in ReqState, Begin(r, q)
  PROVE  /\ req' \in [Request -> ReqState]
         /\ req[r] = Idle
         /\ req'[r] = q
         /\ \A s \in Request \ {r} : req'[s] = req[s]
BY DEF TypeOK, Begin

LEMMA FinishShape ==
  ASSUME TypeOK, NEW r \in Request, Finish(r)
  PROVE  /\ req' \in [Request -> ReqState]
         /\ req'[r] = Idle
         /\ \A s \in Request \ {r} : req'[s] = req[s]
BY RequestShapes DEF TypeOK, Finish

LEMMA WriteStatusShape ==
  ASSUME NEW table \in [Invoice -> Rows], NEW rows, NEW st \in RowStatus
  PROVE  /\ WriteStatus(table, rows, st) \in [Invoice -> Rows]
         /\ \A i \in Invoice :
              /\ WriteStatus(table, rows, st)[i].source = table[i].source
              /\ WriteStatus(table, rows, st)[i].status =
                   IF i \in rows THEN st ELSE table[i].status
BY DEF WriteStatus, Rows, InvoiceRow

LEMMA InsertRowShape ==
  ASSUME NEW table \in [Invoice -> Rows], NEW i \in Invoice, NEW src \in Source
  PROVE  /\ InsertRow(table, i, src) \in [Invoice -> Rows]
         /\ InsertRow(table, i, src)[i].status = "PENDING"
         /\ InsertRow(table, i, src)[i].source = src
         /\ \A j \in Invoice \ {i} : InsertRow(table, i, src)[j] = table[j]
BY DEF InsertRow, Rows, InvoiceRow

(* The handlers that only read start here, and a request that fails ends.   *)
ReadStep(r) ==
  \/ \E k \in Ticket : StartAssign(r, k) \/ StartCancel(r, k) \/ StartInvoice(r, k)
  \/ \E k \in Ticket, to \in ServiceRequestStatus : StartStatus(r, k, to)
  \/ StartScan(r)
  \/ \E i \in Invoice : StartPay(r, i) \/ StartVoid(r, i) \/ StartRemove(r, i)
  \/ StartRun(r) \/ CheckFees(r)
  \/ \E f \in Fee : StartRemoveFee(r, f)
  \/ Fail(r)

LEMMA ReadStepShape ==
  ASSUME TypeOK, NEW r \in Request, ReadStep(r)
  PROVE  /\ UNCHANGED <<ticket, revenue, fee, invoice>>
         /\ req' \in [Request -> ReqState]
         /\ hist' \in Hist
         /\ \A s \in Request \ {r} : req'[s] = req[s]
         /\ HeldKnown(req'[r])
<1>. USE DEF Hist, HeldKnown
<1>t. hist \in Hist /\ req \in [Request -> ReqState]
  BY DEF TypeOK
<1>1. CASE \E k \in Ticket : StartAssign(r, k) \/ StartCancel(r, k) \/ StartInvoice(r, k)
  <2>1. PICK k \in Ticket : StartAssign(r, k) \/ StartCancel(r, k) \/ StartInvoice(r, k)
    BY <1>1
  <2>2. CASE StartAssign(r, k)
    <3>. DEFINE q == [op |-> "assign", ticket |-> k, saw |-> ticket[k].status]
    <3>1. q \in ReqState /\ HeldKnown(q)
      BY <2>2, RequestShapes DEF StartAssign, Known
    <3>2. Begin(r, q) /\ UNCHANGED <<ticket, revenue, fee, invoice, hist>>
      BY <2>2 DEF StartAssign
    <3>. HIDE DEF q
    <3>. QED
      BY <1>t, <3>1, <3>2, BeginShape
  <2>3. CASE StartCancel(r, k)
    <3>1. Known(k)
      BY <2>3 DEF StartCancel, Known
    <3>. DEFINE q == [op |-> "status", ticket |-> k, to |-> "CANCELLED"]
    <3>2. q \in ReqState /\ HeldKnown(q)
      BY <3>1, RequestShapes
    <3>3. Begin(r, q) /\ UNCHANGED <<ticket, revenue, fee, invoice, hist>>
      BY <2>3 DEF StartCancel
    <3>. HIDE DEF q
    <3>. QED
      BY <1>t, <3>2, <3>3, BeginShape
  <2>4. CASE StartInvoice(r, k)
    <3>. DEFINE q == [op |-> "invoice", ticket |-> k]
    <3>1. q \in ReqState /\ HeldKnown(q)
      BY <2>4, RequestShapes DEF StartInvoice
    <3>2. Begin(r, q) /\ UNCHANGED <<ticket, revenue, fee, invoice, hist>>
      BY <2>4 DEF StartInvoice
    <3>. HIDE DEF q
    <3>. QED
      BY <1>t, <3>1, <3>2, BeginShape
  <2>. QED
    BY <2>1, <2>2, <2>3, <2>4
<1>2. CASE \E k \in Ticket, to \in ServiceRequestStatus : StartStatus(r, k, to)
  <2>1. PICK k \in Ticket, to \in ServiceRequestStatus : StartStatus(r, k, to)
    BY <1>2
  <2>. DEFINE q == [op |-> "status", ticket |-> k, to |-> to]
  <2>2. q \in ReqState /\ HeldKnown(q)
    BY <2>1, RequestShapes DEF StartStatus
  <2>3. Begin(r, q) /\ UNCHANGED <<ticket, revenue, fee, invoice, hist>>
    BY <2>1 DEF StartStatus
  <2>. HIDE DEF q
  <2>. QED
    BY <1>t, <2>2, <2>3, BeginShape
<1>3. CASE StartScan(r)
  <2>. DEFINE late == {k \in Ticket : Breaching(k)}
  <2>1. [op |-> "scan", tickets |-> late] \in ReqState
    BY RequestShapes
  <2>2. \A k \in late : Known(k)
    BY DEF Breaching, Known
  <2>3. /\ Begin(r, [op |-> "scan", tickets |-> late])
        /\ UNCHANGED <<ticket, revenue, fee, invoice, hist>>
    BY <1>3 DEF StartScan
  <2>. HIDE DEF late
  <2>. QED
    BY <1>t, <2>1, <2>2, <2>3, BeginShape
<1>4. CASE \E i \in Invoice : StartPay(r, i) \/ StartVoid(r, i) \/ StartRemove(r, i)
  <2>1. PICK i \in Invoice : StartPay(r, i) \/ StartVoid(r, i) \/ StartRemove(r, i)
    BY <1>4
  <2>. QED
    BY <1>t, <2>1, RequestShapes, BeginShape DEF StartPay, StartVoid, StartRemove
<1>5. CASE StartRun(r)
  <2>1. ToInvoice \in SUBSET Fee
    BY DEF ToInvoice
  <2>2. hist' \in Hist
    BY <1>t, <1>5, <2>1 DEF StartRun, Reads
  <2>. DEFINE q == [op |-> "run", fees |-> ToInvoice]
  <2>3. q \in ReqState /\ HeldKnown(q)
    BY <2>1, RequestShapes
  <2>4. Begin(r, q) /\ UNCHANGED <<ticket, revenue, fee, invoice>>
    BY <1>5 DEF StartRun
  <2>. HIDE DEF q
  <2>. QED
    BY <2>2, <2>3, <2>4, BeginShape
<1>6. CASE CheckFees(r)
  <2>1. req[r].fees \in SUBSET Fee /\ req[r].op = "run" /\ req[r] \in ReqState
    BY <1>t, <1>6, StateOfRequest DEF CheckFees
  <2>2. [req[r] EXCEPT !.op = "bill"] \in ReqState /\ [req[r] EXCEPT !.op = "bill"].op = "bill"
    BY <2>1 DEF ReqState, Idle
  <2>. QED
    BY <1>t, <1>6, <2>2 DEF CheckFees
<1>7. CASE \E f \in Fee : StartRemoveFee(r, f)
  <2>1. PICK f \in Fee : StartRemoveFee(r, f)
    BY <1>7
  <2>2. hist' \in Hist
    BY <1>t, <2>1 DEF StartRemoveFee, Reads
  <2>. QED
    BY <2>1, <2>2, RequestShapes, BeginShape DEF StartRemoveFee
<1>8. CASE Fail(r)
  BY <1>t, <1>8, FinishShape DEF Fail, Idle
<1>. QED
  BY <1>1, <1>2, <1>3, <1>4, <1>5, <1>6, <1>7, <1>8 DEF ReadStep

(* What a step must do for the shape to survive it. *)
LEMMA ShapeKept ==
  ASSUME Shape,
         ticket' \in [Ticket -> TicketRow \cup {Unborn}],
         revenue' \in [Invoice -> Nat],
         fee' \in [Fee -> FeeState],
         invoice' \in [Invoice -> Rows],
         req' \in [Request -> ReqState],
         hist' \in Hist,
         \A k \in Ticket : Known(k) => Known(k)',
         \A r \in Request : req'[r] = req[r] \/ HeldKnown(req'[r]),
         \A i \in Invoice :
           invoice'[i].status # "unborn" /\ invoice'[i].source \in Ticket =>
             \/ invoice[i].status # "unborn" /\ invoice'[i].source = invoice[i].source
             \/ Known(invoice'[i].source)
  PROVE  Shape'
<1>1. TypeOK'
  BY DEF TypeOK, Rows, Hist
<1>2. ASSUME NEW r \in Request
      PROVE  HeldKnown(req[r])'
  <2>1. HeldKnown(req'[r])
    BY DEF Shape, RefsOk
  <2>2. req'[r] \in ReqState
    OBVIOUS
  <2>. QED
    BY <2>1, <2>2, StateOfRequest DEF HeldKnown
<1>3. ASSUME NEW i \in Invoice, invoice'[i].status # "unborn", invoice'[i].source \in Ticket
      PROVE  Known(invoice[i].source)'
  <2>1. Known(invoice'[i].source)
    BY <1>3 DEF Shape, RefsOk
  <2>. QED
    BY <1>3, <2>1
<1>4. RefsOk'
  BY <1>2, <1>3 DEF RefsOk
<1>. QED
  BY <1>1, <1>4 DEF Shape

LEMMA ShapeInit == Init => Shape
<1>. SUFFICES ASSUME Init
              PROVE  Shape
  OBVIOUS
<1>1. /\ ticket \in [Ticket -> TicketRow \cup {Unborn}] /\ revenue \in [Invoice -> Nat]
      /\ fee \in [Fee -> FeeState] /\ hist \in Hist
  BY DEF Init, FeeState, Hist
<1>2. invoice \in [Invoice -> Rows]
  <2>1. [status |-> "unborn", source |-> {}] \in Rows
    BY DEF Rows, InvoiceRow, Source
  <2>. QED
    BY <2>1 DEF Init
<1>3. req \in [Request -> ReqState]
  BY RequestShapes DEF Init
<1>4. RefsOk
  BY DEF Init, RefsOk, HeldKnown, Idle
<1>. QED
  BY <1>1, <1>2, <1>3, <1>4 DEF Shape, TypeOK, Rows, Hist

(* Writes that end a request, split by the tables they touch. *)
LEMMA TicketStepShape ==
  ASSUME Shape, NEW r \in Request, Finish(r), hist' = hist, fee' = fee,
         NEW K \in SUBSET Ticket, \A k \in K : Known(k),
         \A k \in K : ticket'[k] \in TicketRow,
         \A k \in Ticket \ K : ticket'[k] = ticket[k],
         ticket' = [k \in Ticket |-> ticket'[k]],
         revenue' \in [Invoice -> Nat],
         invoice' \in [Invoice -> Rows],
         \A i \in Invoice :
             /\ invoice'[i].source = invoice[i].source
             /\ invoice'[i].status # "unborn" => invoice[i].status # "unborn"
  PROVE  Shape'
<1>t. /\ ticket \in [Ticket -> TicketRow \cup {Unborn}] /\ fee \in [Fee -> FeeState]
      /\ hist \in Hist /\ TypeOK
  BY DEF Shape, TypeOK, Hist
<1>1. ticket' \in [Ticket -> TicketRow \cup {Unborn}]
  <2>1. \A k \in Ticket : ticket'[k] \in TicketRow \cup {Unborn}
    BY <1>t
  <2>. QED
    BY <2>1
<1>2. \A k \in Ticket : Known(k) => Known(k)'
  BY <1>t DEF Known, TicketRow
<1>3. /\ req' \in [Request -> ReqState]
      /\ \A s \in Request : req'[s] = req[s] \/ HeldKnown(req'[s])
  BY <1>t, FinishShape DEF HeldKnown, Idle
<1>. QED
  BY <1>t, <1>1, <1>2, <1>3, ShapeKept

LEMMA BillingStepShape ==
  ASSUME Shape, NEW r \in Request, Finish(r), hist' \in Hist,
         UNCHANGED <<ticket, revenue>>,
         fee' \in [Fee -> FeeState],
         invoice' \in [Invoice -> Rows],
         \A i \in Invoice :
           invoice'[i].status # "unborn" /\ invoice'[i].source \in Ticket =>
             \/ invoice[i].status # "unborn" /\ invoice'[i].source = invoice[i].source
             \/ Known(invoice'[i].source)
  PROVE  Shape'
<1>t. /\ ticket \in [Ticket -> TicketRow \cup {Unborn}] /\ revenue \in [Invoice -> Nat] /\ TypeOK
  BY DEF Shape, TypeOK
<1>2. \A k \in Ticket : Known(k) => Known(k)'
  BY DEF Known
<1>3. /\ req' \in [Request -> ReqState]
      /\ \A s \in Request : req'[s] = req[s] \/ HeldKnown(req'[s])
  BY <1>t, FinishShape DEF HeldKnown, Idle
<1>. QED
  BY <1>t, <1>2, <1>3, ShapeKept

LEMMA ShapeStep == Shape /\ [Next]_vars => Shape'
<1>. SUFFICES ASSUME Shape, [Next]_vars
              PROVE  Shape'
  OBVIOUS
<1>t. /\ ticket \in [Ticket -> TicketRow \cup {Unborn}]
      /\ revenue \in [Invoice -> Nat]
      /\ fee \in [Fee -> FeeState]
      /\ invoice \in [Invoice -> Rows]
      /\ req \in [Request -> ReqState]
      /\ hist \in Hist
      /\ TypeOK
  BY DEF Shape, TypeOK, Rows, Hist
<1>k. \A k \in Ticket : Known(k) => ticket[k] \in TicketRow
  BY <1>t DEF Known, Unborn
<1>1. ASSUME NEW r \in Request, ReadStep(r)
      PROVE  Shape'
  <2>1. /\ ticket' = ticket /\ revenue' = revenue /\ fee' = fee /\ invoice' = invoice
        /\ \A k \in Ticket : Known(k) => Known(k)'
    BY <1>t, <1>1, ReadStepShape DEF Known
  <2>2. \A s \in Request : req'[s] = req[s] \/ HeldKnown(req'[s])
    BY <1>t, <1>1, ReadStepShape
  <2>. QED
    BY <1>t, <1>1, <2>1, <2>2, ReadStepShape, ShapeKept
<1>2. ASSUME NEW r \in Request, CommitAssign(r)
      PROVE  Shape'
  <2>. DEFINE k == req[r].ticket
  <2>1. k \in Ticket /\ Known(k)
    BY <1>t, <1>2, StateOfRequest DEF CommitAssign, Shape, RefsOk, HeldKnown
  <2>2. /\ ticket'[k] \in TicketRow
        /\ \A j \in Ticket \ {k} : ticket'[j] = ticket[j]
        /\ ticket' = [j \in Ticket |-> ticket'[j]]
    <3>. DEFINE st == IF req[r].saw = "NEW" THEN "IN_PROGRESS" ELSE ticket[k].status
                half == [ticket[k] EXCEPT !.assigned = TRUE]
                row == [half EXCEPT !.status = st]
    <3>1. ticket[k] \in TicketRow /\ ticket = [j \in Ticket |-> ticket[j]]
      BY <1>t, <1>k, <2>1
    <3>2. ticket' = [ticket EXCEPT ![k] = row]
      BY <1>2, <2>1, <3>1 DEF CommitAssign
    <3>3. st \in ServiceRequestStatus
      BY <3>1 DEF TicketRow
    <3>. HIDE DEF st
    <3>4. half \in TicketRow
      BY <3>1 DEF TicketRow
    <3>. HIDE DEF half
    <3>5. row \in TicketRow
      BY <3>3, <3>4 DEF TicketRow
    <3>. HIDE DEF row, k
    <3>. QED
      BY <2>1, <3>1, <3>2, <3>5
  <2>3. UNCHANGED <<revenue, fee, invoice, hist>> /\ Finish(r)
    BY <1>2 DEF CommitAssign
  <2>4. {k} \in SUBSET Ticket
    BY <2>1
  <2>. HIDE DEF k
  <2>. QED
    BY <1>t, <2>1, <2>2, <2>3, <2>4, TicketStepShape
<1>3. ASSUME NEW r \in Request, CommitStatus(r)
      PROVE  Shape'
  <2>. DEFINE k == req[r].ticket
  <2>1. k \in Ticket /\ Known(k) /\ req[r].to \in ServiceRequestStatus
    BY <1>t, <1>3, StateOfRequest DEF CommitStatus, Shape, RefsOk, HeldKnown
  <2>2. /\ ticket'[k] \in TicketRow
        /\ \A j \in Ticket \ {k} : ticket'[j] = ticket[j]
        /\ ticket' = [j \in Ticket |-> ticket'[j]]
    <3>. DEFINE row == [ticket[k] EXCEPT !.status = req[r].to]
    <3>1. ticket[k] \in TicketRow /\ ticket = [j \in Ticket |-> ticket[j]]
      BY <1>t, <1>k, <2>1
    <3>2. ticket' = [ticket EXCEPT ![k] = row]
      BY <1>3, <2>1, <3>1 DEF CommitStatus
    <3>3. row \in TicketRow
      BY <2>1, <3>1 DEF TicketRow
    <3>. HIDE DEF row, k
    <3>. QED
      BY <2>1, <3>1, <3>2, <3>3
  <2>3. UNCHANGED <<revenue, fee, invoice, hist>> /\ Finish(r)
    BY <1>3 DEF CommitStatus
  <2>4. {k} \in SUBSET Ticket
    BY <2>1
  <2>. HIDE DEF k
  <2>. QED
    BY <1>t, <2>1, <2>2, <2>3, <2>4, TicketStepShape
<1>4. ASSUME NEW r \in Request, CommitScan(r)
      PROVE  Shape'
  <2>. DEFINE K == req[r].tickets
  <2>1. K \in SUBSET Ticket /\ \A k \in K : Known(k)
    BY <1>t, <1>4, StateOfRequest DEF CommitScan, Shape, RefsOk, HeldKnown
  <2>2. /\ \A k \in K : ticket'[k] \in TicketRow
        /\ \A j \in Ticket \ K : ticket'[j] = ticket[j]
        /\ ticket' = [j \in Ticket |-> ticket'[j]]
    BY <1>t, <1>k, <1>4, <2>1 DEF CommitScan, TicketRow
  <2>3. UNCHANGED <<revenue, fee, invoice, hist>> /\ Finish(r)
    BY <1>4 DEF CommitScan
  <2>. HIDE DEF K
  <2>. QED
    BY <1>t, <2>1, <2>2, <2>3, TicketStepShape
<1>5. ASSUME NEW r \in Request, CommitPay(r)
      PROVE  Shape'
  <2>. DEFINE i == req[r].invoice
              K == {invoice[i].source} \cap Ticket
  <2>1. i \in Invoice /\ Exists(invoice[i])
    BY <1>t, <1>5, StateOfRequest DEF CommitPay
  <2>2. invoice' = WriteStatus(invoice, {i}, "PAID") /\ Finish(r) /\ UNCHANGED <<fee, hist>>
    BY <1>5 DEF CommitPay
  <2>3. /\ invoice' \in [Invoice -> Rows]
        /\ \A j \in Invoice :
             /\ invoice'[j].source = invoice[j].source
             /\ invoice'[j].status # "unborn" => invoice[j].status # "unborn"
    BY <1>t, <2>1, <2>2 DEF WriteStatus, Rows, InvoiceRow, Exists
  <2>4. K \in SUBSET Ticket /\ \A k \in K : Known(k)
    BY <2>1 DEF Shape, RefsOk, Exists
  <2>5. revenue' \in [Invoice -> Nat]
    BY <1>t, <1>5 DEF CommitPay
  <2>6. /\ \A k \in K : ticket'[k] \in TicketRow
        /\ \A j \in Ticket \ K : ticket'[j] = ticket[j]
        /\ ticket' = [j \in Ticket |-> ticket'[j]]
    <3>1. CASE invoice[i].source \in Ticket
      <4>1. ticket' = [ticket EXCEPT ![invoice[i].source].status = "RESOLVED"]
        BY <1>5, <3>1 DEF CommitPay
      <4>. QED
        BY <1>t, <1>k, <2>4, <3>1, <4>1 DEF TicketRow
    <3>2. CASE invoice[i].source \notin Ticket
      BY <1>t, <1>5, <3>2 DEF CommitPay
    <3>. QED
      BY <3>1, <3>2
  <2>. HIDE DEF K
  <2>. QED
    BY <1>t, <2>2, <2>3, <2>4, <2>5, <2>6, TicketStepShape
<1>6. ASSUME NEW r \in Request, CommitVoid(r)
      PROVE  Shape'
  <2>1. req[r].invoice \in Invoice /\ Exists(invoice[req[r].invoice])
    BY <1>t, <1>6, StateOfRequest DEF CommitVoid
  <2>2. /\ invoice' \in [Invoice -> Rows]
        /\ \A j \in Invoice :
             /\ invoice'[j].source = invoice[j].source
             /\ invoice'[j].status # "unborn" => invoice[j].status # "unborn"
    BY <1>t, <1>6, <2>1 DEF CommitVoid, WriteStatus, Rows, InvoiceRow, Exists
  <2>3. Finish(r) /\ UNCHANGED <<ticket, revenue, fee, hist>>
    BY <1>6 DEF CommitVoid
  <2>. QED
    BY <1>t, <2>2, <2>3, BillingStepShape
<1>7. ASSUME NEW r \in Request, CommitRemove(r)
      PROVE  Shape'
  <2>1. req[r].invoice \in Invoice /\ Exists(invoice[req[r].invoice])
    BY <1>t, <1>7, StateOfRequest DEF CommitRemove
  <2>2. /\ invoice' \in [Invoice -> Rows]
        /\ \A j \in Invoice :
             /\ invoice'[j].source = invoice[j].source
             /\ invoice'[j].status # "unborn" => invoice[j].status # "unborn"
    BY <1>t, <1>7, <2>1 DEF CommitRemove, WriteStatus, Rows, InvoiceRow, Exists
  <2>3. Finish(r) /\ UNCHANGED <<ticket, revenue, hist>>
    BY <1>7 DEF CommitRemove
  <2>4. fee' \in [Fee -> FeeState]
    BY <1>t, <1>7 DEF CommitRemove, FeeState
  <2>. QED
    BY <1>t, <2>2, <2>3, <2>4, BillingStepShape
<1>8. ASSUME NEW r \in Request, NEW i \in Invoice, CommitInvoice(r, i)
      PROVE  Shape'
  <2>1. req[r].ticket \in Ticket /\ Known(req[r].ticket)
    BY <1>t, <1>8, StateOfRequest DEF CommitInvoice, Shape, RefsOk, HeldKnown
  <2>2. req[r].ticket \in Source
    BY <2>1 DEF Source
  <2>3. invoice' = InsertRow(invoice, i, req[r].ticket)
    BY <1>8 DEF CommitInvoice
  <2>4. Finish(r) /\ UNCHANGED <<ticket, revenue, fee, hist>>
    BY <1>8 DEF CommitInvoice
  <2>5. /\ invoice' \in [Invoice -> Rows] /\ invoice'[i].source = req[r].ticket
        /\ \A j \in Invoice \ {i} : invoice'[j] = invoice[j]
    BY <1>t, <2>2, <2>3, InsertRowShape
  <2>. QED
    BY <1>t, <2>1, <2>4, <2>5, BillingStepShape
<1>9. ASSUME NEW r \in Request, NEW i \in Invoice, CommitBill(r, i)
      PROVE  Shape'
  <2>1. req[r].fees \in SUBSET Fee
    BY <1>t, <1>9, StateOfRequest DEF CommitBill
  <2>2. req[r].fees \in Source
    BY <2>1 DEF Source
  <2>3. invoice' = InsertRow(invoice, i, req[r].fees)
    BY <1>9 DEF CommitBill
  <2>4. fee' \in [Fee -> FeeState]
    BY <1>t, <1>9 DEF CommitBill, FeeState
  <2>5. Finish(r) /\ UNCHANGED <<ticket, revenue>> /\ hist' \in Hist
    BY <1>t, <1>9 DEF CommitBill, Hist
  <2>6. /\ invoice' \in [Invoice -> Rows]
        /\ \A j \in Invoice :
             invoice'[j].status # "unborn" /\ invoice'[j].source \in Ticket =>
               invoice[j].status # "unborn" /\ invoice'[j].source = invoice[j].source
    <3>1. req[r].fees \notin Ticket
      BY <2>1, SetAssumption
    <3>2. /\ invoice' \in [Invoice -> Rows] /\ invoice'[i].source = req[r].fees
          /\ \A j \in Invoice \ {i} : invoice'[j] = invoice[j]
      BY <1>t, <2>2, <2>3, InsertRowShape
    <3>. QED
      BY <3>1, <3>2
  <2>. QED
    BY <1>t, <2>2, <2>3, <2>4, <2>5, <2>6, BillingStepShape
<1>10. ASSUME NEW r \in Request, CommitRemoveFee(r)
       PROVE  Shape'
  <2>1. fee' \in [Fee -> FeeState]
    BY <1>t, <1>10 DEF CommitRemoveFee, FeeState
  <2>2. Finish(r) /\ UNCHANGED <<ticket, revenue, invoice, hist>>
    BY <1>10 DEF CommitRemoveFee
  <2>. QED
    BY <1>t, <2>1, <2>2, BillingStepShape
<1>11. ASSUME NEW k \in Ticket, CreateTicket(k) \/ DeadlinePasses(k)
       PROVE  Shape'
  <2>1. ticket' \in [Ticket -> TicketRow \cup {Unborn}]
    <3>1. CASE CreateTicket(k)
      BY <1>t, <3>1 DEF CreateTicket, NewTicket, TicketRow
    <3>2. CASE DeadlinePasses(k)
      <4>1. [ticket[k] EXCEPT !.due = TRUE] \in TicketRow
        BY <1>k, <3>2 DEF DeadlinePasses, TicketRow
      <4>. QED
        BY <1>t, <3>2, <4>1 DEF DeadlinePasses
    <3>. QED
      BY <1>11, <3>1, <3>2
  <2>2. \A j \in Ticket : Known(j) => Known(j)'
    BY <1>t, <1>k, <1>11 DEF CreateTicket, DeadlinePasses, NewTicket, TicketRow, Known
  <2>3. UNCHANGED <<revenue, fee, invoice, req, hist>>
    BY <1>11 DEF CreateTicket, DeadlinePasses
  <2>. QED
    BY <1>t, <2>1, <2>2, <2>3, ShapeKept
<1>12. ASSUME NEW f \in Fee, CreateFee(f)
       PROVE  Shape'
  <2>1. fee' \in [Fee -> FeeState]
    BY <1>t, <1>12 DEF CreateFee, FeeState
  <2>2. UNCHANGED <<ticket, revenue, invoice, req, hist>>
    BY <1>12 DEF CreateFee
  <2>3. \A j \in Ticket : Known(j) => Known(j)'
    BY <2>2 DEF Known
  <2>. QED
    BY <1>t, <2>1, <2>2, <2>3, ShapeKept
<1>13. ASSUME BulkMarkOverdue
       PROVE  Shape'
  <2>1. /\ invoice' \in [Invoice -> Rows]
        /\ \A j \in Invoice :
             /\ invoice'[j].source = invoice[j].source
             /\ invoice'[j].status # "unborn" => invoice[j].status # "unborn"
    BY <1>t, <1>13 DEF BulkMarkOverdue, WriteStatus, Rows, InvoiceRow
  <2>2. UNCHANGED <<ticket, revenue, fee, req, hist>>
    BY <1>13 DEF BulkMarkOverdue
  <2>3. \A j \in Ticket : Known(j) => Known(j)'
    BY <2>2 DEF Known
  <2>. QED
    BY <1>t, <2>1, <2>2, <2>3, ShapeKept
<1>14. CASE UNCHANGED vars
  BY <1>t, <1>14 DEF vars, Shape, TypeOK, RefsOk, HeldKnown, Known
<1>15. ASSUME NEW r \in Request, Step(r)
       PROVE  Shape'
  BY <1>1, <1>2, <1>3, <1>4, <1>5, <1>6, <1>7, <1>8, <1>9, <1>10, <1>15
     DEF Step, ReadStep
<1>. QED
  BY <1>11, <1>12, <1>13, <1>14, <1>15 DEF Next

(* In every reachable state the tables and the calls in flight have their   *)
(* types, for any number of service requests, fees, invoices and calls.     *)
THEOREM TypeCorrect == Spec => []TypeOK
<1>1. Shape => TypeOK
  BY DEF Shape
<1>. QED
  BY <1>1, ShapeInit, ShapeStep, PTL DEF Spec
-----------------------------------------------------------------------------
(* Fees.  A call that holds a fee which is now on an invoice had read it    *)
(* when it was on none: it is late.                                         *)

HeldLate ==
  \A r \in Request, f \in Fee :
    Holds(req[r], f) /\ fee[f] \in Invoice => r \in hist.late

LEMMA FeeInit == Init => HeldLate
BY DEF Init, HeldLate, Holds, Idle

(* Steps that put no fee on an invoice and begin no call for one. *)
LEMMA FeesQuiet ==
  ASSUME HeldLate,
         hist' = hist,
         \A f \in Fee : fee'[f] \in Invoice => fee[f] \in Invoice,
         \A r \in Request, f \in Fee : Holds(req'[r], f) => Holds(req[r], f)
  PROVE  HeldLate'
<1>. SUFFICES ASSUME NEW r \in Request, NEW f \in Fee, Holds(req'[r], f), fee'[f] \in Invoice
              PROVE  r \in hist'.late
  BY DEF HeldLate, Holds
<1>. QED
  BY DEF HeldLate

LEMMA FinishHolds ==
  ASSUME TypeOK, NEW r \in Request, Finish(r)
  PROVE  \A s \in Request, f \in Fee :
           Holds(req'[s], f) => s # r /\ Holds(req[s], f)
BY FinishShape DEF Holds, Idle

(* Handlers that read, except those that take fees in hand. *)
QuietRead(r) ==
  \/ \E k \in Ticket : StartAssign(r, k) \/ StartCancel(r, k) \/ StartInvoice(r, k)
  \/ \E k \in Ticket, to \in ServiceRequestStatus : StartStatus(r, k, to)
  \/ StartScan(r)
  \/ \E i \in Invoice : StartPay(r, i) \/ StartVoid(r, i) \/ StartRemove(r, i)
  \/ CheckFees(r)
  \/ Fail(r)

LEMMA QuietReadHolds ==
  ASSUME TypeOK, NEW r \in Request, QuietRead(r)
  PROVE  /\ \A s \in Request, f \in Fee : Holds(req'[s], f) => Holds(req[s], f)
         /\ hist' = hist
<1>t. req \in [Request -> ReqState]
  BY DEF TypeOK
<1>1. ASSUME NEW q, Begin(r, q), q.op \in {"assign", "status", "scan", "invoice", "pay", "void", "remove"}
      PROVE  \A s \in Request, f \in Fee : Holds(req'[s], f) => Holds(req[s], f)
  <2>1. req'[r] = q /\ \A s \in Request \ {r} : req'[s] = req[s]
    BY <1>t, <1>1 DEF Begin
  <2>. QED
    BY <1>1, <2>1 DEF Holds
<1>2. CASE \E k \in Ticket : StartAssign(r, k) \/ StartCancel(r, k) \/ StartInvoice(r, k)
  BY <1>1, <1>2 DEF StartAssign, StartCancel, StartInvoice
<1>3. CASE \E k \in Ticket, to \in ServiceRequestStatus : StartStatus(r, k, to)
  BY <1>1, <1>3 DEF StartStatus
<1>4. CASE StartScan(r)
  BY <1>1, <1>4 DEF StartScan
<1>5. CASE \E i \in Invoice : StartPay(r, i) \/ StartVoid(r, i) \/ StartRemove(r, i)
  BY <1>1, <1>5 DEF StartPay, StartVoid, StartRemove
<1>6. CASE CheckFees(r)
  <2>1. /\ req[r] \in ReqState /\ req[r].op = "run"
        /\ req' = [req EXCEPT ![r].op = "bill"] /\ hist' = hist
    BY <1>t, <1>6 DEF CheckFees
  <2>2. [req[r] EXCEPT !.op = "bill"].fees = req[r].fees
        /\ [req[r] EXCEPT !.op = "bill"].op = "bill"
    BY <2>1 DEF ReqState, Idle
  <2>3. req'[r] = [req[r] EXCEPT !.op = "bill"] /\ \A s \in Request \ {r} : req'[s] = req[s]
    BY <1>t, <2>1
  <2>. QED
    BY <2>1, <2>2, <2>3 DEF Holds
<1>7. CASE Fail(r)
  BY <1>7, FinishHolds DEF Fail
<1>. QED
  BY <1>2, <1>3, <1>4, <1>5, <1>6, <1>7 DEF QuietRead

(* A call that takes fees in hand finds them open.                          *)
LEMMA TakeInHand ==
  ASSUME TypeOK, HeldLate, NEW r \in Request, NEW q \in ReqState, Begin(r, q), Reads(r),
         fee' = fee,
         \A f \in Fee : Holds(q, f) => fee[f] = "open"
  PROVE  HeldLate'
<1>1. /\ req'[r] = q /\ \A s \in Request \ {r} : req'[s] = req[s]
  BY BeginShape
<1>2. hist'.late = hist.late \ {r}
  BY DEF Reads, TypeOK
<1>. SUFFICES ASSUME NEW s \in Request, NEW f \in Fee, Holds(req'[s], f), fee[f] \in Invoice
              PROVE  s \in hist'.late
  BY DEF HeldLate, Holds
<1>3. s # r
  BY <1>1, SetAssumption
<1>. QED
  BY <1>1, <1>2, <1>3 DEF HeldLate

LEMMA FeeStep == Shape /\ HeldLate /\ [Next]_vars => HeldLate'
<1>. SUFFICES ASSUME Shape, HeldLate, [Next]_vars
              PROVE  HeldLate'
  OBVIOUS
<1>t. /\ fee \in [Fee -> FeeState]
      /\ req \in [Request -> ReqState]
      /\ hist \in Hist
      /\ TypeOK
  BY DEF Shape, TypeOK, Hist
<1>a. {"unborn", "open", "deleted"} \cap Invoice = {}
  BY SetAssumption
<1>1. ASSUME NEW r \in Request, QuietRead(r)
      PROVE  HeldLate'
  <2>1. ReadStep(r)
    BY <1>1 DEF QuietRead, ReadStep
  <2>2. fee' = fee
    BY <1>t, <2>1, ReadStepShape
  <2>. QED
    BY <1>t, <1>1, <2>2, QuietReadHolds, FeesQuiet
<1>2. ASSUME NEW r \in Request, StartRun(r)
      PROVE  HeldLate'
  <2>. DEFINE q == [op |-> "run", fees |-> ToInvoice]
  <2>1. ToInvoice \in SUBSET Fee /\ \A f \in ToInvoice : fee[f] = "open"
    BY DEF ToInvoice
  <2>2. q \in ReqState /\ \A f \in Fee : Holds(q, f) => fee[f] = "open"
    BY <2>1, RequestShapes DEF Holds
  <2>3. Begin(r, q) /\ Reads(r) /\ fee' = fee
    BY <1>2 DEF StartRun
  <2>. HIDE DEF q
  <2>. QED
    BY <1>t, <2>2, <2>3, TakeInHand
<1>3. ASSUME NEW r \in Request, NEW g \in Fee, StartRemoveFee(r, g)
      PROVE  HeldLate'
  <2>. DEFINE q == [op |-> "removeFee", fee |-> g]
  <2>1. q \in ReqState /\ \A f \in Fee : Holds(q, f) => fee[f] = "open"
    BY <1>3, RequestShapes DEF StartRemoveFee, Holds
  <2>2. Begin(r, q) /\ Reads(r) /\ fee' = fee
    BY <1>3 DEF StartRemoveFee
  <2>. HIDE DEF q
  <2>. QED
    BY <1>t, <2>1, <2>2, TakeInHand
<1>4. ASSUME NEW r \in Request,
             \/ CommitAssign(r) \/ CommitStatus(r) \/ CommitScan(r)
             \/ CommitPay(r) \/ CommitVoid(r) \/ \E i \in Invoice : CommitInvoice(r, i)
      PROVE  HeldLate'
  <2>1. Finish(r) /\ UNCHANGED <<fee, hist>>
    BY <1>4 DEF CommitAssign, CommitStatus, CommitScan, CommitPay, CommitVoid, CommitInvoice
  <2>. QED
    BY <1>t, <2>1, FinishHolds, FeesQuiet
<1>5. ASSUME NEW r \in Request, CommitRemove(r) \/ CommitRemoveFee(r)
      PROVE  HeldLate'
  <2>1. Finish(r) /\ hist' = hist
    BY <1>5 DEF CommitRemove, CommitRemoveFee
  <2>2. \A f \in Fee : fee'[f] \in Invoice => fee[f] \in Invoice
    BY <1>t, <1>a, <1>5 DEF CommitRemove, CommitRemoveFee
  <2>. QED
    BY <1>t, <2>1, <2>2, FinishHolds, FeesQuiet
<1>6. ASSUME NEW r \in Request, NEW i \in Invoice, CommitBill(r, i)
      PROVE  HeldLate'
  <2>. DEFINE on == {f \in req[r].fees : fee[f] # "deleted"}
  <2>1. /\ Finish(r)
        /\ \A f \in Fee : fee'[f] = IF f \in on THEN i ELSE fee[f]
        /\ hist'.late = hist.late \cup {s \in Request : \E f \in on : Holds(req[s], f)}
    BY <1>t, <1>6 DEF CommitBill, Hist
  <2>. HIDE DEF on
  <2>. SUFFICES ASSUME NEW s \in Request, NEW f \in Fee, Holds(req'[s], f), fee'[f] \in Invoice
                PROVE  s \in hist'.late
    BY DEF HeldLate, Holds
  <2>2. Holds(req[s], f)
    BY <1>t, <2>1, FinishHolds
  <2>3. CASE f \in on
    BY <2>1, <2>2, <2>3
  <2>4. CASE f \notin on
    BY <2>1, <2>2, <2>4 DEF HeldLate
  <2>. QED
    BY <2>3, <2>4
<1>7. ASSUME NEW k \in Ticket, CreateTicket(k) \/ DeadlinePasses(k)
      PROVE  HeldLate'
  BY <1>7, FeesQuiet DEF CreateTicket, DeadlinePasses
<1>8. ASSUME BulkMarkOverdue
      PROVE  HeldLate'
  BY <1>8, FeesQuiet DEF BulkMarkOverdue
<1>9. ASSUME NEW g \in Fee, CreateFee(g)
      PROVE  HeldLate'
  <2>1. \A f \in Fee : fee'[f] \in Invoice => fee[f] \in Invoice
    BY <1>t, <1>a, <1>9 DEF CreateFee
  <2>. QED
    BY <1>9, <2>1, FeesQuiet DEF CreateFee
<1>10. CASE UNCHANGED vars
  BY <1>10, FeesQuiet DEF vars
<1>11. ASSUME NEW r \in Request, Step(r)
       PROVE  HeldLate'
  BY <1>1, <1>2, <1>3, <1>4, <1>5, <1>6, <1>11 DEF Step, QuietRead
<1>. QED
  BY <1>7, <1>8, <1>9, <1>10, <1>11 DEF Next

(* What a step may do to a fee that is on an invoice.                       *)
FeeKept(f, i) ==
  \/ fee'[f] = i
  \/ fee'[f] = "open" /\ invoice'[i].status = "deleted"
  \/ \E r \in hist.late : Holds(req[r], f) /\ req'[r] = Idle

LEMMA FeeLeaves ==
  ASSUME Shape, HeldLate, [Next]_vars, NEW f \in Fee, NEW i \in Invoice, fee[f] = i
  PROVE  FeeKept(f, i)
<1>t. /\ fee \in [Fee -> FeeState]
      /\ invoice \in [Invoice -> Rows]
      /\ req \in [Request -> ReqState]
      /\ TypeOK
  BY DEF Shape, TypeOK, Rows
<1>0. ASSUME fee' = fee
      PROVE  FeeKept(f, i)
  BY <1>0 DEF FeeKept
<1>h. ASSUME NEW r \in Request, Finish(r), Holds(req[r], f)
      PROVE  FeeKept(f, i)
  <2>1. r \in hist.late
    BY <1>h DEF HeldLate
  <2>2. req'[r] = Idle
    BY <1>t, <1>h, FinishShape
  <2>. QED
    BY <1>h, <2>1, <2>2 DEF FeeKept
<1>1. ASSUME NEW r \in Request, ReadStep(r)
      PROVE  FeeKept(f, i)
  BY <1>t, <1>0, <1>1, ReadStepShape
<1>2. ASSUME NEW r \in Request, NEW j \in Invoice, CommitBill(r, j)
      PROVE  FeeKept(f, i)
  <2>1. CASE f \in req[r].fees
    BY <1>h, <1>2, <2>1 DEF CommitBill, Holds
  <2>2. CASE f \notin req[r].fees
    <3>1. fee'[f] = fee[f]
      BY <1>2, <2>2 DEF CommitBill
    <3>. QED
      BY <3>1 DEF FeeKept
  <2>. QED
    BY <2>1, <2>2
<1>3. ASSUME NEW r \in Request, CommitRemoveFee(r)
      PROVE  FeeKept(f, i)
  <2>1. CASE f = req[r].fee
    BY <1>h, <1>3, <2>1 DEF CommitRemoveFee, Holds
  <2>2. CASE f # req[r].fee
    <3>1. fee'[f] = fee[f]
      BY <1>t, <1>3, <2>2 DEF CommitRemoveFee
    <3>. QED
      BY <3>1 DEF FeeKept
  <2>. QED
    BY <2>1, <2>2
<1>4. ASSUME NEW r \in Request, CommitRemove(r)
      PROVE  FeeKept(f, i)
  <2>1. CASE req[r].invoice = i
    <3>1. fee'[f] = "open" /\ invoice' = WriteStatus(invoice, {i}, "deleted")
      BY <1>4, <2>1 DEF CommitRemove
    <3>2. invoice'[i].status = "deleted"
      BY <1>t, <3>1, WriteStatusShape
    <3>. QED
      BY <3>1, <3>2 DEF FeeKept
  <2>2. CASE req[r].invoice # i
    <3>1. fee'[f] = fee[f]
      BY <1>4, <2>2 DEF CommitRemove
    <3>. QED
      BY <3>1 DEF FeeKept
  <2>. QED
    BY <2>1, <2>2
<1>5. ASSUME NEW g \in Fee, CreateFee(g)
      PROVE  FeeKept(f, i)
  <2>1. g # f
    BY <1>5, SetAssumption DEF CreateFee
  <2>2. fee'[f] = fee[f]
    BY <1>t, <1>5, <2>1 DEF CreateFee
  <2>. QED
    BY <2>2 DEF FeeKept
<1>6. ASSUME NEW r \in Request,
             \/ CommitAssign(r) \/ CommitStatus(r) \/ CommitScan(r)
             \/ CommitPay(r) \/ CommitVoid(r) \/ \E j \in Invoice : CommitInvoice(r, j)
      PROVE  FeeKept(f, i)
  BY <1>0, <1>6
     DEF CommitAssign, CommitStatus, CommitScan, CommitPay, CommitVoid, CommitInvoice
<1>7. ASSUME NEW r \in Request, Step(r)
      PROVE  FeeKept(f, i)
  BY <1>1, <1>2, <1>3, <1>4, <1>6, <1>7 DEF Step, ReadStep
<1>. QED
  BY <1>0, <1>5, <1>7
     DEF Next, CreateTicket, DeadlinePasses, BulkMarkOverdue, vars

(* A utility fee that is on an invoice is put on another, or deleted, only  *)
(* by a call that had read it before, however many runs overlap; and it is  *)
(* free again when its invoice is deleted.                                  *)
THEOREM ChargeStands == Spec => RechargedOnlyLate
<1>1. Shape /\ HeldLate /\ [Next]_vars =>
        [\A f \in Fee, i \in Invoice : fee[f] = i =>
           \/ fee'[f] = i
           \/ fee'[f] = "open" /\ invoice'[i].status = "deleted"
           \/ \E r \in hist.late : Holds(req[r], f) /\ req'[r] = Idle]_vars
  BY FeeLeaves DEF FeeKept
<1>. QED
  BY <1>1, ShapeInit, ShapeStep, FeeInit, FeeStep, PTL DEF Spec, RechargedOnlyLate

-----------------------------------------------------------------------------
(* Revenue.  An invoice that is not issued yet, or can still be paid, has   *)
(* added nothing; from its first payment on no call begins to pay it, so    *)
(* each further count is one of the payments in flight.                     *)

PaysFor(q, i) == q.op = "pay" /\ q.invoice = i

Uncollected == Payable \cup {"unborn"}

RevenueOf(i) ==
  /\ invoice[i].status = "PAID" /\ invoice[i].source \in Ticket => revenue[i] >= 1
  /\ invoice[i].status \in Uncollected => revenue[i] = 0
  /\ revenue[i] + Cardinality(Paying(i)) <= Cardinality(Request)

RevenueInv == \A i \in Invoice : RevenueOf(i)

LEMMA PayingFinite ==
  ASSUME NEW i \in Invoice
  PROVE  /\ IsFiniteSet(Paying(i)) /\ Cardinality(Paying(i)) \in Nat
         /\ Cardinality(Request) \in Nat
         /\ Cardinality(Paying(i)) <= Cardinality(Request)
<1>1. Paying(i) \subseteq Request
  BY DEF Paying
<1>. QED
  BY <1>1, SetAssumption, FS_Subset, FS_CardinalityType

LEMMA PayingNextFinite ==
  ASSUME NEW i \in Invoice
  PROVE  /\ IsFiniteSet(Paying(i)') /\ Cardinality(Paying(i)') \in Nat
         /\ Cardinality(Paying(i)') <= Cardinality(Request)
<1>1. Paying(i)' \subseteq Request
  BY DEF Paying
<1>. QED
  BY <1>1, SetAssumption, FS_Subset, FS_CardinalityType

LEMMA PayingIs == \A i \in Invoice : Paying(i) = {r \in Request : PaysFor(req[r], i)}
BY DEF Paying, PaysFor

LEMMA PayingNextIs ==
  \A i \in Invoice : Paying(i)' = {r \in Request : PaysFor(req'[r], i)}
BY DEF Paying, PaysFor

(* Fewer payments in flight, and nothing else new about the invoice.        *)
LEMMA RevenueQuiet ==
  ASSUME Shape, NEW i \in Invoice, RevenueOf(i),
         revenue'[i] = revenue[i],
         invoice'[i].status = "PAID" =>
           invoice[i].status = "PAID" /\ invoice'[i].source = invoice[i].source,
         invoice'[i].status \in Uncollected => invoice[i].status \in Uncollected,
         \A r \in Request : PaysFor(req'[r], i) => PaysFor(req[r], i)
  PROVE  RevenueOf(i)'
<1>1. Paying(i)' \subseteq Paying(i)
  BY PayingIs, PayingNextIs
<1>2. Cardinality(Paying(i)') <= Cardinality(Paying(i))
  BY <1>1, PayingFinite, FS_Subset
<1>3. revenue[i] \in Nat
  BY DEF Shape, TypeOK
<1>4. revenue'[i] + Cardinality(Paying(i)') <= Cardinality(Request)
  BY <1>2, <1>3, PayingFinite, PayingNextFinite DEF RevenueOf
<1>. QED
  BY <1>4 DEF RevenueOf

LEMMA RevenueInit == Init => RevenueInv
<1>. SUFFICES ASSUME Init, NEW i \in Invoice
              PROVE  RevenueOf(i)
  BY DEF RevenueInv
<1>1. revenue[i] = 0 /\ invoice[i].status = "unborn"
  BY DEF Init
<1>. QED
  BY <1>1, PayingFinite DEF RevenueOf

LEMMA FinishPays ==
  ASSUME TypeOK, NEW r \in Request, Finish(r)
  PROVE  \A s \in Request, i \in Invoice :
           PaysFor(req'[s], i) => s # r /\ PaysFor(req[s], i)
BY FinishShape DEF PaysFor, Idle

(* Handlers that read, except payments. *)
NonPayingRead(r) ==
  \/ \E k \in Ticket : StartAssign(r, k) \/ StartCancel(r, k) \/ StartInvoice(r, k)
  \/ \E k \in Ticket, to \in ServiceRequestStatus : StartStatus(r, k, to)
  \/ StartScan(r)
  \/ \E i \in Invoice : StartVoid(r, i) \/ StartRemove(r, i)
  \/ StartRun(r) \/ CheckFees(r)
  \/ \E f \in Fee : StartRemoveFee(r, f)
  \/ Fail(r)

LEMMA NonPayingReadKeeps ==
  ASSUME TypeOK, NEW r \in Request, NonPayingRead(r)
  PROVE  \A s \in Request, i \in Invoice : PaysFor(req'[s], i) => PaysFor(req[s], i)
<1>t. req \in [Request -> ReqState]
  BY DEF TypeOK
<1>1. ASSUME NEW q, Begin(r, q), q.op # "pay"
      PROVE  \A s \in Request, i \in Invoice : PaysFor(req'[s], i) => PaysFor(req[s], i)
  <2>1. req'[r] = q /\ \A s \in Request \ {r} : req'[s] = req[s]
    BY <1>t, <1>1 DEF Begin
  <2>. QED
    BY <1>1, <2>1 DEF PaysFor
<1>3. CASE \E k \in Ticket : StartAssign(r, k) \/ StartCancel(r, k) \/ StartInvoice(r, k)
  BY <1>1, <1>3 DEF StartAssign, StartCancel, StartInvoice
<1>4. CASE \E k \in Ticket, to \in ServiceRequestStatus : StartStatus(r, k, to)
  BY <1>1, <1>4 DEF StartStatus
<1>5. CASE StartScan(r)
  BY <1>1, <1>5 DEF StartScan
<1>6. CASE \E i \in Invoice : StartVoid(r, i) \/ StartRemove(r, i)
  BY <1>1, <1>6 DEF StartVoid, StartRemove
<1>7. CASE StartRun(r)
  BY <1>1, <1>7 DEF StartRun
<1>8. CASE CheckFees(r)
  <2>1. /\ req[r] \in ReqState /\ req[r].op = "run"
        /\ req' = [req EXCEPT ![r].op = "bill"]
    BY <1>t, <1>8 DEF CheckFees
  <2>2. [req[r] EXCEPT !.op = "bill"].op = "bill"
    BY <2>1 DEF ReqState, Idle
  <2>3. req'[r] = [req[r] EXCEPT !.op = "bill"] /\ \A s \in Request \ {r} : req'[s] = req[s]
    BY <1>t, <2>1
  <2>. QED
    BY <2>1, <2>2, <2>3 DEF PaysFor
<1>9. CASE \E f \in Fee : StartRemoveFee(r, f)
  BY <1>1, <1>9 DEF StartRemoveFee
<1>10. CASE Fail(r)
  BY <1>10, FinishPays DEF Fail
<1>. QED
  BY <1>3, <1>4, <1>5, <1>6, <1>7, <1>8, <1>9, <1>10 DEF NonPayingRead

LEMMA RevenueStep == Shape /\ RevenueInv /\ [Next]_vars => RevenueInv'
<1>. SUFFICES ASSUME Shape, RevenueInv, [Next]_vars, NEW i \in Invoice
              PROVE  RevenueOf(i)'
  BY DEF RevenueInv
<1>t. /\ revenue \in [Invoice -> Nat]
      /\ invoice \in [Invoice -> Rows]
      /\ req \in [Request -> ReqState]
      /\ TypeOK
      /\ RevenueOf(i)
  BY DEF Shape, TypeOK, Rows, RevenueInv
<1>q. ASSUME revenue' = revenue, invoice' = invoice,
             \A s \in Request : PaysFor(req'[s], i) => PaysFor(req[s], i)
      PROVE  RevenueOf(i)'
  BY <1>t, <1>q, RevenueQuiet
<1>1. ASSUME NEW r \in Request, NonPayingRead(r)
      PROVE  RevenueOf(i)'
  <2>1. ReadStep(r)
    BY <1>1 DEF NonPayingRead, ReadStep
  <2>2. revenue' = revenue /\ invoice' = invoice
    BY <1>t, <2>1, ReadStepShape
  <2>. QED
    BY <1>q, <1>t, <1>1, <2>2, NonPayingReadKeeps
<1>2. ASSUME NEW r \in Request, NEW j \in Invoice, StartPay(r, j)
      PROVE  RevenueOf(i)'
  <2>. DEFINE q == [op |-> "pay", invoice |-> j]
  <2>1. q \in ReqState /\ \A k \in Invoice : PaysFor(q, k) => k = j
    BY RequestShapes DEF PaysFor
  <2>2. Begin(r, q) /\ revenue' = revenue /\ invoice' = invoice
    BY <1>2 DEF StartPay
  <2>3. req'[r] = q /\ \A s \in Request \ {r} : req'[s] = req[s]
    BY <1>t, <2>1, <2>2, BeginShape
  <2>. HIDE DEF q
  <2>4. CASE j = i
    <3>1. invoice[i].status \in Uncollected
      BY <1>t, <1>2, <2>4
         DEF StartPay, Accepts, MayPay, Exists, Uncollected, Payable, Rows, InvoiceRow
    <3>2. revenue'[i] = 0 /\ invoice'[i].status \in Uncollected
      BY <1>t, <2>2, <3>1 DEF RevenueOf
    <3>3. "PAID" \notin Uncollected
      BY DEF Uncollected, Payable
    <3>4. revenue'[i] + Cardinality(Paying(i)') <= Cardinality(Request)
      BY <3>2, PayingFinite, PayingNextFinite
    <3>. QED
      BY <3>2, <3>3, <3>4 DEF RevenueOf
  <2>5. CASE j # i
    BY <1>q, <2>1, <2>2, <2>3, <2>5
  <2>. QED
    BY <2>4, <2>5
<1>3. ASSUME NEW r \in Request, CommitAssign(r) \/ CommitStatus(r) \/ CommitScan(r)
                                \/ CommitRemoveFee(r)
      PROVE  RevenueOf(i)'
  <2>1. Finish(r) /\ revenue' = revenue /\ invoice' = invoice
    BY <1>3 DEF CommitAssign, CommitStatus, CommitScan, CommitRemoveFee
  <2>. QED
    BY <1>q, <1>t, <2>1, FinishPays
<1>4. ASSUME NEW r \in Request, CommitPay(r)
      PROVE  RevenueOf(i)'
  <2>. DEFINE j == req[r].invoice
  <2>1. j \in Invoice /\ PaysFor(req[r], j)
    BY <1>t, <1>4, StateOfRequest DEF CommitPay, PaysFor
  <2>2. /\ Finish(r)
        /\ invoice' = WriteStatus(invoice, {j}, "PAID")
        /\ revenue' = IF invoice[j].source \in Ticket
                      THEN [revenue EXCEPT ![j] = @ + 1] ELSE revenue
    BY <1>4 DEF CommitPay
  <2>. HIDE DEF j
  <2>3. /\ \A k \in Invoice \ {j} : invoice'[k] = invoice[k] /\ revenue'[k] = revenue[k]
        /\ invoice'[j].status = "PAID" /\ invoice'[j].source = invoice[j].source
        /\ revenue'[j] = IF invoice[j].source \in Ticket
                         THEN revenue[j] + 1 ELSE revenue[j]
    BY <1>t, <2>1, <2>2 DEF WriteStatus, Rows, InvoiceRow
  <2>4. \A s \in Request, k \in Invoice :
          PaysFor(req'[s], k) => s # r /\ PaysFor(req[s], k)
    BY <1>t, <2>2, FinishPays
  <2>5. CASE j # i
    BY <1>t, <2>3, <2>4, <2>5, RevenueQuiet
  <2>6. CASE j = i
    <3>1. Paying(i)' \subseteq Paying(i) \ {r} /\ r \in Paying(i)
      BY <2>1, <2>4, <2>6, PayingIs, PayingNextIs
    <3>2. /\ IsFiniteSet(Paying(i) \ {r})
          /\ Cardinality(Paying(i) \ {r}) = Cardinality(Paying(i)) - 1
      BY <3>1, PayingFinite, FS_RemoveElement
    <3>3. Cardinality(Paying(i)') <= Cardinality(Paying(i)) - 1
      BY <3>1, <3>2, FS_Subset
    <3>4. revenue'[i] + Cardinality(Paying(i)') <= Cardinality(Request)
      <4>1. /\ revenue[i] \in Nat /\ revenue'[i] \in {revenue[i], revenue[i] + 1}
            /\ revenue[i] + Cardinality(Paying(i)) <= Cardinality(Request)
        BY <1>t, <2>3, <2>6 DEF RevenueOf
      <4>. QED
        BY <3>3, <4>1, PayingFinite, PayingNextFinite
    <3>5. "PAID" \notin Uncollected
      BY DEF Uncollected, Payable
    <3>6. invoice'[i].source \in Ticket => revenue'[i] >= 1
      BY <1>t, <2>3, <2>6
    <3>. QED
      BY <2>3, <2>6, <3>4, <3>5, <3>6 DEF RevenueOf
  <2>. QED
    BY <2>5, <2>6
<1>5. ASSUME NEW r \in Request, CommitVoid(r) \/ CommitRemove(r)
      PROVE  RevenueOf(i)'
  <2>. DEFINE j == req[r].invoice
  <2>1. j \in Invoice /\ Finish(r) /\ revenue' = revenue
    BY <1>t, <1>5, StateOfRequest DEF CommitVoid, CommitRemove
  <2>2. PICK st \in {"CANCELLED", "deleted"} : invoice' = WriteStatus(invoice, {j}, st)
    BY <1>5 DEF CommitVoid, CommitRemove
  <2>. HIDE DEF j
  <2>3. /\ \A k \in Invoice \ {j} : invoice'[k] = invoice[k]
        /\ invoice'[j].status = st
    BY <1>t, <2>1, <2>2 DEF WriteStatus, Rows, InvoiceRow
  <2>. QED
    BY <1>t, <2>1, <2>3, FinishPays, RevenueQuiet DEF Uncollected, Payable
<1>6. ASSUME NEW r \in Request, NEW j \in Invoice, CommitInvoice(r, j) \/ CommitBill(r, j)
      PROVE  RevenueOf(i)'
  <2>1. /\ Finish(r) /\ revenue' = revenue /\ invoice[j].status = "unborn"
        /\ \E src : invoice' = InsertRow(invoice, j, src)
    BY <1>6 DEF CommitInvoice, CommitBill
  <2>2. /\ \A k \in Invoice \ {j} : invoice'[k] = invoice[k]
        /\ invoice'[j].status = "PENDING"
    BY <1>t, <2>1 DEF InsertRow
  <2>. QED
    BY <1>t, <2>1, <2>2, FinishPays, RevenueQuiet DEF Uncollected
<1>7. ASSUME NEW k \in Ticket, CreateTicket(k) \/ DeadlinePasses(k)
      PROVE  RevenueOf(i)'
  BY <1>q, <1>7 DEF CreateTicket, DeadlinePasses
<1>8. ASSUME BulkMarkOverdue
      PROVE  RevenueOf(i)'
  <2>1. /\ invoice'[i].source = invoice[i].source
        /\ \/ invoice'[i].status = invoice[i].status
           \/ invoice[i].status = "PENDING" /\ invoice'[i].status = "OVERDUE"
    BY <1>t, <1>8 DEF BulkMarkOverdue, WriteStatus, Rows, InvoiceRow
  <2>. QED
    BY <1>t, <1>8, <2>1, RevenueQuiet DEF BulkMarkOverdue, Uncollected, Payable
<1>9. ASSUME NEW f \in Fee, CreateFee(f)
      PROVE  RevenueOf(i)'
  BY <1>q, <1>9 DEF CreateFee
<1>10. CASE UNCHANGED vars
  BY <1>q, <1>10 DEF vars
<1>11. ASSUME NEW r \in Request, Step(r)
       PROVE  RevenueOf(i)'
  BY <1>1, <1>2, <1>3, <1>4, <1>5, <1>6, <1>11 DEF Step, NonPayingRead
<1>. QED
  BY <1>7, <1>8, <1>9, <1>10, <1>11 DEF Next

(* Under any overlap: no payment of a service request is missing from the   *)
(* revenue, what is counted is not collected again, and an invoice counts   *)
(* at most as often as calls were paying it at the same time.               *)
THEOREM RevenueIsPaid == Spec => []RevenueHonest
<1>1. Shape /\ RevenueInv => RevenueHonest
  BY DEF RevenueInv, RevenueOf, RevenueHonest, Uncollected, Shape, TypeOK
<1>. QED
  BY <1>1, ShapeInit, ShapeStep, RevenueInit, RevenueStep, PTL DEF Spec

-----------------------------------------------------------------------------
(* The invoice ledger *)

(* The invoices as the API shows them, see InvoiceLedger. *)
LedgerView == [i \in Invoice |-> Seen(invoice[i])]

Ledger == INSTANCE InvoiceLedger WITH ledger <- LedgerView

KeepsLedger == Ledger!Spec

VoidsFor(q, i) == q.op = "void" /\ q.invoice = i

(* markAsPaid and cancelInvoice have both read the invoice. *)
Contended(i) ==
  \E r, s \in Request : PaysFor(req[r], i) /\ VoidsFor(req[s], i)

Uncontended == \A i \in Invoice : ~Contended(i)

(* What a payment or a voiding without a rival may still rely on.           *)
Fresh ==
  \A r \in Request, i \in Invoice :
    /\ PaysFor(req[r], i) => invoice[i].status # "CANCELLED"
    /\ VoidsFor(req[r], i) => invoice[i].status # "PAID"

LEMMA SeenAs ==
  ASSUME NEW row
  PROVE  /\ row.status = "unborn" => Seen(row) = "absent"
         /\ row.status \in Payable => Seen(row) = "open"
         /\ row.status = "PAID" => Seen(row) = "settled"
         /\ row.status = "CANCELLED" => Seen(row) = "void"
         /\ row.status = "deleted" => Seen(row) = "gone"
BY DEF Seen, Payable

LEMMA SeenByStatus ==
  ASSUME NEW row, NEW other, row.status = other.status
  PROVE  Seen(row) = Seen(other)
BY DEF Seen

LEMMA LedgerStutter ==
  ASSUME \A i \in Invoice : \/ invoice'[i].status = invoice[i].status
                            \/ Seen(invoice'[i]) = Seen(invoice[i])
  PROVE  UNCHANGED LedgerView
BY SeenByStatus DEF LedgerView

(* All that a step may do to the status of invoices. *)
Turns(i, st) ==
  /\ i \in Invoice
  /\ invoice'[i].status = st
  /\ \A j \in Invoice \ {i} : invoice'[j].status = invoice[j].status

(* A step that moves one row and leaves the status of the others.           *)
LEMMA LedgerMove ==
  ASSUME NEW i \in Invoice, NEW st, Turns(i, st)
  PROVE  LET from == Seen(invoice[i])
             to   == Seen(invoice'[i])
         IN  /\ from = "absent" /\ to = "open" => Ledger!Issue(i)
             /\ from = "open" /\ to = "settled" => Ledger!Settle(i)
             /\ from = "open" /\ to = "void" => Ledger!Void({i})
             /\ from \in {"open", "settled", "void"} /\ to = "gone" => Ledger!Delete(i)
<1>. DEFINE from == Seen(invoice[i])
            to == Seen(invoice'[i])
<1>1. LedgerView' = [u \in Invoice |-> IF u \in {i} THEN to ELSE LedgerView[u]]
  BY SeenByStatus DEF Turns, LedgerView
<1>2. LedgerView[i] = from
  BY DEF LedgerView
<1>. HIDE DEF from, to
<1>3. /\ from = "absent" /\ to = "open" => Ledger!Issue(i)
      /\ from = "open" /\ to = "settled" => Ledger!Settle(i)
      /\ from = "open" /\ to = "void" => Ledger!Void({i})
      /\ from \in {"open", "settled", "void"} /\ to = "gone" => Ledger!Delete(i)
  BY <1>1, <1>2 DEF Ledger!Issue, Ledger!Settle, Ledger!Void, Ledger!Delete, Ledger!Move
<1>. QED
  BY <1>3 DEF from, to

Still ==
  \A i \in Invoice : \/ invoice'[i].status = invoice[i].status
                     \/ invoice[i].status = "PENDING" /\ invoice'[i].status = "OVERDUE"

StatusMove ==
  \/ Still
  \/ \E i \in Invoice : invoice[i].status = "unborn" /\ Turns(i, "PENDING")
  \/ \E r \in Request, i \in Invoice :
       /\ Exists(invoice[i])
       /\ \/ PaysFor(req[r], i) /\ Turns(i, "PAID")
          \/ VoidsFor(req[r], i) /\ Turns(i, "CANCELLED")
          \/ Turns(i, "deleted")

LEMMA InsertTurns ==
  ASSUME TypeOK, NEW i \in Invoice, NEW src, invoice' = InsertRow(invoice, i, src)
  PROVE  Turns(i, "PENDING")
BY DEF TypeOK, InsertRow, Turns

LEMMA WriteTurns ==
  ASSUME TypeOK, NEW i \in Invoice, NEW st \in RowStatus,
         invoice' = WriteStatus(invoice, {i}, st)
  PROVE  Turns(i, st)
BY WriteStatusShape DEF TypeOK, Rows, Turns

LEMMA StatusMoves == Shape /\ [Next]_vars => StatusMove
<1>. SUFFICES ASSUME Shape, [Next]_vars
              PROVE  StatusMove
  OBVIOUS
<1>t. TypeOK /\ invoice \in [Invoice -> Rows] /\ req \in [Request -> ReqState]
  BY DEF Shape, TypeOK, Rows
<1>0. ASSUME UNCHANGED invoice
      PROVE  StatusMove
  BY <1>0 DEF StatusMove, Still
<1>1. ASSUME NEW r \in Request, ReadStep(r)
      PROVE  StatusMove
  BY <1>t, <1>0, <1>1, ReadStepShape
<1>2. ASSUME NEW r \in Request, NEW i \in Invoice, CommitInvoice(r, i) \/ CommitBill(r, i)
      PROVE  StatusMove
  <2>1. PICK src : invoice[i].status = "unborn" /\ invoice' = InsertRow(invoice, i, src)
    BY <1>2 DEF CommitInvoice, CommitBill
  <2>. QED
    BY <1>t, <2>1, InsertTurns DEF StatusMove
<1>3. ASSUME NEW r \in Request, CommitPay(r)
      PROVE  StatusMove
  <2>. DEFINE i == req[r].invoice
  <2>1. i \in Invoice /\ PaysFor(req[r], i)
    BY <1>t, <1>3, StateOfRequest DEF CommitPay, PaysFor
  <2>2. Exists(invoice[i]) /\ invoice' = WriteStatus(invoice, {i}, "PAID")
    BY <1>3 DEF CommitPay
  <2>. HIDE DEF i
  <2>3. Turns(i, "PAID")
    BY <1>t, <2>1, <2>2, WriteTurns
  <2>. QED
    BY <2>1, <2>2, <2>3 DEF StatusMove
<1>4. ASSUME NEW r \in Request, CommitVoid(r)
      PROVE  StatusMove
  <2>. DEFINE i == req[r].invoice
  <2>1. i \in Invoice /\ VoidsFor(req[r], i)
    BY <1>t, <1>4, StateOfRequest DEF CommitVoid, VoidsFor
  <2>2. Exists(invoice[i]) /\ invoice' = WriteStatus(invoice, {i}, "CANCELLED")
    BY <1>4 DEF CommitVoid
  <2>. HIDE DEF i
  <2>3. Turns(i, "CANCELLED")
    BY <1>t, <2>1, <2>2, WriteTurns
  <2>. QED
    BY <2>1, <2>2, <2>3 DEF StatusMove
<1>5. ASSUME NEW r \in Request, CommitRemove(r)
      PROVE  StatusMove
  <2>. DEFINE i == req[r].invoice
  <2>1. i \in Invoice
    BY <1>t, <1>5, StateOfRequest DEF CommitRemove
  <2>2. Exists(invoice[i]) /\ invoice' = WriteStatus(invoice, {i}, "deleted")
    BY <1>5 DEF CommitRemove
  <2>. HIDE DEF i
  <2>3. Turns(i, "deleted")
    BY <1>t, <2>1, <2>2, WriteTurns
  <2>. QED
    BY <2>1, <2>2, <2>3 DEF StatusMove
<1>6. ASSUME BulkMarkOverdue
      PROVE  StatusMove
  <2>. DEFINE S == {i \in Invoice : invoice[i].status = "PENDING"}
  <2>1. invoice' = WriteStatus(invoice, S, "OVERDUE")
    BY <1>6 DEF BulkMarkOverdue
  <2>2. \A i \in S : invoice[i].status = "PENDING"
    OBVIOUS
  <2>. HIDE DEF S
  <2>. QED
    BY <1>t, <2>1, <2>2, WriteStatusShape DEF StatusMove, Still
<1>7. CASE UNCHANGED vars
  BY <1>0, <1>7 DEF vars
<1>8. ASSUME NEW r \in Request, CommitAssign(r) \/ CommitStatus(r) \/ CommitScan(r)
                                \/ CommitRemoveFee(r)
      PROVE  StatusMove
  BY <1>0, <1>8 DEF CommitAssign, CommitStatus, CommitScan, CommitRemoveFee
<1>9. ASSUME NEW k \in Ticket, CreateTicket(k) \/ DeadlinePasses(k)
      PROVE  StatusMove
  BY <1>0, <1>9 DEF CreateTicket, DeadlinePasses
<1>10. ASSUME NEW f \in Fee, CreateFee(f)
       PROVE  StatusMove
  BY <1>0, <1>10 DEF CreateFee
<1>11. ASSUME NEW r \in Request, Step(r)
       PROVE  StatusMove
  BY <1>1, <1>2, <1>3, <1>4, <1>5, <1>8, <1>11 DEF Step, ReadStep
<1>. QED
  BY <1>6, <1>7, <1>9, <1>10, <1>11 DEF Next

(* A handler that comes to pay or to void an invoice has just tested it.    *)
LEMMA HoldGuards ==
  ASSUME TypeOK, NEW r \in Request, ReadStep(r), NEW i \in Invoice
  PROVE  /\ PaysFor(req'[r], i) => MayPay(invoice[i])
         /\ VoidsFor(req'[r], i) => MayCancel(invoice[i])
<1>. DEFINE Neither == ~PaysFor(req'[r], i) /\ ~VoidsFor(req'[r], i)
<1>t. req \in [Request -> ReqState]
  BY DEF TypeOK
<1>1. ASSUME NEW q, Begin(r, q)
      PROVE  req'[r] = q
  BY <1>t, <1>1 DEF Begin
<1>2. ASSUME NEW q, Begin(r, q), q.op \notin {"pay", "void"}
      PROVE  Neither
  BY <1>1, <1>2 DEF PaysFor, VoidsFor
<1>3. CASE \E k \in Ticket : StartAssign(r, k) \/ StartCancel(r, k) \/ StartInvoice(r, k)
  BY <1>2, <1>3 DEF StartAssign, StartCancel, StartInvoice
<1>4. CASE \E k \in Ticket, to \in ServiceRequestStatus : StartStatus(r, k, to)
  BY <1>2, <1>4 DEF StartStatus
<1>5. CASE StartScan(r) \/ StartRun(r)
  BY <1>2, <1>5 DEF StartScan, StartRun
<1>6. CASE \E f \in Fee : StartRemoveFee(r, f)
  BY <1>2, <1>6 DEF StartRemoveFee
<1>7. CASE CheckFees(r)
  <2>1. /\ req[r] \in ReqState /\ req[r].op = "run"
        /\ req'[r] = [req[r] EXCEPT !.op = "bill"]
    BY <1>t, <1>7 DEF CheckFees
  <2>2. req'[r].op = "bill"
    BY <2>1 DEF ReqState, Idle
  <2>. QED
    BY <2>2 DEF PaysFor, VoidsFor
<1>8. CASE Fail(r)
  BY <1>8, FinishShape DEF Fail, Idle, PaysFor, VoidsFor
<1>9. ASSUME NEW j \in Invoice, StartPay(r, j)
      PROVE  /\ ~VoidsFor(req'[r], i)
             /\ PaysFor(req'[r], i) => MayPay(invoice[i])
  BY <1>1, <1>9 DEF StartPay, Accepts, PaysFor, VoidsFor
<1>10. ASSUME NEW j \in Invoice, StartVoid(r, j)
       PROVE  /\ ~PaysFor(req'[r], i)
              /\ VoidsFor(req'[r], i) => MayCancel(invoice[i])
  BY <1>1, <1>10 DEF StartVoid, PaysFor, VoidsFor
<1>11. ASSUME NEW j \in Invoice, StartRemove(r, j)
       PROVE  Neither
  BY <1>2, <1>11 DEF StartRemove
<1>. QED
  BY <1>3, <1>4, <1>5, <1>6, <1>7, <1>8, <1>9, <1>10, <1>11 DEF ReadStep

LEMMA RequestsKept ==
  ASSUME Shape, [Next]_vars, NEW r \in Request
  PROVE  req'[r] = req[r] \/ req'[r] = Idle \/ ReadStep(r)
<1>t. TypeOK
  BY DEF Shape
<1>1. ASSUME NEW s \in Request, ReadStep(s)
      PROVE  req'[r] = req[r] \/ ReadStep(r)
  BY <1>t, <1>1, ReadStepShape
<1>2. ASSUME NEW s \in Request, Finish(s)
      PROVE  req'[r] = req[r] \/ req'[r] = Idle
  BY <1>t, <1>2, FinishShape
<1>3. ASSUME NEW s \in Request, Step(s)
      PROVE  ReadStep(s) \/ Finish(s)
  BY <1>3 DEF Step, ReadStep, CommitAssign, CommitStatus, CommitScan, CommitInvoice,
              CommitBill, CommitPay, CommitVoid, CommitRemove, CommitRemoveFee
<1>. QED
  BY <1>1, <1>2, <1>3 DEF Next, CreateTicket, DeadlinePasses, CreateFee,
                          BulkMarkOverdue, vars

LEMMA FreshStep == Uncontended /\ Shape /\ Fresh /\ [Next]_vars => Fresh'
<1>. SUFFICES ASSUME Uncontended, Shape, Fresh, [Next]_vars,
                     NEW r \in Request, NEW i \in Invoice
              PROVE  /\ PaysFor(req'[r], i) => invoice'[i].status # "CANCELLED"
                     /\ VoidsFor(req'[r], i) => invoice'[i].status # "PAID"
  BY DEF Fresh, PaysFor, VoidsFor
<1>1. CASE req'[r] = req[r]
  <2>1. /\ PaysFor(req[r], i) => invoice[i].status # "CANCELLED"
        /\ VoidsFor(req[r], i) => invoice[i].status # "PAID"
        /\ \A s \in Request : ~(PaysFor(req[r], i) /\ VoidsFor(req[s], i))
        /\ \A s \in Request : ~(VoidsFor(req[r], i) /\ PaysFor(req[s], i))
    BY DEF Fresh, Uncontended, Contended
  <2>. QED
    BY <1>1, <2>1, StatusMoves DEF StatusMove, Still, Turns
<1>2. CASE ReadStep(r)
  BY <1>2, ReadStepShape, HoldGuards DEF Shape, MayPay, MayCancel
<1>3. CASE req'[r] = Idle
  BY <1>3 DEF Idle, PaysFor, VoidsFor
<1>. QED
  BY <1>1, <1>2, <1>3, RequestsKept

LEMMA LedgerStep == Shape /\ Fresh /\ [Next]_vars => [Ledger!Next]_LedgerView
<1>. SUFFICES ASSUME Shape, Fresh, [Next]_vars
              PROVE  Ledger!Next \/ UNCHANGED LedgerView
  OBVIOUS
<1>. DEFINE Goal == Ledger!Next \/ UNCHANGED LedgerView
<1>1. CASE Still
  BY <1>1, SeenAs, LedgerStutter DEF Still, Payable
<1>2. ASSUME NEW i \in Invoice, invoice[i].status = "unborn", Turns(i, "PENDING")
      PROVE  Goal
  <2>1. Seen(invoice[i]) \in {"absent"} /\ Seen(invoice'[i]) = "open"
    BY <1>2, SeenAs DEF Turns, Payable
  <2>2. Ledger!Issue(i)
    BY <1>2, <2>1, LedgerMove
  <2>. QED
    BY <2>2 DEF Ledger!Next
<1>3. ASSUME NEW r \in Request, NEW i \in Invoice, Exists(invoice[i]),
             PaysFor(req[r], i), Turns(i, "PAID")
      PROVE  Goal
  <2>1. invoice[i].status # "CANCELLED"
    BY <1>3 DEF Fresh
  <2>2. CASE invoice[i].status = "PAID"
    BY <1>3, <2>2, LedgerStutter DEF Turns
  <2>3. CASE invoice[i].status \in Payable
    <3>1. Seen(invoice[i]) \in {"open"} /\ Seen(invoice'[i]) = "settled"
      BY <1>3, <2>3, SeenAs DEF Turns
    <3>2. Ledger!Settle(i)
      BY <1>3, <3>1, LedgerMove
    <3>. QED
      BY <3>2 DEF Ledger!Next
  <2>. QED
    BY <1>3, <2>1, <2>2, <2>3 DEF Exists, Payable
<1>4. ASSUME NEW r \in Request, NEW i \in Invoice, Exists(invoice[i]),
             VoidsFor(req[r], i), Turns(i, "CANCELLED")
      PROVE  Goal
  <2>1. invoice[i].status # "PAID"
    BY <1>4 DEF Fresh
  <2>2. CASE invoice[i].status = "CANCELLED"
    BY <1>4, <2>2, LedgerStutter DEF Turns
  <2>3. CASE invoice[i].status \in Payable
    <3>1. Seen(invoice[i]) \in {"open"} /\ Seen(invoice'[i]) = "void"
      BY <1>4, <2>3, SeenAs DEF Turns
    <3>2. Ledger!Void({i})
      BY <1>4, <3>1, LedgerMove
    <3>. QED
      BY <3>2 DEF Ledger!Next
  <2>. QED
    BY <1>4, <2>1, <2>2, <2>3 DEF Exists, Payable
<1>5. ASSUME NEW i \in Invoice, Exists(invoice[i]), Turns(i, "deleted")
      PROVE  Goal
  <2>1. Seen(invoice[i]) \in {"open", "settled", "void"} /\ Seen(invoice'[i]) = "gone"
    BY <1>5, SeenAs DEF Turns, Exists, Payable
  <2>2. Ledger!Delete(i)
    BY <1>5, <2>1, LedgerMove
  <2>. QED
    BY <2>2 DEF Ledger!Next
<1>. QED
  BY <1>1, <1>2, <1>3, <1>4, <1>5, StatusMoves DEF StatusMove

(* As long as no invoice is cancelled while somebody pays it, the invoices  *)
(* of service requests and of utility fees go through the lifecycle that    *)
(* InvoiceLedger promises, however many calls and monthly runs overlap.     *)
THEOREM UncontendedRefinement == Spec /\ []Uncontended => KeepsLedger
<1>1. Init => Fresh
  BY DEF Init, Fresh, Idle, PaysFor, VoidsFor
<1>2. Init => Ledger!Init
  BY SeenAs DEF Init, Ledger!Init, LedgerView
<1>3. Spec /\ []Uncontended => Ledger!Spec
  BY <1>1, <1>2, FreshStep, ShapeInit, ShapeStep, LedgerStep, PTL
     DEF Spec, Ledger!Spec
<1>. QED
  BY <1>3 DEF KeepsLedger

(* What the ledger promises of one invoice, in the terms of its column: no  *)
(* call voids what is settled or pays what is void.                         *)
FinalStatus ==
  \A i \in Invoice :
    /\ invoice[i].status = "PAID" => invoice'[i].status \in {"PAID", "deleted"}
    /\ invoice[i].status = "CANCELLED" => invoice'[i].status \in {"CANCELLED", "deleted"}

LEMMA LedgerFinal ==
  ASSUME TypeOK, TypeOK', [Ledger!Next]_LedgerView
  PROVE  FinalStatus
<1>. SUFFICES ASSUME NEW i \in Invoice, invoice[i].status \in {"PAID", "CANCELLED"}
              PROVE  invoice'[i].status \in {invoice[i].status, "deleted"}
  BY DEF FinalStatus
<1>1. LedgerView[i] = Seen(invoice[i]) /\ LedgerView'[i] = Seen(invoice'[i])
  BY DEF LedgerView
<1>2. LedgerView[i] \in {"settled", "void"}
  BY <1>1, SeenAs
<1>3. LedgerView'[i] \in {LedgerView[i], "gone", "overrun"}
  BY <1>2 DEF Ledger!Next, Ledger!Issue, Ledger!Settle, Ledger!Void, Ledger!Delete,
              Ledger!Overrun, Ledger!Move
<1>4. invoice'[i].status \in RowStatus
  BY DEF TypeOK, InvoiceRow
<1>. QED
  BY <1>1, <1>2, <1>3, <1>4, SeenAs DEF RowStatus, InvoiceStatus, Payable

(* "Paid invoices cannot be cancelled", "Cancelled invoices cannot be       *)
(* paid": so it is, whatever else is served at the same time, unless a      *)
(* payment meets a cancellation of the same invoice.                        *)
THEOREM PaidOrVoidIsFinal == Spec /\ []Uncontended => [][FinalStatus]_vars
<1>1. Init => Fresh
  BY DEF Init, Fresh, Idle, PaysFor, VoidsFor
<1>2. ASSUME Shape, Shape', Fresh, [Next]_vars
      PROVE  FinalStatus
  BY <1>2, LedgerStep, LedgerFinal DEF Shape
<1>3. Shape /\ Shape' /\ Fresh /\ [Next]_vars => [FinalStatus]_vars
  BY <1>2
<1>. QED
  BY <1>1, <1>3, FreshStep, ShapeInit, ShapeStep, PTL DEF Spec

-----------------------------------------------------------------------------
(* Cancelled service requests *)

Touches(q, k) ==
  \/ q.op = "assign" /\ q.ticket = k /\ q.saw = "NEW"
  \/ q.op = "status" /\ q.ticket = k /\ q.to # "CANCELLED"
  \/ q.op = "scan" /\ k \in q.tickets

Stays(k) == Settled(k)' /\ ticket'[k].breached = ticket[k].breached

LEMMA StaysKept ==
  ASSUME NEW k \in Ticket, Settled(k),
         ticket'[k].status = "CANCELLED",
         ticket'[k].breached = ticket[k].breached,
         \A s \in Request : Touches(req'[s], k) => Touches(req[s], k)
  PROVE  Stays(k)
<1>1. \A s \in Request : ~Touches(req'[s], k)
  BY DEF Settled, MayTouch, Touches
<1>2. ASSUME NEW s \in Request
      PROVE  ~MayTouch(s, k)'
  <2>1. ~Touches(req'[s], k)
    BY <1>1
  <2>. QED
    BY <2>1 DEF MayTouch, Touches
<1>. QED
  BY <1>2 DEF Stays, Settled

LEMMA FinishTouches ==
  ASSUME TypeOK, NEW r \in Request, Finish(r), NEW k \in Ticket
  PROVE  \A s \in Request : Touches(req'[s], k) => Touches(req[s], k)
BY FinishShape DEF Touches, Idle

(* A call that starts does not take up a request that is CANCELLED: the     *)
(* guards of the handlers and of the scan see to it.                        *)
LEMMA ReadStepTouches ==
  ASSUME TypeOK, NEW r \in Request, ReadStep(r), NEW k \in Ticket, Settled(k)
  PROVE  \A s \in Request : Touches(req'[s], k) => Touches(req[s], k)
<1>t. req \in [Request -> ReqState] /\ ticket[k].status = "CANCELLED"
  BY DEF TypeOK, Settled
<1>b. ASSUME NEW q, Begin(r, q), ~Touches(q, k)
      PROVE  \A s \in Request : Touches(req'[s], k) => Touches(req[s], k)
  <2>1. req'[r] = q /\ \A s \in Request \ {r} : req'[s] = req[s]
    BY <1>t, <1>b DEF Begin
  <2>. QED
    BY <1>b, <2>1
<1>1. CASE \E j \in Ticket : StartAssign(r, j) \/ StartCancel(r, j) \/ StartInvoice(r, j)
  <2>1. PICK j \in Ticket : StartAssign(r, j) \/ StartCancel(r, j) \/ StartInvoice(r, j)
    BY <1>1
  <2>2. CASE StartAssign(r, j)
    <3>. DEFINE q == [op |-> "assign", ticket |-> j, saw |-> ticket[j].status]
    <3>1. ~Touches(q, k)
      BY <1>t DEF Touches
    <3>2. Begin(r, q)
      BY <2>2 DEF StartAssign
    <3>. HIDE DEF q
    <3>. QED
      BY <1>b, <3>1, <3>2
  <2>3. CASE StartCancel(r, j)
    <3>. DEFINE q == [op |-> "status", ticket |-> j, to |-> "CANCELLED"]
    <3>1. ~Touches(q, k)
      BY DEF Touches
    <3>2. Begin(r, q)
      BY <2>3 DEF StartCancel
    <3>. HIDE DEF q
    <3>. QED
      BY <1>b, <3>1, <3>2
  <2>4. CASE StartInvoice(r, j)
    <3>. DEFINE q == [op |-> "invoice", ticket |-> j]
    <3>1. ~Touches(q, k)
      BY DEF Touches
    <3>2. Begin(r, q)
      BY <2>4 DEF StartInvoice
    <3>. HIDE DEF q
    <3>. QED
      BY <1>b, <3>1, <3>2
  <2>. QED
    BY <2>1, <2>2, <2>3, <2>4
<1>2. CASE \E j \in Ticket, to \in ServiceRequestStatus : StartStatus(r, j, to)
  <2>1. PICK j \in Ticket, to \in ServiceRequestStatus : StartStatus(r, j, to)
    BY <1>2
  <2>. DEFINE q == [op |-> "status", ticket |-> j, to |-> to]
  <2>2. ~Touches(q, k)
    BY <1>t, <2>1 DEF StartStatus, ValidTransition, Touches
  <2>3. Begin(r, q)
    BY <2>1 DEF StartStatus
  <2>. HIDE DEF q
  <2>. QED
    BY <1>b, <2>2, <2>3
<1>3. CASE StartScan(r)
  <2>. DEFINE q == [op |-> "scan", tickets |-> {j \in Ticket : Breaching(j)}]
  <2>1. ~Touches(q, k)
    BY <1>t DEF Touches, Breaching
  <2>2. Begin(r, q)
    BY <1>3 DEF StartScan
  <2>. HIDE DEF q
  <2>. QED
    BY <1>b, <2>1, <2>2
<1>4. CASE \E i \in Invoice : StartPay(r, i) \/ StartVoid(r, i) \/ StartRemove(r, i)
  <2>1. PICK i \in Invoice, o \in {"pay", "void", "remove"} : Begin(r, [op |-> o, invoice |-> i])
    BY <1>4 DEF StartPay, StartVoid, StartRemove
  <2>2. ~Touches([op |-> o, invoice |-> i], k)
    BY DEF Touches
  <2>. QED
    BY <1>b, <2>1, <2>2
<1>5. CASE StartRun(r)
  <2>1. Begin(r, [op |-> "run", fees |-> ToInvoice])
    BY <1>5 DEF StartRun
  <2>2. ~Touches([op |-> "run", fees |-> ToInvoice], k)
    BY DEF Touches
  <2>. QED
    BY <1>b, <2>1, <2>2
<1>6. CASE CheckFees(r)
  <2>1. /\ req[r] \in ReqState /\ req[r].op = "run"
        /\ req' = [req EXCEPT ![r].op = "bill"]
    BY <1>t, <1>6 DEF CheckFees
  <2>2. [req[r] EXCEPT !.op = "bill"].op = "bill"
    BY <2>1 DEF ReqState, Idle
  <2>3. req'[r] = [req[r] EXCEPT !.op = "bill"] /\ \A s \in Request \ {r} : req'[s] = req[s]
    BY <1>t, <2>1
  <2>. QED
    BY <2>2, <2>3 DEF Touches
<1>7. CASE \E f \in Fee : StartRemoveFee(r, f)
  <2>1. PICK f \in Fee : Begin(r, [op |-> "removeFee", fee |-> f])
    BY <1>7 DEF StartRemoveFee
  <2>2. ~Touches([op |-> "removeFee", fee |-> f], k)
    BY DEF Touches
  <2>. QED
    BY <1>b, <2>1, <2>2
<1>8. CASE Fail(r)
  BY <1>8, FinishTouches DEF Fail
<1>. QED
  BY <1>1, <1>2, <1>3, <1>4, <1>5, <1>6, <1>7, <1>8 DEF ReadStep

LEMMA StaysStep ==
  ASSUME Shape, [Next]_vars, NEW k \in Ticket, Settled(k)
  PROVE  Stays(k) \/ Pays(k)
<1>t. /\ ticket \in [Ticket -> TicketRow \cup {Unborn}]
      /\ invoice \in [Invoice -> Rows]
      /\ req \in [Request -> ReqState]
      /\ TypeOK
  BY DEF Shape, TypeOK, Rows
<1>k. /\ ticket[k].status = "CANCELLED"
      /\ ticket[k] \in TicketRow
      /\ \A s \in Request : ~Touches(req[s], k)
  BY <1>t DEF Settled, MayTouch, Touches, Unborn
<1>q. ASSUME ticket'[k] = ticket[k],
             \A s \in Request : Touches(req'[s], k) => Touches(req[s], k)
      PROVE  Stays(k)
  BY <1>k, <1>q, StaysKept
<1>1. ASSUME NEW r \in Request, ReadStep(r)
      PROVE  Stays(k)
  <2>1. ticket' = ticket
    BY <1>t, <1>1, ReadStepShape
  <2>. QED
    BY <1>q, <1>t, <1>1, <2>1, ReadStepTouches
<1>2. ASSUME NEW r \in Request, CommitAssign(r)
      PROVE  Stays(k)
  <2>1. CASE req[r].ticket = k
    <3>1. req[r].saw # "NEW"
      BY <1>k, <1>2, <2>1 DEF CommitAssign, Touches
    <3>2. ticket'[k].status = "CANCELLED" /\ ticket'[k].breached = ticket[k].breached
      BY <1>t, <1>k, <1>2, <2>1, <3>1 DEF CommitAssign, TicketRow
    <3>. QED
      BY <1>t, <1>2, <3>2, FinishTouches, StaysKept DEF CommitAssign
  <2>2. CASE req[r].ticket # k
    <3>1. ticket'[k] = ticket[k]
      BY <1>t, <1>2, <2>2 DEF CommitAssign
    <3>. QED
      BY <1>q, <1>t, <1>2, <3>1, FinishTouches DEF CommitAssign
  <2>. QED
    BY <2>1, <2>2
<1>3. ASSUME NEW r \in Request, CommitStatus(r)
      PROVE  Stays(k)
  <2>1. CASE req[r].ticket = k
    <3>1. req[r].to = "CANCELLED"
      BY <1>k, <1>3, <2>1 DEF CommitStatus, Touches
    <3>2. ticket'[k].status = "CANCELLED" /\ ticket'[k].breached = ticket[k].breached
      BY <1>t, <1>k, <1>3, <2>1, <3>1 DEF CommitStatus, TicketRow
    <3>. QED
      BY <1>t, <1>3, <3>2, FinishTouches, StaysKept DEF CommitStatus
  <2>2. CASE req[r].ticket # k
    <3>1. ticket'[k] = ticket[k]
      BY <1>t, <1>3, <2>2 DEF CommitStatus
    <3>. QED
      BY <1>q, <1>t, <1>3, <3>1, FinishTouches DEF CommitStatus
  <2>. QED
    BY <2>1, <2>2
<1>4. ASSUME NEW r \in Request, CommitScan(r)
      PROVE  Stays(k)
  <2>1. k \notin req[r].tickets
    BY <1>k, <1>4 DEF CommitScan, Touches
  <2>2. ticket'[k] = ticket[k]
    BY <1>4, <2>1 DEF CommitScan
  <2>. QED
    BY <1>q, <1>t, <1>4, <2>2, FinishTouches DEF CommitScan
<1>5. ASSUME NEW r \in Request, CommitPay(r)
      PROVE  Stays(k) \/ Pays(k)
  <2>1. CASE invoice[req[r].invoice].source = k
    BY <1>5, <2>1 DEF Pays, CommitPay
  <2>2. CASE invoice[req[r].invoice].source # k
    <3>1. ticket'[k] = ticket[k]
      BY <1>t, <1>5, <2>2 DEF CommitPay
    <3>. QED
      BY <1>q, <1>t, <1>5, <3>1, FinishTouches DEF CommitPay
  <2>. QED
    BY <2>1, <2>2
<1>6. ASSUME NEW r \in Request,
             \/ CommitVoid(r) \/ CommitRemove(r) \/ CommitRemoveFee(r)
             \/ \E i \in Invoice : CommitInvoice(r, i) \/ CommitBill(r, i)
      PROVE  Stays(k)
  <2>1. Finish(r) /\ ticket' = ticket
    BY <1>6 DEF CommitVoid, CommitRemove, CommitRemoveFee, CommitInvoice, CommitBill
  <2>. QED
    BY <1>q, <1>t, <2>1, FinishTouches
<1>7. ASSUME NEW j \in Ticket, CreateTicket(j) \/ DeadlinePasses(j)
      PROVE  Stays(k)
  <2>1. req' = req
    BY <1>7 DEF CreateTicket, DeadlinePasses
  <2>2. ticket'[k].status = "CANCELLED" /\ ticket'[k].breached = ticket[k].breached
    BY <1>t, <1>k, <1>7 DEF CreateTicket, DeadlinePasses, TicketRow, Unborn
  <2>. QED
    BY <2>1, <2>2, StaysKept
<1>8. ASSUME NEW f \in Fee, CreateFee(f)
      PROVE  Stays(k)
  BY <1>q, <1>8 DEF CreateFee
<1>9. ASSUME BulkMarkOverdue
      PROVE  Stays(k)
  BY <1>q, <1>9 DEF BulkMarkOverdue
<1>10. CASE UNCHANGED vars
  BY <1>q, <1>10 DEF vars
<1>11. ASSUME NEW r \in Request, Step(r)
       PROVE  Stays(k) \/ Pays(k)
  BY <1>1, <1>2, <1>3, <1>4, <1>5, <1>6, <1>11 DEF Step, ReadStep
<1>. QED
  BY <1>7, <1>8, <1>9, <1>10, <1>11 DEF Next

(* Once the calls that had read a CANCELLED service request are finished,   *)
(* nothing but the payment of one of its invoices changes its status, and   *)
(* the SLA scan leaves it alone.                                            *)
THEOREM CancellationHolds == Spec => CancelledStays
<1>1. Shape /\ [Next]_vars =>
        [\A k \in Ticket : Settled(k) =>
           \/ Settled(k)' /\ ticket'[k].breached = ticket[k].breached
           \/ Pays(k)]_vars
  BY StaysStep DEF Stays
<1>. QED
  BY <1>1, ShapeInit, ShapeStep, PTL DEF Spec, CancelledStays
=============================================================================
