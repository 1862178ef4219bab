----------------------------- MODULE ServiceBilling -----------------------------
(***************************************************************************)
(* Service requests and utility fees, and the invoices raised for them.     *)
(*                                                                          *)
(* The life cycle of a service request, the SLA scan, the invoice of a      *)
(* request with what its payment does to the request and to the service's   *)
(* revenueTotal, and the fees of a unit that the monthly run gathers into   *)
(* one invoice.  All requests are for one service, all fees for one unit    *)
(* and month, and the amount of an invoice for a request is 1.  A handler   *)
(* reads and tests in its Start step and writes in its Commit step.         *)
(***************************************************************************)
EXTENDS InvoiceRows, Integers, FiniteSets

CONSTANTS
  Ticket,   \* ServiceRequest ids
  Fee,      \* UnitFee ids
  Invoice,  \* Invoice ids
  Request   \* HTTP requests and cron runs being served at the same time

ASSUME SetAssumption ==
  /\ IsFiniteSet(Ticket) /\ IsFiniteSet(Invoice) /\ IsFiniteSet(Request)
  /\ {"unborn", "open", "deleted"} \cap Invoice = {} /\ \A s \in SUBSET Fee : s \notin Ticket

VARIABLES
  ticket,   \* Ticket -> ServiceRequest row
  revenue,  \* Invoice -> what its payments have added to the service's revenueTotal
  fee,      \* Fee -> where the UnitFee row is: its invoiceId if it is linked
  invoice,  \* Invoice -> row, see InvoiceRows
  req,      \* Request -> what the handler has read
  hist      \* history, read by no action

vars == <<ticket, revenue, fee, invoice, req, hist>>

-----------------------------------------------------------------------------
(* Rows and handler states *)

ServiceRequestStatus == {"NEW", "IN_PROGRESS", "RESOLVED", "CLOSED", "CANCELLED"}

(* due: the service's slaHours are over; breached: slaBreachedAt is set. *)
TicketRow ==
  [status : ServiceRequestStatus, assigned : BOOLEAN, due : BOOLEAN, breached : BOOLEAN]

Unborn == [status |-> "unborn"]

(* An invoice is for a service request or for a set of fees. *)
Source == Ticket \cup SUBSET Fee

FeeState == {"unborn", "open", "deleted"} \cup Invoice

Idle == [op |-> "idle"]

ReqState ==
  {Idle}
  \cup [op : {"assign"}, ticket : Ticket, saw : ServiceRequestStatus]
  \cup [op : {"status"}, ticket : Ticket, to : ServiceRequestStatus]
  \cup [op : {"scan"}, tickets : SUBSET Ticket]
  \cup [op : {"invoice"}, ticket : Ticket]
  \cup [op : {"pay", "void", "remove"}, invoice : Invoice]
  \cup [op : {"run", "bill"}, fees : SUBSET Fee]
  \cup [op : {"removeFee"}, fee : Fee]

Known(k) == ticket[k].status \in ServiceRequestStatus

(* updateRequestStatus: the transitions it accepts. *)
ValidTransitionReopening(from, to) == from # to              \* mutated form
ValidTransition(from, to) ==
  /\ from # to
  /\ \/ to = "CANCELLED"
     \/ <<from, to>> \in {<<"NEW", "IN_PROGRESS">>, <<"IN_PROGRESS", "RESOLVED">>,
                          <<"RESOLVED", "CLOSED">>}

(* generateMonthlyUtilityInvoices: the fees of the month not yet invoiced. *)
ToInvoiceAll == {f \in Fee : fee[f] \notin {"unborn", "deleted"}}  \* mutated form
ToInvoice == {f \in Fee : fee[f] = "open"}

(* markAsPaid *)
MayPayAgain(row) == Exists(row) /\ row.status # "CANCELLED"  \* mutated form
Accepts(row) == MayPay(row)

NewTicketOpen == [status |-> "OPEN", assigned |-> FALSE, due |-> FALSE,
                  breached |-> FALSE]                        \* mutated form
NewTicket == [status |-> "NEW", assigned |-> FALSE, due |-> FALSE, breached |-> FALSE]

-----------------------------------------------------------------------------
Init ==
  /\ ticket = [k \in Ticket |-> Unborn]
  /\ revenue = [i \in Invoice |-> 0]
  /\ fee = [f \in Fee |-> "unborn"]
  /\ invoice = [i \in Invoice |-> [status |-> "unborn", source |-> {}]]
  /\ req = [r \in Request |-> Idle]
  /\ hist = [late |-> {}]

Begin(r, state) == req[r] = Idle /\ req' = [req EXCEPT ![r] = state]

Finish(r) == req' = [req EXCEPT ![r] = Idle]

-----------------------------------------------------------------------------
(* service-request: create, assignRequest, updateRequestStatus,             *)
(* cancelForActor, checkSlaBreaches                                         *)

CreateTicket(k) ==
  /\ ticket[k] = Unborn
  /\ ticket' = [ticket EXCEPT ![k] = NewTicket]
  /\ UNCHANGED <<revenue, fee, invoice, req, hist>>

DeadlinePasses(k) ==
  /\ Known(k) /\ ~ticket[k].due
  /\ ticket' = [ticket EXCEPT ![k].due = TRUE]
  /\ UNCHANGED <<revenue, fee, invoice, req, hist>>

StartAssign(r, k) ==
  /\ Known(k)
  /\ Begin(r, [op |-> "assign", ticket |-> k, saw |-> ticket[k].status])
  /\ UNCHANGED <<ticket, revenue, fee, invoice, hist>>

CommitAssign(r) ==
  /\ req[r].op = "assign"
  /\ ticket' = [ticket EXCEPT
       ![req[r].ticket].assigned = TRUE,
       ![req[r].ticket].status = IF req[r].saw = "NEW" THEN "IN_PROGRESS" ELSE @]
  /\ Finish(r)
  /\ UNCHANGED <<revenue, fee, invoice, hist>>

(* A PATCH that assigns and moves at once is an assignment and a move. *)
StartStatus(r, k, to) ==
  /\ Known(k)
  /\ ValidTransition(ticket[k].status, to)
  /\ to = "IN_PROGRESS" => ticket[k].assigned
  /\ Begin(r, [op |-> "status", ticket |-> k, to |-> to])
  /\ UNCHANGED <<ticket, revenue, fee, invoice, hist>>

(* The requester takes it back: writes what a move to CANCELLED writes. *)
StartCancel(r, k) ==
  /\ ticket[k].status = "NEW"
  /\ Begin(r, [op |-> "status", ticket |-> k, to |-> "CANCELLED"])
  /\ UNCHANGED <<ticket, revenue, fee, invoice, hist>>

CommitStatus(r) ==
  /\ req[r].op = "status"
  /\ ticket' = [ticket EXCEPT ![req[r].ticket].status = req[r].to]
  /\ Finish(r)
  /\ UNCHANGED <<revenue, fee, invoice, hist>>

Breaching(k) ==
  ticket[k].status \in {"NEW", "IN_PROGRESS"} /\ ticket[k].due /\ ~ticket[k].breached

StartScan(r) ==
  LET late == {k \in Ticket : Breaching(k)}
  IN  /\ late # {}
      /\ Begin(r, [op |-> "scan", tickets |-> late])
      /\ UNCHANGED <<ticket, revenue, fee, invoice, hist>>

(* The status is not tested again. *)
CommitScan(r) ==
  /\ req[r].op = "scan"
  /\ ticket' = [k \in Ticket |-> IF k \in req[r].tickets
                                 THEN [ticket[k] EXCEPT !.breached = TRUE] ELSE ticket[k]]
  /\ Finish(r)
  /\ UNCHANGED <<revenue, fee, invoice, hist>>

-----------------------------------------------------------------------------
(* createInvoiceForRequest; a request may have any number of invoices *)

StartInvoice(r, k) ==
  /\ Known(k)
  /\ Begin(r, [op |-> "invoice", ticket |-> k])
  /\ UNCHANGED <<ticket, revenue, fee, invoice, hist>>

CommitInvoice(r, i) ==
  /\ req[r].op = "invoice" /\ invoice[i].status = "unborn"
  /\ invoice' = InsertRow(invoice, i, req[r].ticket)
  /\ Finish(r)
  /\ UNCHANGED <<ticket, revenue, fee, hist>>

-----------------------------------------------------------------------------
(* markAsPaid, cancelInvoice, remove, bulkMarkOverdue.  An update of a row  *)
(* that is gone fails the call: Fail.                                       *)

Paying(i) == {r \in Request : req[r].op = "pay" /\ req[r].invoice = i}

StartPay(r, i) ==
  /\ Accepts(invoice[i])
  /\ Begin(r, [op |-> "pay", invoice |-> i])
  /\ UNCHANGED <<ticket, revenue, fee, invoice, hist>>

CommitPay(r) ==
  /\ req[r].op = "pay"
  /\ LET i == req[r].invoice  k == invoice[i].source
     IN  /\ Exists(invoice[i])
         /\ invoice' = WriteStatus(invoice, {i}, "PAID")
         /\ IF k \in Ticket
            THEN /\ ticket' = [ticket EXCEPT ![k].status = "RESOLVED"]
                 /\ revenue' = [revenue EXCEPT ![i] = @ + 1]
            ELSE UNCHANGED <<ticket, revenue>>
  /\ Finish(r)
  /\ UNCHANGED <<fee, hist>>

StartVoid(r, i) ==
  /\ MayCancel(invoice[i])
  /\ Begin(r, [op |-> "void", invoice |-> i])
  /\ UNCHANGED <<ticket, revenue, fee, invoice, hist>>

CommitVoid(r) ==
  /\ req[r].op = "void" /\ Exists(invoice[req[r].invoice])
  /\ invoice' = WriteStatus(invoice, {req[r].invoice}, "CANCELLED")
  /\ Finish(r)
  /\ UNCHANGED <<ticket, revenue, fee, hist>>

StartRemove(r, i) ==
  /\ Exists(invoice[i])
  /\ Begin(r, [op |-> "remove", invoice |-> i])
  /\ UNCHANGED <<ticket, revenue, fee, invoice, hist>>

(* The foreign key of the fees is set to null: they are open again. *)
CommitRemove(r) ==
  /\ req[r].op = "remove" /\ Exists(invoice[req[r].invoice])
  /\ invoice' = WriteStatus(invoice, {req[r].invoice}, "deleted")
  /\ fee' = [f \in Fee |-> IF fee[f] = req[r].invoice THEN "open" ELSE fee[f]]
  /\ Finish(r)
  /\ UNCHANGED <<ticket, revenue, hist>>

BulkMarkOverdue ==
  /\ invoice' = WriteStatus(invoice,
                  {i \in Invoice : invoice[i].status = "PENDING"}, "OVERDUE")
  /\ UNCHANGED <<ticket, revenue, fee, req, hist>>

-----------------------------------------------------------------------------
(* createUnitFee, generateMonthlyUtilityInvoices, removeUnitFee *)

CreateFee(f) ==
  /\ fee[f] = "unborn"
  /\ fee' = [fee EXCEPT ![f] = "open"]
  /\ UNCHANGED <<ticket, revenue, invoice, req, hist>>

(* A handler that is q has read fee f. *)
Holds(q, f) ==
  \/ q.op \in {"run", "bill"} /\ f \in q.fees
  \/ q.op = "removeFee" /\ q.fee = f

(* hist.late: the calls holding a fee that has since been put on an invoice. *)
Reads(r) == hist' = [hist EXCEPT !.late = @ \ {r}]

StartRun(r) ==
  /\ ToInvoice # {}
  /\ Begin(r, [op |-> "run", fees |-> ToInvoice])
  /\ Reads(r)
  /\ UNCHANGED <<ticket, revenue, fee, invoice>>

(* createGeneratedInvoiceInTx tests that the fees are there, not that they  *)
(* are still without an invoice.                                            *)
CheckFees(r) ==
  /\ req[r].op = "run"
  /\ \A f \in req[r].fees : fee[f] # "deleted"
  /\ req' = [req EXCEPT ![r].op = "bill"]
  /\ UNCHANGED <<ticket, revenue, fee, invoice, hist>>

(* The run names the resident of the invoice by ResidentUnit.residentId, a  *)
(* Resident's id, where the schema wants a User's: as the code stands the   *)
(* INSERT is refused, and the call ends as in Fail.  This step is what the  *)
(* transaction does when the ids agree, so the model allows more than the   *)
(* code.                                                                    *)
CommitBill(r, i) ==
  /\ req[r].op = "bill" /\ invoice[i].status = "unborn"
  /\ invoice' = InsertRow(invoice, i, req[r].fees)
  /\ LET on == {f \in req[r].fees : fee[f] # "deleted"}
     IN  /\ fee' = [f \in Fee |-> IF f \in on THEN i ELSE fee[f]]
         /\ hist' = [hist EXCEPT !.late =
                       @ \cup {s \in Request : \E f \in on : Holds(req[s], f)}]
  /\ Finish(r)
  /\ UNCHANGED <<ticket, revenue>>

StartRemoveFee(r, f) ==
  /\ fee[f] = "open"
  /\ Begin(r, [op |-> "removeFee", fee |-> f])
  /\ Reads(r)
  /\ UNCHANGED <<ticket, revenue, fee, invoice>>

CommitRemoveFee(r) ==
  /\ req[r].op = "removeFee" /\ fee[req[r].fee] # "deleted"
  /\ fee' = [fee EXCEPT ![req[r].fee] = "deleted"]
  /\ Finish(r)
  /\ UNCHANGED <<ticket, revenue, invoice, hist>>

-----------------------------------------------------------------------------
(* The request ends between two steps. *)
Fail(r) ==
  /\ req[r] # Idle
  /\ Finish(r)
  /\ UNCHANGED <<ticket, revenue, fee, invoice, hist>>

Step(r) ==
  \/ \E k \in Ticket : StartAssign(r, k) \/ StartCancel(r, k) \/ StartInvoice(r, k)
  \/ \E k \in Ticket, to \in ServiceRequestStatus : StartStatus(r, k, to)
  \/ CommitAssign(r) \/ CommitStatus(r)
  \/ StartScan(r) \/ CommitScan(r)
  \/ \E i \in Invoice : \/ CommitInvoice(r, i) \/ CommitBill(r, i)
                        \/ StartPay(r, i) \/ StartVoid(r, i) \/ StartRemove(r, i)
  \/ CommitPay(r) \/ CommitVoid(r) \/ CommitRemove(r)
  \/ StartRun(r) \/ CheckFees(r)
  \/ \E f \in Fee : StartRemoveFee(r, f)
  \/ CommitRemoveFee(r)
  \/ Fail(r)

Next ==
  \/ \E r \in Request : Step(r)
  \/ \E k \in Ticket : CreateTicket(k) \/ DeadlinePasses(k)
  \/ \E f \in Fee : CreateFee(f)
  \/ BulkMarkOverdue

Spec == Init /\ [][Next]_vars

-----------------------------------------------------------------------------
(* Properties *)

(* Every variable stays in its type. *)
TypeOK ==
  /\ ticket \in [Ticket -> TicketRow \cup {Unborn}]
  /\ revenue \in [Invoice -> Nat]
  /\ fee \in [Fee -> FeeState]
  /\ invoice \in [Invoice -> InvoiceRow(Source)]
  /\ req \in [Request -> ReqState]
  /\ hist \in [late : SUBSET Request]

(* Every PAID invoice of a service request is in the service's revenue; one *)
(* that is can no longer be collected, even if it was cancelled or deleted  *)
(* by a call that came late; and it is counted more than once only by calls *)
(* that were paying it at the same time: those of now, and the times it is  *)
(* counted, never exceed the calls that can be in flight.                   *)
RevenueHonest ==
  \A i \in Invoice :
    /\ invoice[i].status = "PAID" /\ invoice[i].source \in Ticket => revenue[i] >= 1
    /\ revenue[i] >= 1 => invoice[i].status \notin Payable
    /\ revenue[i] + Cardinality(Paying(i)) <= Cardinality(Request)

(* A fee that is on an invoice stays on it until that invoice is deleted:   *)
(* it is put on a second one, or deleted, only by a call that had read it   *)
(* before the invoice was issued.                                           *)
RechargedOnlyLate ==
  [][\A f \in Fee, i \in Invoice : fee[f] = i =>
       \/ fee'[f] = i
       \/ fee'[f] = "open" /\ invoice'[i].status = "deleted"
       \/ \E r \in hist.late : Holds(req[r], f) /\ req'[r] = Idle]_vars

(* The calls in flight that can still change a service request.             *)
MayTouch(r, k) ==
  \/ req[r].op = "assign" /\ req[r].ticket = k /\ req[r].saw = "NEW"
  \/ req[r].op = "status" /\ req[r].ticket = k /\ req[r].to # "CANCELLED"
  \/ req[r].op = "scan" /\ k \in req[r].tickets

Settled(k) == ticket[k].status = "CANCELLED" /\ \A r \in Request : ~MayTouch(r, k)

Pays(k) == \E r \in Request : /\ req[r].op = "pay" /\ CommitPay(r)
                             /\ invoice[req[r].invoice].source = k

(* Once the calls that had read a CANCELLED service request are finished,   *)
(* it stays CANCELLED and its SLA mark stays as it is, until an invoice of  *)
(* it is paid: that reopens it as RESOLVED.                                 *)
CancelledStays ==
  [][\A k \in Ticket : Settled(k) =>
       \/ Settled(k)' /\ ticket'[k].breached = ticket[k].breached
       \/ Pays(k)]_vars
=================================================================================
