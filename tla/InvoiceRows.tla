---------------------------- MODULE InvoiceRows ----------------------------
(***************************************************************************)
(* The Invoice table as the billing services see it: the status column, the *)
(* link to the row the invoice was raised for (bookingId or violationId),   *)
(* and the single-row guards and writes that several handlers share.        *)
(*                                                                          *)
(* A table is a function from invoice ids to rows.  Ids are uuids and never *)
(* reused, so a row is "unborn" before its INSERT and "deleted" after its   *)
(* DELETE; neither is a value of the column, they say there is no row.      *)
(***************************************************************************)

(* enum InvoiceStatus *)
InvoiceStatus == {"PENDING", "OVERDUE", "PAID", "CANCELLED"}

RowStatus == InvoiceStatus \cup {"unborn", "deleted"}

(* What still asks the resident for money. *)
Payable == {"PENDING", "OVERDUE"}

InvoiceRow(Source) == [status : RowStatus, source : Source]

Exists(row) == row.status \in InvoiceStatus

(* The guard of markAsPaid: the row is there, not PAID and not CANCELLED. *)
MayPay(row) == Exists(row) /\ row.status \notin {"PAID", "CANCELLED"}

(* The guard of cancelInvoice: the row is there and not PAID. *)
MayCancel(row) == Exists(row) /\ row.status # "PAID"

(* A row as the callers of the API see it, in the terms of InvoiceLedger. *)
Seen(row) ==
  CASE row.status = "unborn"    -> "absent"
    [] row.status \in Payable   -> "open"
    [] row.status = "PAID"      -> "settled"
    [] row.status = "CANCELLED" -> "void"
    [] OTHER                    -> "gone"

(* Rows whose foreign key names src. *)
RowsOf(table, src) ==
  {i \in DOMAIN table : Exists(table[i]) /\ table[i].source = src}

(* tx.invoice.create with status PENDING. *)
InsertRow(table, i, src) ==
  [table EXCEPT ![i] = [status |-> "PENDING", source |-> src]]

(* update / updateMany of the status column. *)
WriteStatus(table, rows, st) ==
  [i \in DOMAIN table |->
     IF i \in rows THEN [table[i] EXCEPT !.status = st] ELSE table[i]]
=============================================================================
