-------------------------- MODULE ViolationBilling --------------------------
(***************************************************************************)
(* Violations, the fines they raise and the requests residents file against *)
(* them (appeals and fix submissions).                                      *)
(*                                                                          *)
(* The concurrency is that of BookingBilling: a handler reads and tests     *)
(* rows in one step, writes in a later one, and a $transaction callback is  *)
(* one step because it starts by updating the violation, the action request *)
(* or the invoice row it is about.                                          *)
(*                                                                          *)
(* createViolation is the only caller that links an invoice to a violation, *)
(* so a violation has one fine or none, and fine[v] is that invoice's row   *)
(* ("unborn" when fineAmount is 0).                                         *)
(***************************************************************************)
EXTENDS Integers, FiniteSets, InvoiceRows

CONSTANTS
  Violation,  \* violation ids
  Action,     \* ViolationActionRequest ids
  Request     \* HTTP requests being served at the same time

ASSUME RequestAssumption == IsFiniteSet(Request)

VARIABLES
  violation,  \* Violation -> row
  fine,       \* Violation -> its FINE invoice
  action,     \* Action -> row
  req,        \* Request -> what the handler has read so far
  hist        \* history: violations annulled, reviewed before they were
              \* flagged, and left unflagged by a submission that died

vars == <<violation, fine, action, req, hist>>

-----------------------------------------------------------------------------
(* Rows and handler states *)

ViolationStatus ==
  {"PENDING", "UNDER_REVIEW", "APPEALED", "PAID", "CLOSED", "CANCELLED"}

ActionType == {"APPEAL", "FIX_SUBMISSION"}

Decision == {"APPROVED", "REJECTED"}

(* appeal: the column appealStatus; lapsed: appealDeadline, which is also   *)
(* the fine's dueDate, has passed.                                          *)
ViolationRow ==
  [status : ViolationStatus, appeal : Decision \cup {"none", "PENDING"},
   lapsed : BOOLEAN]

ActionRow ==
  [violation : Violation, type : ActionType, status : Decision \cup {"PENDING"}]

Unborn == [status |-> "unborn"]

Idle == [op |-> "idle"]

StatusReq == [op : {"status"}, violation : Violation, to : ViolationStatus]
CancelReq == [op : {"cancel", "settle"}, violation : Violation]
SubmitReq == [op : {"check", "create", "flag"}, violation : Violation,
              type : ActionType]
ReviewReq == [op : {"review"}, action : Action, decision : Decision]
FineReq   == [op : {"pay", "void", "remove"}, violation : Violation]

ReqState == {Idle} \cup StatusReq \cup CancelReq \cup SubmitReq \cup ReviewReq
                   \cup FineReq

(* Submissions that have inserted an appeal and not yet noted it. *)
Flagging(v) ==
  {r \in Request : req[r].op = "flag" /\ req[r].violation = v}

Issued(v) == violation[v].status \in ViolationStatus

Filed(a) == action[a].status \in Decision \cup {"PENDING"}

PendingActions(v, type) ==
  {a \in Action : /\ Filed(a)
                  /\ action[a].violation = v
                  /\ action[a].type = type
                  /\ action[a].status = "PENDING"}

(* VALID_TRANSITIONS *)
Transitions(st) ==
  CASE st = "PENDING"      -> {"UNDER_REVIEW", "CANCELLED"}
    [] st = "UNDER_REVIEW" -> {"APPEALED", "PAID", "CLOSED", "CANCELLED"}
    [] st = "APPEALED"     -> {"UNDER_REVIEW", "PAID", "CLOSED", "CANCELLED"}
    [] st = "PAID"         -> {"CLOSED"}
    [] OTHER               -> {}

(* What updateViolationStatus lets through. *)
AllowedReopening(st) == Transitions(st) \cup {"UNDER_REVIEW"}  \* mutated form
Allowed(st) == Transitions(st)

(* The fine statuses an annulment cancels. *)
AnnulsOverdueOnly == {"OVERDUE"}                            \* mutated form
Annuls == {"PENDING"}

(* Whether submitViolationAction refuses a second request. *)
DuplicateNever(v, type) == FALSE                            \* mutated form
Duplicate(v, type) == PendingActions(v, type) # {}

(* Who may still be reviewed: getActionRequestOrThrow. *)
ReviewableUnlessApproved == {"PENDING", "REJECTED"}         \* mutated form
Reviewable == {"PENDING"}

-----------------------------------------------------------------------------
Init ==
  /\ violation = [v \in Violation |-> Unborn]
  /\ fine = [v \in Violation |-> [status |-> "unborn"]]
  /\ action = [a \in Action |-> Unborn]
  /\ req = [r \in Request |-> Idle]
  /\ hist = [annulled |-> {}, overtaken |-> {}, broken |-> {}]

Begin(r, state) ==
  /\ req[r] = Idle
  /\ req' = [req EXCEPT ![r] = state]
  /\ UNCHANGED hist

Finish(r) == req' = [req EXCEPT ![r] = Idle]

SetStatus(v, st) == violation' = [violation EXCEPT ![v].status = st]

SetFine(v, st) == fine' = [fine EXCEPT ![v].status = st]

(* The updateMany that goes with an annulment. *)
AnnulFine(v) ==
  IF fine[v].status \in Annuls THEN SetFine(v, "CANCELLED") ELSE UNCHANGED fine

(* createViolation: the violation and its fine in one transaction. *)
CreateViolation(v, fined) ==
  /\ violation[v] = Unborn
  /\ violation' = [violation EXCEPT ![v] =
       [status |-> "PENDING", appeal |-> "none", lapsed |-> FALSE]]
  /\ IF fined THEN SetFine(v, "PENDING") ELSE UNCHANGED fine
  /\ UNCHANGED <<action, req, hist>>

(* updateViolationStatus *)
StartStatus(r, v, st) ==
  /\ Issued(v)
  /\ st \in Allowed(violation[v].status)
  /\ Begin(r, [op |-> "status", violation |-> v, to |-> st])
  /\ UNCHANGED <<violation, fine, action>>

CommitStatus(r) ==
  /\ req[r].op = "status"
  /\ SetStatus(req[r].violation, req[r].to)
  /\ Finish(r)
  /\ UNCHANGED <<fine, action, hist>>

(* cancelViolation *)
StartCancel(r, v) ==
  /\ Issued(v)
  /\ violation[v].status \notin {"PAID", "CLOSED"}
  /\ Begin(r, [op |-> "cancel", violation |-> v])
  /\ UNCHANGED <<violation, fine, action>>

CommitCancel(r) ==
  /\ req[r].op = "cancel"
  /\ SetStatus(req[r].violation, "CANCELLED")
  /\ AnnulFine(req[r].violation)
  /\ hist' = [hist EXCEPT !.annulled = @ \cup {req[r].violation}]
  /\ Finish(r)
  /\ UNCHANGED action

(* markAsPaid of the violations service tests nothing but existence. *)
StartSettle(r, v) ==
  /\ Issued(v)
  /\ Begin(r, [op |-> "settle", violation |-> v])
  /\ UNCHANGED <<violation, fine, action>>

CommitSettle(r) ==
  /\ req[r].op = "settle"
  /\ LET v == req[r].violation
     IN  /\ SetStatus(v, "PAID")
         /\ IF fine[v].status \in Payable THEN SetFine(v, "PAID") ELSE UNCHANGED fine
  /\ Finish(r)
  /\ UNCHANGED <<action, hist>>

(* submitViolationAction: read the violation ... *)
StartSubmit(r, v, type) ==
  /\ Issued(v)
  /\ violation[v].status = "PENDING"
  /\ type = "APPEAL" => ~violation[v].lapsed
  /\ Begin(r, [op |-> "check", violation |-> v, type |-> type])
  /\ UNCHANGED <<violation, fine, action>>

(* ... look for a pending request of the same type ... *)
CheckPending(r) ==
  /\ req[r].op = "check"
  /\ IF Duplicate(req[r].violation, req[r].type)
     THEN Finish(r)
     ELSE req' = [req EXCEPT ![r].op = "create"]
  /\ UNCHANGED <<violation, fine, action, hist>>

(* ... insert the request ... *)
CreateAction(r, a) ==
  /\ req[r].op = "create"
  /\ action[a] = Unborn
  /\ action' = [action EXCEPT ![a] =
       [violation |-> req[r].violation, type |-> req[r].type,
        status |-> "PENDING"]]
  /\ IF req[r].type = "APPEAL"
     THEN req' = [req EXCEPT ![r].op = "flag"]
     ELSE Finish(r)
  /\ UNCHANGED <<violation, fine, hist>>

(* ... and note an appeal in the violation. *)
FlagAppeal(r) ==
  /\ req[r].op = "flag"
  /\ violation' = [violation EXCEPT ![req[r].violation].appeal = "PENDING"]
  /\ Finish(r)
  /\ UNCHANGED <<fine, action, hist>>

(* reviewAppeal, reviewFixSubmission: neither looks at the violation's      *)
(* status before it cancels it.                                             *)
StartReview(r, a, decision) ==
  /\ Filed(a)
  /\ action[a].status \in Reviewable
  /\ Begin(r, [op |-> "review", action |-> a, decision |-> decision])
  /\ UNCHANGED <<violation, fine, action>>

(* What a decision writes to the row of the violation. *)
ReviewedForgettingAppeal(row, type, decision) ==            \* mutated form
  [row EXCEPT !.status = IF decision = "APPROVED" THEN "CANCELLED" ELSE @]
Reviewed(row, type, decision) ==
  [row EXCEPT !.status = IF decision = "APPROVED" THEN "CANCELLED" ELSE @,
              !.appeal = IF type = "APPEAL" THEN decision ELSE @]

CommitReview(r) ==
  /\ req[r].op = "review"
  /\ LET a == req[r].action
         v == action[a].violation
         decision == req[r].decision
     IN  /\ action' = [action EXCEPT ![a].status = decision]
         /\ violation' = [violation EXCEPT
              ![v] = Reviewed(@, action[a].type, decision)]
         /\ IF decision = "APPROVED" THEN AnnulFine(v) ELSE UNCHANGED fine
         /\ hist' = [hist EXCEPT
              !.annulled = IF decision = "APPROVED" THEN @ \cup {v} ELSE @,
              !.overtaken = IF action[a].type = "APPEAL" /\ Flagging(v) # {}
                            THEN @ \cup {v} ELSE @]
  /\ Finish(r)

(* markAsPaid of the invoices service, on the fine: the violation becomes   *)
(* PAID whatever it is by then.                                             *)
StartPay(r, v) ==
  /\ MayPay(fine[v])
  /\ Begin(r, [op |-> "pay", violation |-> v])
  /\ UNCHANGED <<violation, fine, action>>

PaidViolationStatusResolved == "RESOLVED"                   \* mutated form
PaidViolationStatus == "PAID"

CommitPay(r) ==
  /\ req[r].op = "pay"
  /\ LET v == req[r].violation
     IN  IF Exists(fine[v])
         THEN SetFine(v, "PAID") /\ SetStatus(v, PaidViolationStatus)
         ELSE UNCHANGED <<violation, fine>>
  /\ Finish(r)
  /\ UNCHANGED <<action, hist>>

(* cancelInvoice, on the fine: the violation is not told. *)
StartVoid(r, v) ==
  /\ MayCancel(fine[v])
  /\ Begin(r, [op |-> "void", violation |-> v])
  /\ UNCHANGED <<violation, fine, action>>

CommitVoid(r) ==
  /\ req[r].op = "void"
  /\ IF Exists(fine[req[r].violation])
     THEN SetFine(req[r].violation, "CANCELLED")
     ELSE UNCHANGED fine
  /\ Finish(r)
  /\ UNCHANGED <<violation, action, hist>>

(* remove, on the fine *)
StartRemove(r, v) ==
  /\ Exists(fine[v])
  /\ Begin(r, [op |-> "remove", violation |-> v])
  /\ UNCHANGED <<violation, fine, action>>

CommitRemove(r) ==
  /\ req[r].op = "remove"
  /\ IF Exists(fine[req[r].violation])
     THEN SetFine(req[r].violation, "deleted")
     ELSE UNCHANGED fine
  /\ Finish(r)
  /\ UNCHANGED <<violation, action, hist>>

(* appealDeadline goes by. *)
DeadlinePasses(v) ==
  /\ Issued(v)
  /\ ~violation[v].lapsed
  /\ violation' = [violation EXCEPT ![v].lapsed = TRUE]
  /\ UNCHANGED <<fine, action, req, hist>>

(* bulkMarkOverdue is one UPDATE over all fines past their due date. *)
BulkMarkOverdue ==
  /\ fine' = WriteStatus(fine,
       {v \in Violation : /\ Issued(v)
                          /\ violation[v].lapsed
                          /\ fine[v].status = "PENDING"},
       "OVERDUE")
  /\ UNCHANGED <<violation, action, req, hist>>

(* A request dies between two of its database calls. *)
Fail(r) ==
  /\ req[r] # Idle
  /\ Finish(r)
  /\ hist' = [hist EXCEPT
       !.broken = @ \cup {v \in Violation : r \in Flagging(v)}]
  /\ UNCHANGED <<violation, fine, action>>

AdminStep(r) ==
  \/ \E v \in Violation, st \in ViolationStatus : StartStatus(r, v, st)
  \/ CommitStatus(r)
  \/ \E v \in Violation : StartCancel(r, v) \/ StartSettle(r, v)
  \/ CommitCancel(r)
  \/ CommitSettle(r)
  \/ \E a \in Action, decision \in Decision : StartReview(r, a, decision)
  \/ CommitReview(r)

ResidentStep(r) ==
  \/ \E v \in Violation, type \in ActionType : StartSubmit(r, v, type)
  \/ CheckPending(r)
  \/ \E a \in Action : CreateAction(r, a)
  \/ FlagAppeal(r)

FineStep(r) ==
  \/ \E v \in Violation : StartPay(r, v) \/ StartVoid(r, v) \/ StartRemove(r, v)
  \/ CommitPay(r)
  \/ CommitVoid(r)
  \/ CommitRemove(r)

Next ==
  \/ \E r \in Request : AdminStep(r) \/ ResidentStep(r) \/ FineStep(r) \/ Fail(r)
  \/ \E v \in Violation :
       \/ \E fined \in BOOLEAN : CreateViolation(v, fined)
       \/ DeadlinePasses(v)
  \/ BulkMarkOverdue

Spec == Init /\ [][Next]_vars

-----------------------------------------------------------------------------
(* Properties *)

(* Every row and every handler state has the shape the schema gives it.     *)
TypeOK ==
  /\ violation \in [Violation -> ViolationRow \cup {Unborn}]
  /\ fine \in [Violation -> [status : RowStatus]]
  /\ action \in [Action -> ActionRow \cup {Unborn}]
  /\ req \in [Request -> ReqState]
  /\ hist \in [annulled : SUBSET Violation, overtaken : SUBSET Violation,
              broken : SUBSET Violation]

(* "Approving an appeal cancels violation and linked pending fine invoice", *)
(* and so does cancelViolation: whatever runs at the same time, no fine of  *)
(* an annulled violation is PENDING, then or later.                         *)
AnnulledFineNotPending == \A v \in hist.annulled : fine[v].status # "PENDING"

(* Submissions of this type that found nothing pending and will insert.     *)
Inserting(v, type) ==
  {r \in Request : req[r].op = "create" /\ req[r].violation = v
                   /\ req[r].type = type}

(* "A pending appeal already exists": the test and the insert are two       *)
(* steps, so duplicates can appear, but never more than there are requests  *)
(* served at the same time; one request at a time leaves at most one.       *)
PendingBound ==
  \A v \in Violation, type \in ActionType :
    Cardinality(PendingActions(v, type)) + Cardinality(Inserting(v, type))
      <= Cardinality(Request)

Resolved == {"PAID", "CLOSED", "CANCELLED"}

(* Resolved, with no late updateViolationStatus in flight that reopens it.  *)
OutOfProcess(v) ==
  /\ violation[v].status \in Resolved
  /\ \A r \in Request : req[r].op = "status" /\ req[r].violation = v =>
       req[r].to \in Resolved

(* A status that was tested before a payment or an annulment can be written *)
(* after it and reopens the violation.  Nothing else does, in any overlap:  *)
(* once those calls are done, a violation that is PAID, CLOSED or CANCELLED *)
(* stays out of the process for good.                                       *)
OutForGood ==
  [][\A v \in Violation : OutOfProcess(v) => OutOfProcess(v)']_vars

(* An appeal that was filed before FlagAppeal can be reviewed before it:    *)
(* then the column appealStatus ends PENDING over the decision; and a       *)
(* submission that dies at that point leaves an appeal the column does not  *)
(* know.  Nothing else parts the two tables, in any overlap: but for the    *)
(* first case the column says what some appeal says, and but for the second *)
(* it says something as soon as there is an appeal and none is being noted. *)
AppealFlagHonest ==
  \A v \in Violation :
    LET Appeals == {a \in Action : /\ Filed(a)
                                  /\ action[a].violation = v
                                  /\ action[a].type = "APPEAL"}
    IN  /\ Issued(v) /\ violation[v].appeal # "none" /\ v \notin hist.overtaken =>
             \E a \in Appeals : action[a].status = violation[v].appeal
        /\ Appeals # {} /\ Flagging(v) = {} /\ v \notin hist.broken =>
             violation[v].appeal # "none"

(* Decided, and no other reviewer of it in flight. *)
Decided(a) ==
  /\ action[a].status \in Decision
  /\ \A r \in Request : ~(req[r].op = "review" /\ req[r].action = a)

(* "Violation action request is no longer pending": of two reviewers who    *)
(* both found the request pending the later one wins, but once both are     *)
(* done the decision stands, whatever else is in flight.                    *)
DecisionStands ==
  [][\A a \in Action : Decided(a) => Decided(a)' /\ action'[a] = action[a]]_vars

(* "Cannot cancel a resolved/closed violation": no step takes a violation   *)
(* from PAID or CLOSED to CANCELLED.                                        *)
ResolvedNotCancelled ==
  [][\A v \in Violation : violation[v].status \in {"PAID", "CLOSED"} =>
       violation'[v].status # "CANCELLED"]_vars
=============================================================================
