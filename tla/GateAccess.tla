------------------------------ MODULE GateAccess ------------------------------
(***************************************************************************)
(* QR permits, the gates that scan them and the cron that reports visitors  *)
(* who stay too long.                                                       *)
(*                                                                          *)
(* No handler here uses a $transaction: every await that writes, to the     *)
(* database or to HikCentral, is a step of its own, and other requests, an  *)
(* error or a restart of the process may come between two of them.  A       *)
(* handler reads and tests the permit in its Start step; `saw' is the       *)
(* status it read, which its later writes do not test again.                *)
(*                                                                          *)
(* Permits are of types that need an access grant (VISITOR, DELIVERY,       *)
(* WORKER, SERVICE_PROVIDER) and are all for one unit.                      *)
(***************************************************************************)
EXTENDS Integers, FiniteSets

CONSTANTS
  Permit,         \* AccessQRCode ids
  Worker,         \* those of type WORKER; the others share another type
  Scanned,        \* the permits that are ever shown at a gate
  Request,        \* HTTP requests being served at the same time
  Scan,           \* runs of the overdue-exit cron that may overlap
  EnforceSingle,  \* QR_ENFORCE_SINGLE_ACTIVE
  CountBound      \* scans and codes are counted up to this bound

ASSUME PermitAssumption == Worker \subseteq Permit /\ Scanned \subseteq Permit
ASSUME RequestAssumption == IsFiniteSet(Request)
ASSUME BoundAssumption == CountBound \in Nat /\ CountBound >= 2
ASSUME EnforceAssumption == EnforceSingle \in BOOLEAN

VARIABLES
  permit,  \* Permit -> AccessQRCode row
  grant,   \* permits whose AccessGrant row exists
  codes,   \* Permit -> codes HikCentral has issued for it
  req,     \* Request -> what the handler has read and done so far
  scan,    \* Scan -> an overdue-exit scan: rows left, row just notified
  hist     \* history, read by no action

vars == <<permit, grant, codes, req, scan, hist>>

-----------------------------------------------------------------------------
(* Rows and handler states *)

AccessStatus == {"PENDING", "ACTIVE", "EXPIRED", "USED", "REVOKED", "CANCELLED"}

Unborn == [status |-> "unborn"]

(* A creation that failed, that failed and could not take its grant back,   *)
(* or that a restart cut; the id is not used again.                         *)
Failed == [status |-> "failed"]
Orphaned == [status |-> "orphaned"]
Cut == [status |-> "cut"]
Dead == {Failed, Orphaned, Cut}

(* multi: usageMode is MULTI_USE; presence: checkedInAt and checkedOutAt;   *)
(* due: overdueExitAt is null, in the future or past; lapsed: validTo has   *)
(* passed.                                                                  *)
PermitRow ==
  [status : AccessStatus, multi : BOOLEAN, scans : 0 .. CountBound, lapsed : BOOLEAN,
   presence : {"never", "inside", "left"}, due : {"none", "armed", "elapsed"}]

NewRowApproved(st, multi) ==                                 \* mutated form
  [status |-> IF st = "ACTIVE" THEN "APPROVED" ELSE st, multi |-> multi,
   scans |-> 0, lapsed |-> FALSE, presence |-> "never", due |-> "none"]
NewRow(st, multi) ==
  [status |-> st, multi |-> multi, scans |-> 0, lapsed |-> FALSE,
   presence |-> "never", due |-> "none"]

Idle == [op |-> "idle"]

ReqState ==
  {Idle}
  \cup [op : {"grant", "code", "insert", "undo"}, permit : Permit,
        as : {"PENDING", "ACTIVE"}, multi : BOOLEAN]
  \cup [op : {"approve", "activate", "reject", "mark", "enter", "leave",
              "revoke"},
        permit : Permit, saw : AccessStatus]

ScanIdle == [rows |-> {}, row |-> "none"]

Exists(p) == permit[p].status \in AccessStatus

SameType(p, q) == (p \in Worker) <=> (q \in Worker)

Serving(p) == {r \in Request : req[r] # Idle /\ req[r].permit = p}

(* The handlers of one kind that are at work on a permit. *)
Doing(p, op) == {r \in Serving(p) : req[r].op = op}

(* The statuses each handler refuses. *)
MarkRefusesAnnulled == {"CANCELLED", "EXPIRED"}              \* mutated form
MarkRefusesUsed == {"USED"}                                  \* mutated form
MarkRefuses == {"CANCELLED", "EXPIRED", "USED"}

CheckInRefuses == {"CANCELLED", "EXPIRED", "REVOKED"}

Reviewable == {"PENDING"}

(* generateQrCode: another live permit of the type. *)
ConflictIgnored(p) == FALSE                                  \* mutated form
Conflict(p) ==
  /\ EnforceSingle
  /\ \E q \in Permit \ {p} : /\ SameType(p, q)
                             /\ permit[q].status = "ACTIVE"
                             /\ ~permit[q].lapsed

Capped(n) == IF n < CountBound THEN n ELSE CountBound

-----------------------------------------------------------------------------
Init ==
  /\ permit = [p \in Permit |-> Unborn]
  /\ grant = {}
  /\ codes = [p \in Permit |-> 0]
  /\ req = [r \in Request |-> Idle]
  /\ scan = [s \in Scan |-> ScanIdle]
  /\ hist = [unseen |-> {}, unchecked |-> {}, broken |-> {}, reopened |-> {}]

Begin(r, state) ==
  /\ req[r] = Idle
  /\ req' = [req EXCEPT ![r] = state]

(* A handler that reads the row of a permit. *)
Read(r, op, p) ==
  /\ Exists(p)
  /\ Begin(r, [op |-> op, permit |-> p, saw |-> permit[p].status])
  /\ UNCHANGED <<permit, grant, codes, scan, hist>>

Advance(r, op) == req' = [req EXCEPT ![r].op = op]

Finish(r) == req' = [req EXCEPT ![r] = Idle]

(* generateQrCode up to the grant.  A resident's worker permit waits for    *)
(* an admin; every other permit is active at once.                          *)
StartGenerate(r, p, st, multi) ==
  /\ permit[p] = Unborn /\ Serving(p) = {}
  /\ ~Conflict(p)
  /\ st = "PENDING" => p \in Worker
  /\ Begin(r, [op |-> "grant", permit |-> p, as |-> st, multi |-> multi])
  /\ UNCHANGED <<permit, grant, codes, scan, hist>>

(* generateWorkerQr of the workers service never looks for another permit. *)
StartGenerateWorker(r, p) ==
  /\ permit[p] = Unborn /\ Serving(p) = {}
  /\ p \in Worker
  /\ Begin(r, [op |-> "grant", permit |-> p, as |-> "ACTIVE",
               multi |-> FALSE])
  /\ hist' = [hist EXCEPT !.unchecked = @ \cup {p}]
  /\ UNCHANGED <<permit, grant, codes, scan>>

CreateGrant(r) ==
  /\ req[r].op = "grant"
  /\ grant' = grant \cup {req[r].permit}
  /\ Advance(r, IF req[r].as = "PENDING" THEN "insert" ELSE "code")
  /\ UNCHANGED <<permit, codes, scan, hist>>

CreateCode(r) ==
  /\ req[r].op = "code"
  /\ codes' = [codes EXCEPT ![req[r].permit] = Capped(@ + 1)]
  /\ Advance(r, "insert")
  /\ UNCHANGED <<permit, grant, scan, hist>>

(* History: a creation that has looked for other permits and not seen this  *)
(* one.                                                                     *)
OtherCreation(r) ==
  \E s \in Request \ {r} : req[s].op \in {"grant", "code", "insert"}

InsertPermit(r) ==
  /\ req[r].op = "insert"
  /\ permit' = [permit EXCEPT ![req[r].permit] = NewRow(req[r].as, req[r].multi)]
  /\ Finish(r)
  /\ hist' = [hist EXCEPT !.unseen =
       IF OtherCreation(r) THEN @ \cup {req[r].permit} ELSE @]
  /\ UNCHANGED <<grant, codes, scan>>

(* An error before the grant exists leaves nothing behind ...               *)
GrantRefused(r) ==
  /\ req[r].op = "grant"
  /\ permit' = [permit EXCEPT ![req[r].permit] = Failed]
  /\ Finish(r)
  /\ hist' = [hist EXCEPT !.broken = @ \cup {req[r].permit}]
  /\ UNCHANGED <<grant, codes, scan>>

(* ... and one after it enters the catch of generateQrCode or               *)
(* generateWorkerQr ...                                                     *)
GenerateFails(r) ==
  /\ req[r].op \in {"code", "insert"}
  /\ Advance(r, "undo")
  /\ hist' = [hist EXCEPT !.broken = @ \cup {req[r].permit}]
  /\ UNCHANGED <<permit, grant, codes, scan>>

(* ... which takes the grant back; nothing takes a HikCentral code back.    *)
UndoneNothing(r) == {}                                       \* mutated form
Undone(r) == {req[r].permit}

TakeBackGrant(r) ==
  /\ req[r].op = "undo"
  /\ grant' = grant \ Undone(r)
  /\ permit' = [permit EXCEPT ![req[r].permit] = Failed]
  /\ Finish(r)
  /\ UNCHANGED <<codes, scan, hist>>

(* .catch(() => undefined): the delete may fail as well, and the grant      *)
(* stays without a row.                                                     *)
TakeBackFails(r) ==
  /\ req[r].op = "undo"
  /\ permit' = [permit EXCEPT ![req[r].permit] = Orphaned]
  /\ Finish(r)
  /\ UNCHANGED <<grant, codes, scan, hist>>

-----------------------------------------------------------------------------
(* approveWorkerQrCode, rejectWorkerQrCode *)

StartApprove(r, p) ==
  /\ p \in Worker
  /\ permit[p].status \in Reviewable
  /\ Read(r, "approve", p)

IssueCode(r) ==
  /\ req[r].op = "approve"
  /\ codes' = [codes EXCEPT ![req[r].permit] = Capped(@ + 1)]
  /\ Advance(r, "activate")
  /\ UNCHANGED <<permit, grant, scan, hist>>

(* History: the permit a handler brings back from its end. *)
Reopened(r) == {p \in {req[r].permit} : permit[p].status \in MarkRefuses}

Activate(r) ==
  /\ req[r].op = "activate"
  /\ permit' = [permit EXCEPT ![req[r].permit].status = "ACTIVE"]
  /\ Finish(r)
  /\ hist' = [hist EXCEPT !.unchecked = @ \cup {req[r].permit},
                          !.reopened = @ \cup Reopened(r)]
  /\ UNCHANGED <<grant, codes, scan>>

StartReject(r, p) ==
  /\ p \in Worker
  /\ permit[p].status \in Reviewable
  /\ Read(r, "reject", p)

CommitReject(r) ==
  /\ req[r].op = "reject"
  /\ permit' = [permit EXCEPT ![req[r].permit].status = "CANCELLED"]
  /\ Finish(r)
  /\ UNCHANGED <<grant, codes, scan, hist>>

-----------------------------------------------------------------------------
(* The gates: markQrCodeUsed, checkInQr, checkOutQr; the row each then    *)
(* adds to the gate log is read by no handler.                              *)

StartMark(r, p) == permit[p].status \notin MarkRefuses /\ Read(r, "mark", p)

Marked(row) ==
  [row EXCEPT !.scans = Capped(@ + 1),
              !.status = IF row.multi THEN @ ELSE "USED"]

CommitMark(r) ==
  /\ req[r].op = "mark"
  /\ permit' = [permit EXCEPT ![req[r].permit] = Marked(@)]
  /\ Finish(r)
  /\ UNCHANGED <<grant, codes, scan, hist>>

StartCheckIn(r, p) == permit[p].status \notin CheckInRefuses /\ Read(r, "enter", p)

CommitCheckIn(r) ==
  /\ req[r].op = "enter"
  /\ permit' = [permit EXCEPT ![req[r].permit].presence = "inside",
                              ![req[r].permit].due = "armed"]
  /\ Finish(r)
  /\ UNCHANGED <<grant, codes, scan, hist>>

StartCheckOut(r, p) == Read(r, "leave", p)

CommitCheckOut(r) ==
  /\ req[r].op = "leave"
  /\ permit' = [permit EXCEPT ![req[r].permit].presence = "left",
                              ![req[r].permit].due = "none"]
  /\ Finish(r)
  /\ UNCHANGED <<grant, codes, scan, hist>>

-----------------------------------------------------------------------------
(* revokeQrCode, and the updateMany with which listQrCodes expires the      *)
(* lapsed permits in the caller's scope.                                    *)

StartRevoke(r, p) == permit[p].status = "ACTIVE" /\ Read(r, "revoke", p)

CommitRevoke(r) ==
  /\ req[r].op = "revoke"
  /\ permit' = [permit EXCEPT ![req[r].permit].status = "REVOKED"]
  /\ Finish(r)
  /\ hist' = [hist EXCEPT !.reopened = @ \cup Reopened(r)]
  /\ UNCHANGED <<grant, codes, scan>>

ExpiresLapsed(p) == permit[p].status = "ACTIVE" /\ permit[p].lapsed

ListQrCodes(scope) ==
  /\ \E p \in scope : ExpiresLapsed(p)
  /\ permit' = [p \in Permit |->
       IF p \in scope /\ ExpiresLapsed(p)
       THEN [permit[p] EXCEPT !.status = "EXPIRED"] ELSE permit[p]]
  /\ UNCHANGED <<grant, codes, req, scan, hist>>

(* An error after the reads of a handler other than a generating one.      *)
HandlerFails(r) ==
  /\ req[r] # Idle
  /\ req[r].op \notin {"grant", "code", "insert", "undo"}
  /\ Finish(r)
  /\ hist' = [hist EXCEPT !.broken = @ \cup {req[r].permit}]
  /\ UNCHANGED <<permit, grant, codes, scan>>

-----------------------------------------------------------------------------
(* processOverdueExits, every five minutes: alert, then rearm, row by row.  *)
(* Nothing stops a scan from starting while an earlier one is still at it.  *)

IsOverdue(p) ==
  /\ Exists(p)
  /\ permit[p].presence = "inside"
  /\ permit[p].due = "elapsed"

StartScan(s) ==
  /\ scan[s] = ScanIdle
  /\ \E p \in Permit : IsOverdue(p)
  /\ scan' = [scan EXCEPT ![s].rows = {p \in Permit : IsOverdue(p)}]
  /\ UNCHANGED <<permit, grant, codes, req, hist>>

NotifyOverdue(s, p) ==
  /\ p \in scan[s].rows /\ scan[s].row = "none"
  /\ scan' = [scan EXCEPT ![s] = [rows |-> scan[s].rows \ {p}, row |-> p]]
  /\ UNCHANGED <<permit, grant, codes, req, hist>>

RearmedNever(row) == [row EXCEPT !.due = "none"]             \* mutated form
Rearmed(row) == [row EXCEPT !.due = "armed"]

RearmOverdue(s) ==
  /\ scan[s].row # "none"
  /\ permit' = [permit EXCEPT ![scan[s].row] = Rearmed(@)]
  /\ scan' = [scan EXCEPT ![s].row = "none"]
  /\ UNCHANGED <<grant, codes, req, hist>>

(* A notification or an update that throws ends the scan. *)
ScanFails(s) ==
  /\ scan[s] # ScanIdle
  /\ scan' = [scan EXCEPT ![s] = ScanIdle]
  /\ UNCHANGED <<permit, grant, codes, req, hist>>

-----------------------------------------------------------------------------
(* Time and the process *)

TimerElapses(p) ==
  /\ Exists(p) /\ permit[p].due = "armed"
  /\ permit' = [permit EXCEPT ![p].due = "elapsed"]
  /\ UNCHANGED <<grant, codes, req, scan, hist>>

ValidityEnds(p) ==
  /\ Exists(p) /\ ~permit[p].lapsed
  /\ permit' = [permit EXCEPT ![p].lapsed = TRUE]
  /\ UNCHANGED <<grant, codes, req, scan, hist>>

Served == {req[r].permit : r \in {s \in Request : req[s] # Idle}}

Restart ==
  /\ Served # {} \/ \E s \in Scan : scan[s] # ScanIdle
  /\ req' = [r \in Request |-> Idle]
  /\ scan' = [s \in Scan |-> ScanIdle]
  /\ permit' = [p \in Permit |->
       IF p \in Served /\ permit[p] = Unborn THEN Cut ELSE permit[p]]
  /\ hist' = [hist EXCEPT !.broken = @ \cup Served]
  /\ UNCHANGED <<grant, codes>>

Handle(r) ==
  \/ \E p \in Permit :
       \/ \E st \in {"PENDING", "ACTIVE"}, multi \in BOOLEAN : StartGenerate(r, p, st, multi)
       \/ StartGenerateWorker(r, p)
       \/ StartApprove(r, p) \/ StartReject(r, p) \/ StartRevoke(r, p)
  \/ \E p \in Scanned : StartMark(r, p) \/ StartCheckIn(r, p) \/ StartCheckOut(r, p)
  \/ CreateGrant(r) \/ CreateCode(r) \/ InsertPermit(r)
  \/ GrantRefused(r) \/ GenerateFails(r) \/ TakeBackGrant(r) \/ TakeBackFails(r)
  \/ IssueCode(r) \/ Activate(r) \/ CommitReject(r) \/ CommitRevoke(r)
  \/ CommitMark(r) \/ CommitCheckIn(r) \/ CommitCheckOut(r)
  \/ HandlerFails(r)

Next ==
  \/ \E r \in Request : Handle(r)
  \/ \E scope \in SUBSET Permit : ListQrCodes(scope)
  \/ \E p \in Permit : TimerElapses(p) \/ ValidityEnds(p)
  \/ \E s \in Scan : \/ StartScan(s) \/ RearmOverdue(s) \/ ScanFails(s)
                     \/ \E p \in Permit : NotifyOverdue(s, p)
  \/ Restart

(* Time passes, the cron fires again and again, and an alert that can be    *)
(* tried again and again is at some time sent: neither the send nor the     *)
(* update after it fails forever.  Nothing is assumed of requests.          *)
Fairness ==
  /\ WF_vars(\E s \in Scan : StartScan(s))
  /\ \A p \in Permit : WF_vars(TimerElapses(p))
  /\ \A s \in Scan : /\ SF_vars(RearmOverdue(s))
                     /\ \A p \in Permit : SF_vars(NotifyOverdue(s, p))

Spec == Init /\ [][Next]_vars /\ Fairness
-----------------------------------------------------------------------------
(* Properties *)

HistOK ==
  hist \in [unseen : SUBSET Permit, unchecked : SUBSET Permit,
            broken : SUBSET Permit, reopened : SUBSET Permit]

(* Every variable stays in its type. *)
TypeOK ==
  /\ permit \in [Permit -> PermitRow \cup {Unborn} \cup Dead]
  /\ grant \subseteq Permit
  /\ codes \in [Permit -> 0 .. CountBound]
  /\ req \in [Request -> ReqState]
  /\ scan \in [Scan -> [rows : SUBSET Permit, row : Permit \cup {"none"}]]
  /\ HistOK

Ended == {"USED", "CANCELLED", "EXPIRED"}

(* A used, rejected or expired permit changes its status again only by a    *)
(* handler that had read the permit before it ended: every handler but      *)
(* check-out tests the status it reads, and none tests it when it writes.   *)
EndedUndoneOnlyLate ==
  [][\A p \in Permit :
       permit[p].status \in Ended /\ permit'[p].status # permit[p].status =>
         \E r \in Serving(p) : req[r].saw \notin Ended]_vars

(* markQrCodeUsed counts a scan without testing the status again, so racing *)
(* scans may each let a single-use permit in; but its scans, with those     *)
(* still to be counted, are never more than the requests served at the same *)
(* time, and with one at a time it is one.  Only a permit that a late       *)
(* activation or revocation took out of its end may be scanned again.       *)
UseBound ==
  \A p \in Permit \ hist.reopened :
    Exists(p) /\ ~permit[p].multi =>
      permit[p].scans + Cardinality(Doing(p, "mark")) <= Cardinality(Request)

Live(p) == permit[p].status = "ACTIVE" /\ ~permit[p].lapsed

(* QR_ENFORCE_SINGLE_ACTIVE: of two live permits of a type, one was stored  *)
(* while another creation was past its look for other permits, or came by a *)
(* path that does not look: an approval of a worker permit, or              *)
(* generateWorkerQr.                                                        *)
SingleActive ==
  EnforceSingle =>
    \A p, q \in Permit \ (hist.unseen \cup hist.unchecked) :
      p # q /\ SameType(p, q) => ~(Live(p) /\ Live(q))

(* What a permit rests on outside its row, whatever overlaps.  A row has    *)
(* its grant.  A grant without a row is left by a restart, or by a creation *)
(* whose compensation failed as well, and by nothing else.  A permit that   *)
(* was activated has a HikCentral code; unless a call about it broke off,   *)
(* it has no more codes than approvals can race for, and a permit nobody    *)
(* has decided on has none.                                                 *)
PermitBacked ==
  \A p \in Permit :
    /\ Exists(p) => p \in grant
    /\ Serving(p) = {} /\ p \in grant => Exists(p) \/ permit[p] \in {Orphaned, Cut}
    /\ permit[p].status \in {"ACTIVE", "REVOKED", "EXPIRED"} => codes[p] >= 1
    /\ p \notin hist.broken =>
         /\ codes[p] + Cardinality(Doing(p, "approve")) <= Cardinality(Request)
         /\ permit[p].status = "PENDING" /\ Serving(p) = {} => codes[p] = 0

Presence(p) == IF Exists(p) THEN permit[p].presence ELSE "never"

(* A visitor who is inside is reported, again and again, until he leaves or *)
(* is checked in once more, which puts the hour off: a scan that breaks off *)
(* in the middle, or a restart, delays the alert and loses none.            *)
VisitorChased ==
  \A p \in Permit :
    Presence(p) = "inside" ~> \/ \E s \in Scan : scan[s].row = p
                              \/ Presence(p) = "left"
                              \/ \E r \in Serving(p) : req[r].op = "enter"
===============================================================================
