--------------------------- MODULE GateAccess_proofs ---------------------------
(***************************************************************************)
(* Theorems about GateAccess, for all sets of permits and requests and      *)
(* every bound.                                                             *)
(*                                                                          *)
(* Every step is of one of twelve kinds (StepKinds); the invariants are     *)
(* preserved kind by kind.                                                  *)
(***************************************************************************)
EXTENDS GateAccess, FiniteSetTheorems, TLAPS

Generating == {"grant", "code", "insert", "undo"}
Handling == {"approve", "activate", "reject", "mark", "enter", "leave", "revoke"}

(* A creation works on an id nobody else uses; every other call and the     *)
(* overdue scan on a permit that is stored.                                 *)
CreationOk(r) ==
  req[r].op \in Generating =>
    permit[req[r].permit] = Unborn /\ Serving(req[r].permit) = {r}

HandlerOk(r) == req[r].op \in Handling => Exists(req[r].permit)

ScanState ==
  {x \in [rows : SUBSET {p \in Permit : Exists(p)}, row : Permit \cup {"none"}] :
     x.row # "none" => Exists(x.row)}

ScanOk == scan \in [Scan -> ScanState]

RefsOk == (\A r \in Request : CreationOk(r) /\ HandlerOk(r)) /\ ScanOk

Shape == TypeOK /\ RefsOk

-----------------------------------------------------------------------------
(* Rows and requests *)

LEMMA StateOfRequest ==
  ASSUME NEW q \in ReqState
  PROVE  /\ q.op \in Generating =>
              q \in [op : Generating, permit : Permit, as : {"PENDING", "ACTIVE"},
                     multi : BOOLEAN]
         /\ q.op \in Handling =>
              q \in [op : Handling, permit : Permit, saw : AccessStatus]
         /\ q # Idle => q.op \in Generating \cup Handling /\ q.permit \in Permit
         /\ q.op = "idle" <=> q = Idle
BY DEF ReqState, Generating, Handling, Idle

LEMMA Stored ==
  ASSUME TypeOK, NEW p \in Permit
  PROVE  Exists(p) <=> permit[p] \in PermitRow
BY DEF TypeOK, Exists, PermitRow, Unborn, Dead, Failed, Orphaned, Cut, AccessStatus

LEMMA CappedBound ==
  ASSUME NEW n \in 0 .. CountBound
  PROVE  /\ Capped(n + 1) \in 0 .. CountBound
         /\ Capped(n + 1) >= n
         /\ Capped(n + 1) >= 1
         /\ n = 0 => Capped(n + 1) = 1
BY BoundAssumption DEF Capped

-----------------------------------------------------------------------------
(* The kinds of steps *)

(* A handler other than a creation reads a permit. *)
Reads(r, p, op) ==
  /\ op \in Handling \ {"activate"}
  /\ Read(r, op, p)
  /\ op \in {"approve", "reject"} => permit[p].status = "PENDING"
  /\ op = "revoke" => permit[p].status = "ACTIVE"
  /\ op = "mark" => permit[p].status \notin MarkRefuses

(* The row a handler writes in place of `old'. *)
Writes(op, old, row) ==
  /\ row \in PermitRow
  /\ row.multi = old.multi /\ row.lapsed = old.lapsed
  /\ row.scans = IF op = "mark" THEN Capped(old.scans + 1) ELSE old.scans
  /\ row.status =
       CASE op = "activate" -> "ACTIVE"
         [] op = "reject" -> "CANCELLED"
         [] op = "revoke" -> "REVOKED"
         [] op = "mark" -> IF old.multi THEN old.status ELSE "USED"
         [] OTHER -> old.status

Commits(r) ==
  /\ req[r].op \in Handling \ {"approve"}
  /\ \E row \in PermitRow :
       /\ Writes(req[r].op, permit[req[r].permit], row)
       /\ permit' = [permit EXCEPT ![req[r].permit] = row]
  /\ Finish(r)
  /\ HistOK'
  /\ hist'.unseen = hist.unseen /\ hist'.broken = hist.broken
  /\ hist'.unchecked = hist.unchecked \cup {p \in {req[r].permit} : req[r].op = "activate"}
  /\ hist'.reopened =
       hist.reopened \cup {p \in Reopened(r) : req[r].op \in {"activate", "revoke"}}
  /\ UNCHANGED <<grant, codes, scan>>

(* A creation that failed ends, with its grant taken back or not. *)
Ends(r) == GrantRefused(r) \/ TakeBackGrant(r) \/ TakeBackFails(r)

Codes(r) == CreateCode(r) \/ IssueCode(r)

(* Time, the overdue scan and the expiry of lapsed permits change no more   *)
(* of a stored row than this.                                               *)
Older(old, row) ==
  /\ row \in PermitRow
  /\ row.multi = old.multi /\ row.scans = old.scans
  /\ old.lapsed => row.lapsed
  /\ row.status # old.status => old.status = "ACTIVE" /\ row.status = "EXPIRED"

Ages ==
  /\ permit' \in [Permit -> PermitRow \cup {Unborn} \cup Dead]
  /\ \A p \in Permit : permit'[p] # permit[p] => Exists(p) /\ Older(permit[p], permit'[p])
  /\ scan' \in [Scan -> ScanState]
  /\ UNCHANGED <<grant, codes, req, hist>>

StepKind(r) ==
  \/ \E p \in Permit, op \in Handling : Reads(r, p, op)
  \/ \E p \in Permit, st \in {"PENDING", "ACTIVE"}, multi \in BOOLEAN :
       StartGenerate(r, p, st, multi)
  \/ \E p \in Permit : StartGenerateWorker(r, p)
  \/ CreateGrant(r) \/ Codes(r) \/ GenerateFails(r) \/ InsertPermit(r) \/ Ends(r)
  \/ Commits(r) \/ HandlerFails(r)

LEMMA CommitKinds ==
  ASSUME Shape, NEW r \in Request,
         \/ Activate(r) \/ CommitReject(r) \/ CommitRevoke(r)
         \/ CommitMark(r) \/ CommitCheckIn(r) \/ CommitCheckOut(r)
  PROVE  Commits(r)
<1>. DEFINE p == req[r].permit
            old == permit[p]
<1>h. hist \in [unseen : SUBSET Permit, unchecked : SUBSET Permit,
                broken : SUBSET Permit, reopened : SUBSET Permit]
  BY DEF Shape, TypeOK, HistOK
<1>1. req[r].op \in Handling \ {"approve"}
  BY DEF Activate, CommitReject, CommitRevoke, CommitMark, CommitCheckIn,
         CommitCheckOut, Handling
<1>2. req[r] \in ReqState /\ p \in Permit /\ old \in PermitRow
  <2>1. req[r] \in ReqState
    BY DEF Shape, TypeOK
  <2>2. req[r] \in [op : Handling, permit : Permit, saw : AccessStatus]
    BY <1>1, <2>1, StateOfRequest
  <2>3. Exists(p)
    BY <1>1 DEF Shape, RefsOk, CreationOk, HandlerOk, ScanOk
  <2>. QED
    BY <2>1, <2>2, <2>3, Stored DEF Shape
<1>3. permit \in [Permit -> PermitRow \cup {Unborn} \cup Dead]
  BY DEF Shape, TypeOK
<1>4. ASSUME NEW row, Writes(req[r].op, old, row), permit' = [permit EXCEPT ![p] = row]
      PROVE  \E w \in PermitRow :
               Writes(req[r].op, old, w) /\ permit' = [permit EXCEPT ![p] = w]
  BY <1>4 DEF Writes
<1>5. CASE Activate(r)
  <2>1. Writes(req[r].op, old, [old EXCEPT !.status = "ACTIVE"])
    BY <1>2, <1>5 DEF Activate, Writes, PermitRow, AccessStatus
  <2>2. permit' = [permit EXCEPT ![p] = [old EXCEPT !.status = "ACTIVE"]]
    BY <1>3, <1>5 DEF Activate
  <2>h. /\ HistOK'
        /\ hist'.unseen = hist.unseen /\ hist'.broken = hist.broken
        /\ hist'.unchecked = hist.unchecked \cup {k \in {p} : req[r].op = "activate"}
        /\ hist'.reopened =
             hist.reopened \cup {k \in Reopened(r) : req[r].op \in {"activate", "revoke"}}
    BY <1>h, <1>2, <1>5 DEF HistOK, Activate, Reopened
  <2>. QED
    BY <1>1, <1>4, <1>5, <2>h, <2>1, <2>2 DEF Activate, Commits
<1>6. CASE CommitReject(r)
  <2>1. Writes(req[r].op, old, [old EXCEPT !.status = "CANCELLED"])
    BY <1>2, <1>6 DEF CommitReject, Writes, PermitRow, AccessStatus
  <2>2. permit' = [permit EXCEPT ![p] = [old EXCEPT !.status = "CANCELLED"]]
    BY <1>3, <1>6 DEF CommitReject
  <2>h. /\ HistOK'
        /\ hist'.unseen = hist.unseen /\ hist'.broken = hist.broken
        /\ hist'.unchecked = hist.unchecked \cup {k \in {p} : req[r].op = "activate"}
        /\ hist'.reopened =
             hist.reopened \cup {k \in Reopened(r) : req[r].op \in {"activate", "revoke"}}
    BY <1>h, <1>6 DEF HistOK, CommitReject
  <2>. QED
    BY <1>1, <1>4, <1>6, <2>h, <2>1, <2>2 DEF CommitReject, Commits
<1>7. CASE CommitRevoke(r)
  <2>1. Writes(req[r].op, old, [old EXCEPT !.status = "REVOKED"])
    BY <1>2, <1>7 DEF CommitRevoke, Writes, PermitRow, AccessStatus
  <2>2. permit' = [permit EXCEPT ![p] = [old EXCEPT !.status = "REVOKED"]]
    BY <1>3, <1>7 DEF CommitRevoke
  <2>h. /\ HistOK'
        /\ hist'.unseen = hist.unseen /\ hist'.broken = hist.broken
        /\ hist'.unchecked = hist.unchecked \cup {k \in {p} : req[r].op = "activate"}
        /\ hist'.reopened =
             hist.reopened \cup {k \in Reopened(r) : req[r].op \in {"activate", "revoke"}}
    BY <1>h, <1>2, <1>7 DEF HistOK, CommitRevoke, Reopened
  <2>. QED
    BY <1>1, <1>4, <1>7, <2>h, <2>1, <2>2 DEF CommitRevoke, Commits
<1>8. CASE CommitMark(r)
  <2>1. Capped(old.scans + 1) \in 0 .. CountBound
    BY <1>2, CappedBound DEF PermitRow
  <2>2. Writes(req[r].op, old, Marked(old))
    BY <1>2, <1>8, <2>1 DEF CommitMark, Marked, Writes, PermitRow, AccessStatus
  <2>3. permit' = [permit EXCEPT ![p] = Marked(old)]
    BY <1>3, <1>8 DEF CommitMark
  <2>h. /\ HistOK'
        /\ hist'.unseen = hist.unseen /\ hist'.broken = hist.broken
        /\ hist'.unchecked = hist.unchecked \cup {k \in {p} : req[r].op = "activate"}
        /\ hist'.reopened =
             hist.reopened \cup {k \in Reopened(r) : req[r].op \in {"activate", "revoke"}}
    BY <1>h, <1>8 DEF HistOK, CommitMark
  <2>. QED
    BY <1>1, <1>4, <1>8, <2>h, <2>2, <2>3 DEF CommitMark, Commits
<1>9. CASE CommitCheckIn(r)
  <2>1. Writes(req[r].op, old, [old EXCEPT !.presence = "inside", !.due = "armed"])
    BY <1>2, <1>9 DEF CommitCheckIn, Writes, PermitRow, AccessStatus
  <2>2. permit' = [permit EXCEPT ![p] = [old EXCEPT !.presence = "inside", !.due = "armed"]]
    BY <1>2, <1>3, <1>9 DEF CommitCheckIn
  <2>h. /\ HistOK'
        /\ hist'.unseen = hist.unseen /\ hist'.broken = hist.broken
        /\ hist'.unchecked = hist.unchecked \cup {k \in {p} : req[r].op = "activate"}
        /\ hist'.reopened =
             hist.reopened \cup {k \in Reopened(r) : req[r].op \in {"activate", "revoke"}}
    BY <1>h, <1>9 DEF HistOK, CommitCheckIn
  <2>. QED
    BY <1>1, <1>4, <1>9, <2>h, <2>1, <2>2 DEF CommitCheckIn, Commits
<1>10. CASE CommitCheckOut(r)
  <2>1. Writes(req[r].op, old, [old EXCEPT !.presence = "left", !.due = "none"])
    BY <1>2, <1>10 DEF CommitCheckOut, Writes, PermitRow, AccessStatus
  <2>2. permit' = [permit EXCEPT ![p] = [old EXCEPT !.presence = "left", !.due = "none"]]
    BY <1>2, <1>3, <1>10 DEF CommitCheckOut
  <2>h. /\ HistOK'
        /\ hist'.unseen = hist.unseen /\ hist'.broken = hist.broken
        /\ hist'.unchecked = hist.unchecked \cup {k \in {p} : req[r].op = "activate"}
        /\ hist'.reopened =
             hist.reopened \cup {k \in Reopened(r) : req[r].op \in {"activate", "revoke"}}
    BY <1>h, <1>10 DEF HistOK, CommitCheckOut
  <2>. QED
    BY <1>1, <1>4, <1>10, <2>h, <2>1, <2>2 DEF CommitCheckOut, Commits
<1>. QED
  BY <1>5, <1>6, <1>7, <1>8, <1>9, <1>10

LEMMA AgeKinds ==
  ASSUME Shape,
         \/ \E scope \in SUBSET Permit : ListQrCodes(scope)
         \/ \E p \in Permit : TimerElapses(p) \/ ValidityEnds(p)
         \/ \E s \in Scan : \/ StartScan(s) \/ RearmOverdue(s) \/ ScanFails(s)
                            \/ \E p \in Permit : NotifyOverdue(s, p)
         \/ UNCHANGED vars
  PROVE  Ages
<1>1. permit \in [Permit -> PermitRow \cup {Unborn} \cup Dead]
  BY DEF Shape, TypeOK
<1>2. \A p \in Permit : Exists(p) => permit[p] \in PermitRow
  BY Stored DEF Shape
<1>3. scan \in [Scan -> ScanState]
  BY DEF Shape, TypeOK, RefsOk, CreationOk, HandlerOk, ScanOk
<1>4. CASE permit' = permit /\ UNCHANGED scan /\ UNCHANGED <<grant, codes, req, hist>>
  BY <1>1, <1>3, <1>4 DEF Ages, Exists
<1>5. CASE \E scope \in SUBSET Permit : ListQrCodes(scope)
  <2>1. PICK scope \in SUBSET Permit : ListQrCodes(scope)
    BY <1>5
  <2>2. \A p \in Permit :
          permit'[p] = IF p \in scope /\ ExpiresLapsed(p)
                       THEN [permit[p] EXCEPT !.status = "EXPIRED"] ELSE permit[p]
    BY <2>1 DEF ListQrCodes
  <2>3. ASSUME NEW p \in Permit, permit'[p] # permit[p]
        PROVE  Exists(p) /\ Older(permit[p], permit'[p])
    <3>1. permit[p].status = "ACTIVE" /\ permit'[p] = [permit[p] EXCEPT !.status = "EXPIRED"]
      BY <2>2, <2>3 DEF ExpiresLapsed
    <3>2. Exists(p) /\ permit[p] \in PermitRow
      BY <1>2, <3>1 DEF Exists, AccessStatus
    <3>. QED
      BY <3>1, <3>2 DEF Older, PermitRow, AccessStatus
  <2>4. permit' \in [Permit -> PermitRow \cup {Unborn} \cup Dead]
    <3>1. permit' = [p \in Permit |-> permit'[p]]
      BY <2>1 DEF ListQrCodes
    <3>2. \A p \in Permit : permit'[p] \in PermitRow \cup {Unborn} \cup Dead
      BY <1>1, <2>3 DEF Older
    <3>. QED
      BY <3>1, <3>2
  <2>. QED
    BY <1>3, <2>1, <2>3, <2>4 DEF ListQrCodes, Ages, Exists
<1>6. ASSUME NEW p \in Permit, TimerElapses(p) \/ ValidityEnds(p)
      PROVE  Ages
  <2>1. Exists(p) /\ permit[p] \in PermitRow
    BY <1>2, <1>6 DEF TimerElapses, ValidityEnds
  <2>2. PICK row : permit' = [permit EXCEPT ![p] = row] /\ Older(permit[p], row)
    <3>1. CASE TimerElapses(p)
      <4>1. permit' = [permit EXCEPT ![p] = [permit[p] EXCEPT !.due = "elapsed"]]
        BY <1>1, <3>1 DEF TimerElapses
      <4>2. Older(permit[p], [permit[p] EXCEPT !.due = "elapsed"])
        BY <2>1 DEF Older, PermitRow
      <4>. QED
        BY <4>1, <4>2
    <3>2. CASE ValidityEnds(p)
      <4>1. permit' = [permit EXCEPT ![p] = [permit[p] EXCEPT !.lapsed = TRUE]]
        BY <1>1, <3>2 DEF ValidityEnds
      <4>2. Older(permit[p], [permit[p] EXCEPT !.lapsed = TRUE])
        BY <2>1 DEF Older, PermitRow
      <4>. QED
        BY <4>1, <4>2
    <3>. QED
      BY <1>6, <3>1, <3>2
  <2>3. UNCHANGED <<grant, codes, req, scan, hist>>
    BY <1>6 DEF TimerElapses, ValidityEnds
  <2>. QED
    BY <1>1, <1>3, <2>1, <2>2, <2>3 DEF Ages, Older, Exists
<1>7. ASSUME NEW c \in Scan, RearmOverdue(c)
      PROVE  Ages
  <2>. DEFINE p == scan[c].row
  <2>0. scan[c] \in ScanState
    BY <1>3
  <2>1. p \in Permit /\ Exists(p) /\ permit[p] \in PermitRow
    BY <1>2, <1>7, <2>0 DEF RearmOverdue, ScanState
  <2>2. permit' = [permit EXCEPT ![p] = Rearmed(permit[p])]
    BY <1>1, <1>7, <2>1 DEF RearmOverdue
  <2>3. Older(permit[p], Rearmed(permit[p]))
    BY <2>1 DEF Older, Rearmed, PermitRow
  <2>4. [scan[c] EXCEPT !.row = "none"] \in ScanState
    BY <2>0 DEF ScanState
  <2>5. scan' \in [Scan -> ScanState]
    BY <1>3, <1>7, <2>4 DEF RearmOverdue
  <2>6. UNCHANGED <<grant, codes, req, hist>>
    BY <1>7 DEF RearmOverdue
  <2>. HIDE DEF p
  <2>. QED
    BY <1>1, <2>1, <2>2, <2>3, <2>5, <2>6 DEF Ages, Older
<1>8. ASSUME NEW c \in Scan, StartScan(c) \/ ScanFails(c) \/ \E p \in Permit : NotifyOverdue(c, p)
      PROVE  Ages
  <2>1. permit' = permit /\ UNCHANGED <<grant, codes, req, hist>>
    BY <1>8 DEF StartScan, ScanFails, NotifyOverdue
  <2>2. scan' \in [Scan -> ScanState]
    <3>0. scan[c] \in ScanState
      BY <1>3
    <3>1. CASE StartScan(c)
      <4>1. [scan[c] EXCEPT !.rows = {p \in Permit : IsOverdue(p)}] \in ScanState
        BY <3>0 DEF ScanState, IsOverdue
      <4>. QED
        BY <1>3, <3>1, <4>1 DEF StartScan
    <3>2. CASE ScanFails(c)
      <4>1. ScanIdle \in ScanState
        BY DEF ScanIdle, ScanState
      <4>. QED
        BY <1>3, <3>2, <4>1 DEF ScanFails
    <3>3. CASE \E p \in Permit : NotifyOverdue(c, p)
      <4>1. PICK p \in Permit : NotifyOverdue(c, p)
        BY <3>3
      <4>2. [rows |-> scan[c].rows \ {p}, row |-> p] \in ScanState
        BY <3>0, <4>1 DEF NotifyOverdue, ScanState
      <4>. QED
        BY <1>3, <4>1, <4>2 DEF NotifyOverdue
    <3>. QED
      BY <1>8, <3>1, <3>2, <3>3
  <2>. QED
    BY <1>1, <2>1, <2>2 DEF Ages
<1>. QED
  BY <1>4, <1>5, <1>6, <1>7, <1>8 DEF vars

(* Every step is of one of the kinds. *)
LEMMA StepKinds ==
  ASSUME Shape, [Next]_vars
  PROVE  Ages \/ Restart \/ \E r \in Request : StepKind(r)
<1>1. CASE \E r \in Request : Handle(r)
  <2>1. PICK r \in Request : Handle(r)
    BY <1>1
  <2>2. ASSUME NEW p \in Permit,
               \/ StartApprove(r, p) \/ StartReject(r, p) \/ StartRevoke(r, p)
               \/ StartMark(r, p) \/ StartCheckIn(r, p) \/ StartCheckOut(r, p)
        PROVE  \E op \in Handling : Reads(r, p, op)
    <3>1. CASE StartApprove(r, p)
      BY <3>1 DEF StartApprove, Reads, Handling, Reviewable
    <3>2. CASE StartReject(r, p)
      BY <3>2 DEF StartReject, Reads, Handling, Reviewable
    <3>3. CASE StartRevoke(r, p)
      BY <3>3 DEF StartRevoke, Reads, Handling
    <3>4. CASE StartMark(r, p)
      BY <3>4 DEF StartMark, Reads, Handling
    <3>5. CASE StartCheckIn(r, p)
      BY <3>5 DEF StartCheckIn, Reads, Handling
    <3>6. CASE StartCheckOut(r, p)
      BY <3>6 DEF StartCheckOut, Reads, Handling
    <3>. QED
      BY <2>2, <3>1, <3>2, <3>3, <3>4, <3>5, <3>6
  <2>3. Scanned \subseteq Permit
    BY PermitAssumption
  <2>4. StepKind(r)
    BY <2>1, <2>2, <2>3, CommitKinds DEF Handle, StepKind, Codes, Ends
  <2>. QED
    BY <2>4
<1>2. CASE ~\E r \in Request : Handle(r)
  BY <1>2, AgeKinds DEF Next
<1>. QED
  BY <1>1, <1>2
-----------------------------------------------------------------------------
(* What each kind of step changes *)

(* A permit that is stored stays so. *)
LEMMA StoredStays ==
  ASSUME Shape, [Next]_vars, NEW p \in Permit, Exists(p)
  PROVE  Exists(p)'
<1>1. permit[p] \in PermitRow /\ permit[p] # Unborn
  BY Stored DEF Shape, Exists, Unborn, AccessStatus
<1>2. \A row \in PermitRow : row.status \in AccessStatus
  BY DEF PermitRow
<1>3. permit \in [Permit -> PermitRow \cup {Unborn} \cup Dead]
  BY DEF Shape, TypeOK
<1>4. CASE Ages
  BY <1>1, <1>2, <1>4 DEF Ages, Older, Exists
<1>5. CASE Restart
  BY <1>1, <1>5 DEF Restart, Exists
<1>6. ASSUME NEW r \in Request, InsertPermit(r) \/ Ends(r)
      PROVE  Exists(p)'
  <2>1. req[r].op \in Generating
    BY <1>6 DEF InsertPermit, Ends, GrantRefused, TakeBackGrant, TakeBackFails, Generating
  <2>2. req[r].permit # p
    BY <1>1, <2>1 DEF Shape, RefsOk, CreationOk, HandlerOk, ScanOk
  <2>3. permit'[p] = permit[p]
    BY <1>3, <1>6, <2>2 DEF InsertPermit, Ends, GrantRefused, TakeBackGrant, TakeBackFails
  <2>. QED
    BY <2>3 DEF Exists
<1>7. ASSUME NEW r \in Request, Commits(r)
      PROVE  Exists(p)'
  <2>1. PICK row \in PermitRow : permit' = [permit EXCEPT ![req[r].permit] = row]
    BY <1>7 DEF Commits
  <2>. QED
    BY <1>2, <1>3, <2>1 DEF Exists
<1>8. ASSUME NEW r \in Request, StepKind(r)
      PROVE  Exists(p)'
  <2>1. CASE UNCHANGED permit
    BY <2>1 DEF Exists
  <2>2. CASE InsertPermit(r) \/ Ends(r) \/ Commits(r)
    BY <1>6, <1>7, <2>2
  <2>. QED
    BY <1>8, <2>1, <2>2 DEF StepKind, Reads, Read, StartGenerate, StartGenerateWorker,
       CreateGrant, Codes, CreateCode, IssueCode, GenerateFails, HandlerFails
<1>. QED
  BY <1>4, <1>5, <1>8, StepKinds
LEMMA CallFacts ==
  ASSUME Shape, NEW r \in Request
  PROVE  /\ req[r] \in ReqState
         /\ req[r].op \in Generating =>
              /\ req[r].permit \in Permit /\ req[r].as \in {"PENDING", "ACTIVE"}
              /\ req[r].multi \in BOOLEAN
              /\ req[r] \in [op : Generating, permit : Permit, as : {"PENDING", "ACTIVE"},
                             multi : BOOLEAN]
         /\ req[r].op \in Handling =>
              /\ req[r].permit \in Permit /\ req[r].saw \in AccessStatus
              /\ req[r] \in [op : Handling, permit : Permit, saw : AccessStatus]
         /\ req[r] # Idle <=> req[r].op \in Generating \cup Handling
<1>1. req[r] \in ReqState
  BY DEF Shape, TypeOK
<1>. QED
  BY <1>1, StateOfRequest DEF Generating, Handling, Idle

(* One call moves on, and the others stay where they are. *)
OnlyCall(r) ==
  /\ req' \in [Request -> ReqState]
  /\ \A s \in Request \ {r} : req'[s] = req[s]

LEMMA OneCall ==
  ASSUME Shape, NEW r \in Request, StepKind(r)
  PROVE  OnlyCall(r)
<1>. DEFINE q == req[r]
<1>t. req \in [Request -> ReqState] /\ q \in ReqState
  BY DEF Shape, TypeOK
<1>i. Idle \in ReqState
  BY DEF ReqState
<1>1. ASSUME NEW x \in ReqState, req' = [req EXCEPT ![r] = x]
      PROVE  OnlyCall(r)
  BY <1>t, <1>1 DEF OnlyCall
<1>2. ASSUME NEW p \in Permit, NEW op \in Handling, Reads(r, p, op)
      PROVE  OnlyCall(r)
  <2>1. permit[p].status \in AccessStatus
    BY <1>2 DEF Reads, Read, Exists
  <2>2. [op |-> op, permit |-> p, saw |-> permit[p].status] \in ReqState
    BY <1>2, <2>1 DEF ReqState, Handling
  <2>. QED
    BY <1>1, <1>2, <2>2 DEF Reads, Read, Begin
<1>3. ASSUME NEW p \in Permit, NEW st \in {"PENDING", "ACTIVE"}, NEW multi \in BOOLEAN,
             \/ StartGenerate(r, p, st, multi)
             \/ (StartGenerateWorker(r, p) /\ st = "ACTIVE" /\ multi = FALSE)
      PROVE  OnlyCall(r)
  <2>1. [op |-> "grant", permit |-> p, as |-> st, multi |-> multi] \in ReqState
    BY DEF ReqState
  <2>2. req' = [req EXCEPT ![r] = [op |-> "grant", permit |-> p, as |-> st, multi |-> multi]]
    BY <1>3 DEF StartGenerate, StartGenerateWorker, Begin
  <2>. QED
    BY <1>1, <2>1, <2>2
<1>4. ASSUME NEW op \in {"code", "insert", "undo", "activate"}, Advance(r, op),
             (q.op \in Generating /\ op # "activate") \/ (q.op \in Handling /\ op = "activate")
      PROVE  OnlyCall(r)
  <2>1. [q EXCEPT !.op = op] \in ReqState
    BY <1>4, CallFacts DEF ReqState, Generating, Handling
  <2>2. req' = [req EXCEPT ![r] = [q EXCEPT !.op = op]]
    BY <1>t, <1>4 DEF Advance
  <2>. QED
    BY <1>1, <2>1, <2>2
<1>5. CASE CreateGrant(r) \/ GenerateFails(r)
  BY <1>4, <1>5 DEF CreateGrant, GenerateFails, Generating
<1>6. CASE Codes(r)
  BY <1>4, <1>6 DEF Codes, CreateCode, IssueCode, Generating, Handling
<1>7. CASE InsertPermit(r) \/ Ends(r) \/ Commits(r) \/ HandlerFails(r)
  BY <1>1, <1>7, <1>i DEF InsertPermit, Ends, GrantRefused, TakeBackGrant, TakeBackFails, Commits, HandlerFails, Finish
<1>. QED
  BY <1>2, <1>3, <1>5, <1>6, <1>7 DEF StepKind
-----------------------------------------------------------------------------
(* Types and references are preserved *)

LEMMA TypeKept ==
  ASSUME Shape, [Next]_vars
  PROVE  TypeOK'
<1>. USE DEF TypeOK, HistOK
<1>t. TypeOK
  BY DEF Shape
<1>1. CASE Ages
  <2>1. scan' \in [Scan -> [rows : SUBSET Permit, row : Permit \cup {"none"}]]
    BY <1>1 DEF Ages, ScanState
  <2>. QED
    BY <1>t, <1>1, <2>1 DEF Ages
<1>2. CASE Restart
  <2>1. permit' \in [Permit -> PermitRow \cup {Unborn} \cup Dead]
    BY <1>t, <1>2 DEF Restart, Dead
  <2>2. Served \subseteq Permit
    BY CallFacts DEF Shape, Served
  <2>3. HistOK'
    BY <1>t, <1>2, <2>2 DEF Restart
  <2>4. req' \in [Request -> ReqState]
    BY <1>2 DEF Restart, ReqState
  <2>. QED
    BY <1>t, <1>2, <2>1, <2>3, <2>4 DEF Restart, ScanIdle
<1>3. ASSUME NEW r \in Request, StepKind(r)
      PROVE  TypeOK'
  <2>. DEFINE p == req[r].permit
  <2>1. req' \in [Request -> ReqState]
    BY <1>3, OneCall DEF OnlyCall
  <2>2. CASE \/ \E k \in Permit, op \in Handling : Reads(r, k, op)
             \/ \E k \in Permit, st \in {"PENDING", "ACTIVE"}, multi \in BOOLEAN :
                  StartGenerate(r, k, st, multi)
    BY <1>t, <2>1, <2>2 DEF Reads, Read, StartGenerate
  <2>3. CASE \E k \in Permit : StartGenerateWorker(r, k)
    <3>1. HistOK'
      BY <1>t, <2>3 DEF StartGenerateWorker
    <3>. QED
      BY <1>t, <2>1, <2>3, <3>1 DEF StartGenerateWorker
  <2>4. CASE CreateGrant(r)
    <3>1. p \in Permit
      BY <2>4, CallFacts DEF CreateGrant, Generating
    <3>. QED
      BY <1>t, <2>1, <2>4, <3>1 DEF CreateGrant
  <2>5. CASE Codes(r)
    <3>1. p \in Permit /\ codes[p] \in 0 .. CountBound
      BY <1>t, <2>5, CallFacts DEF Codes, CreateCode, IssueCode, Generating, Handling
    <3>2. Capped(codes[p] + 1) \in 0 .. CountBound
      BY <3>1, CappedBound
    <3>3. codes' = [codes EXCEPT ![p] = Capped(codes[p] + 1)]
      BY <1>t, <2>5 DEF Codes, CreateCode, IssueCode
    <3>4. codes' \in [Permit -> 0 .. CountBound]
      BY <1>t, <3>2, <3>3
    <3>. QED
      BY <1>t, <2>1, <2>5, <3>4 DEF Codes, CreateCode, IssueCode
  <2>6. CASE InsertPermit(r)
    <3>1. p \in Permit /\ req[r].as \in {"PENDING", "ACTIVE"} /\ req[r].multi \in BOOLEAN
      BY <2>6, CallFacts DEF InsertPermit, Generating
    <3>2. NewRow(req[r].as, req[r].multi) \in PermitRow
      BY <3>1, BoundAssumption DEF NewRow, PermitRow, AccessStatus
    <3>3. HistOK'
      BY <1>t, <2>6, <3>1 DEF InsertPermit
    <3>. QED
      BY <1>t, <2>1, <2>6, <3>2, <3>3 DEF InsertPermit
  <2>7. CASE Ends(r)
    <3>1. p \in Permit
      BY <2>7, CallFacts DEF Ends, GrantRefused, TakeBackGrant, TakeBackFails, Generating
    <3>2. HistOK'
      BY <1>t, <2>7, <3>1 DEF Ends, GrantRefused, TakeBackGrant, TakeBackFails
    <3>3. permit' \in [Permit -> PermitRow \cup {Unborn} \cup Dead]
      BY <1>t, <2>7, <3>1 DEF Ends, GrantRefused, TakeBackGrant, TakeBackFails, Dead
    <3>4. grant' \subseteq Permit /\ codes' = codes /\ scan' = scan
      BY <1>t, <2>7 DEF Ends, GrantRefused, TakeBackGrant, TakeBackFails
    <3>. QED
      BY <1>t, <2>1, <3>2, <3>3, <3>4
  <2>8. CASE Commits(r)
    <3>1. p \in Permit
      BY <2>8, CallFacts DEF Commits
    <3>2. HistOK'
      BY <2>8 DEF Commits
    <3>3. PICK row \in PermitRow : permit' = [permit EXCEPT ![p] = row]
      BY <2>8 DEF Commits
    <3>4. permit' \in [Permit -> PermitRow \cup {Unborn} \cup Dead]
      BY <1>t, <3>3
    <3>. QED
      BY <1>t, <2>1, <2>8, <3>2, <3>4 DEF Commits
  <2>9. CASE HandlerFails(r) \/ GenerateFails(r)
    <3>1. p \in Permit
      BY <2>9, CallFacts DEF HandlerFails, GenerateFails, Generating
    <3>2. HistOK'
      BY <1>t, <2>9, <3>1 DEF HandlerFails, GenerateFails
    <3>. QED
      BY <1>t, <2>1, <2>9, <3>2 DEF HandlerFails, GenerateFails
  <2>. QED
    BY <1>3, <2>2, <2>3, <2>4, <2>5, <2>6, <2>7, <2>8, <2>9 DEF StepKind
<1>. QED
  BY <1>1, <1>2, <1>3, StepKinds

(* A creation that goes on, or an approval that has got its code. *)
Goes(r) == CreateGrant(r) \/ CreateCode(r) \/ GenerateFails(r)

LEMMA AdvanceFacts ==
  ASSUME Shape, NEW r \in Request, Goes(r) \/ IssueCode(r)
  PROVE  /\ req[r] # Idle /\ req'[r] # Idle
         /\ req[r].permit \in Permit /\ req'[r].permit = req[r].permit
         /\ permit' = permit
         /\ hist'.unseen = hist.unseen /\ hist'.unchecked = hist.unchecked
         /\ hist'.reopened = hist.reopened
         /\ ~GenerateFails(r) => hist' = hist
         /\ Goes(r) => /\ req[r].op \in Generating
                       /\ req'[r].op \in {"code", "insert", "undo"}
                       /\ req'[r].as = req[r].as
         /\ IssueCode(r) => req'[r].saw = req[r].saw /\ req'[r].op = "activate"
<1>t. /\ req \in [Request -> ReqState]
      /\ hist \in [unseen : SUBSET Permit, unchecked : SUBSET Permit,
                   broken : SUBSET Permit, reopened : SUBSET Permit]
  BY DEF Shape, TypeOK, HistOK
<1>1. CASE Goes(r)
  <2>1. req[r].op \in {"grant", "code", "insert"}
    BY <1>1 DEF Goes, CreateGrant, CreateCode, GenerateFails
  <2>2. PICK op \in {"code", "insert", "undo"} : req'[r] = [req[r] EXCEPT !.op = op]
    BY <1>t, <1>1 DEF Goes, CreateGrant, CreateCode, GenerateFails, Advance
  <2>3. req[r] \in [op : Generating, permit : Permit, as : {"PENDING", "ACTIVE"}, multi : BOOLEAN]
    BY <2>1, CallFacts DEF Generating
  <2>4. ~IssueCode(r)
    BY <2>1 DEF IssueCode
  <2>5. /\ permit' = permit
        /\ hist'.unseen = hist.unseen /\ hist'.unchecked = hist.unchecked
        /\ hist'.reopened = hist.reopened
        /\ ~GenerateFails(r) => hist' = hist
    BY <1>t, <1>1 DEF Goes, CreateGrant, CreateCode, GenerateFails
  <2>. QED
    BY <2>1, <2>2, <2>3, <2>4, <2>5 DEF Idle, Generating
<1>3. CASE IssueCode(r)
  <2>1. req[r].op = "approve"
    BY <1>3 DEF IssueCode
  <2>2. req'[r] = [req[r] EXCEPT !.op = "activate"]
    BY <1>t, <1>3 DEF IssueCode, Advance
  <2>3. req[r] \in [op : Handling, permit : Permit, saw : AccessStatus]
    BY <2>1, CallFacts DEF Handling
  <2>4. ~Goes(r)
    BY <2>1 DEF Goes, CreateGrant, CreateCode, GenerateFails
  <2>. QED
    BY <1>3, <2>1, <2>2, <2>3, <2>4 DEF IssueCode, Idle
<1>. QED
  BY <1>1, <1>3

LEMMA ServingAfter ==
  ASSUME NEW r \in Request, OnlyCall(r), NEW p
  PROVE  Serving(p)' = (Serving(p) \ {r})
                         \cup {s \in {r} : req'[s] # Idle /\ req'[s].permit = p}
BY DEF OnlyCall, Serving

(* No call works on the id of a creation but the one that creates it. *)
LEMMA Apart ==
  ASSUME Shape, NEW r \in Request, NEW s \in Request, r # s,
         req[s].op \in Generating, req[r] # Idle
  PROVE  req[r].permit # req[s].permit
BY DEF Shape, RefsOk, CreationOk, Serving

LEMMA CreationsKept ==
  ASSUME Shape, NEW r \in Request, StepKind(r),
         NEW s \in Request, s # r, req[s].op \in Generating
  PROVE  CreationOk(s)'
<1>1. PICK k \in Permit : permit[k] = Unborn /\ Serving(k) = {s} /\ req[s].permit = k
  BY CallFacts DEF Shape, RefsOk, CreationOk
<1>0. ASSUME permit'[k] = Unborn, Serving(k)' = {s}
      PROVE  CreationOk(s)'
  BY <1>0, <1>1, OneCall DEF OnlyCall, CreationOk
<1>2. permit \in [Permit -> PermitRow \cup {Unborn} \cup Dead]
  BY DEF Shape, TypeOK
<1>3. OnlyCall(r)
  BY OneCall
<1>4. ~Exists(k)
  BY <1>1 DEF Exists, Unborn, AccessStatus
<1>5. ASSUME req'[r] # Idle => req'[r].permit # k
      PROVE  Serving(k)' = {s}
  BY <1>1, <1>3, <1>5, ServingAfter
<1>6. req[r] # Idle => req[r].permit # k
  BY <1>1, Apart
<1>7. req \in [Request -> ReqState]
  BY DEF Shape, TypeOK
<1>8. CASE \E p \in Permit, op \in Handling : Reads(r, p, op)
  <2>1. PICK p \in Permit, op \in Handling : Reads(r, p, op)
    BY <1>8
  <2>2. Exists(p) /\ req'[r].permit = p /\ permit' = permit
    BY <1>7, <2>1 DEF Reads, Read, Begin
  <2>. QED
    BY <1>0, <1>1, <1>4, <1>5, <2>2
<1>9. CASE \/ \E p \in Permit, st \in {"PENDING", "ACTIVE"}, multi \in BOOLEAN :
                StartGenerate(r, p, st, multi)
           \/ \E p \in Permit : StartGenerateWorker(r, p)
  <2>1. PICK p \in Permit : Serving(p) = {} /\ req'[r].permit = p /\ permit' = permit
    BY <1>7, <1>9 DEF StartGenerate, StartGenerateWorker, Begin
  <2>. QED
    BY <1>0, <1>1, <1>5, <2>1
<1>10. CASE Goes(r) \/ IssueCode(r)
  <2>1. req[r] # Idle /\ req'[r].permit = req[r].permit /\ permit' = permit
    BY <1>10, AdvanceFacts
  <2>. QED
    BY <1>0, <1>1, <1>5, <1>6, <2>1
<1>11. CASE InsertPermit(r) \/ Ends(r) \/ Commits(r) \/ HandlerFails(r)
  <2>1. req[r] # Idle /\ req'[r] = Idle
    BY <1>7, <1>11
       DEF InsertPermit, Ends, GrantRefused, TakeBackGrant, TakeBackFails, Commits, HandlerFails, Finish, Idle, Handling
  <2>2. permit'[k] = permit[k]
    <3>1. req[r].permit # k
      BY <1>6, <2>1
    <3>2. CASE Commits(r)
      <4>1. PICK row \in PermitRow : permit' = [permit EXCEPT ![req[r].permit] = row]
        BY <3>2 DEF Commits
      <4>. QED
        BY <1>1, <1>2, <3>1, <4>1
    <3>. QED
      BY <1>1, <1>2, <1>11, <3>1, <3>2 DEF InsertPermit, Ends, GrantRefused, TakeBackGrant, TakeBackFails, HandlerFails
  <2>. QED
    BY <1>0, <1>1, <1>5, <2>1, <2>2
<1>. QED
  BY <1>8, <1>9, <1>10, <1>11 DEF StepKind, Codes, Goes

LEMMA RefsKept ==
  ASSUME Shape, [Next]_vars
  PROVE  RefsOk'
<1>t. req \in [Request -> ReqState] /\ TypeOK /\ RefsOk
  BY DEF Shape, TypeOK
<1>s. \A p \in Permit : Exists(p) => Exists(p)'
  BY StoredStays
<1>k. ASSUME NEW r \in Request, req'[r] = req[r], HandlerOk(r)
      PROVE  HandlerOk(r)'
  <2>1. SUFFICES ASSUME req[r].op \in Handling
                 PROVE  HandlerOk(r)'
    BY <1>k DEF HandlerOk
  <2>2. PICK p \in Permit : req[r].permit = p /\ Exists(p)
    BY <1>k, <2>1, CallFacts DEF HandlerOk
  <2>. QED
    BY <1>k, <1>s, <2>2 DEF HandlerOk
<1>v. ScanState \subseteq ScanState'
  BY <1>s DEF ScanState
<1>1. CASE Ages
  <2>1. ASSUME NEW r \in Request
        PROVE  CreationOk(r)'
    <3>1. SUFFICES ASSUME req[r].op \in Generating
                   PROVE  CreationOk(r)'
      BY <1>1 DEF Ages, CreationOk
    <3>2. PICK p \in Permit :
            req[r].permit = p /\ permit[p] = Unborn /\ Serving(p) = {r}
      BY <1>t, <3>1, CallFacts DEF RefsOk, CreationOk
    <3>3. permit'[p] = Unborn
      BY <1>1, <3>2 DEF Ages, Exists, Unborn, AccessStatus
    <3>. QED
      BY <1>1, <3>2, <3>3 DEF Ages, Serving, CreationOk
  <2>2. \A r \in Request : HandlerOk(r)'
    BY <1>t, <1>1, <1>k DEF Ages, RefsOk
  <2>3. ScanOk'
    BY <1>1, <1>s, <1>v DEF Ages, ScanOk
  <2>. QED
    BY <2>1, <2>2, <2>3 DEF RefsOk
<1>2. CASE Restart
  BY <1>2
     DEF Restart, RefsOk, CreationOk, HandlerOk, ScanOk, ScanState, ScanIdle, Idle,
         Generating, Handling
<1>3. ASSUME NEW r \in Request, StepKind(r)
      PROVE  RefsOk'
  <2>1. OnlyCall(r)
    BY <1>3, OneCall
  <2>2. scan' = scan
    BY <1>3 DEF StepKind, Reads, Read, StartGenerate, StartGenerateWorker, CreateGrant,
       Codes, CreateCode, IssueCode, GenerateFails, InsertPermit, Ends, GrantRefused, TakeBackGrant, TakeBackFails, Commits, HandlerFails
  <2>3. CreationOk(r)' /\ HandlerOk(r)'
    <3>1. CASE \E p \in Permit, op \in Handling : Reads(r, p, op)
      <4>1. PICK p \in Permit, op \in Handling : Reads(r, p, op)
        BY <3>1
      <4>2. Exists(p)'
        BY <1>s, <4>1 DEF Reads, Read
      <4>. QED
        BY <1>t, <4>1, <4>2
           DEF Reads, Read, Begin, Generating, Handling, CreationOk, HandlerOk
    <3>2. CASE \/ \E p \in Permit, st \in {"PENDING", "ACTIVE"}, multi \in BOOLEAN :
                    StartGenerate(r, p, st, multi)
               \/ \E p \in Permit : StartGenerateWorker(r, p)
      <4>1. PICK p \in Permit :
              /\ permit[p] = Unborn /\ Serving(p) = {} /\ permit' = permit
              /\ req'[r].op = "grant" /\ req'[r].permit = p
        BY <1>t, <3>2 DEF StartGenerate, StartGenerateWorker, Begin
      <4>2. Serving(p)' = {r}
        BY <2>1, <4>1, ServingAfter DEF Idle
      <4>. QED
        BY <4>1, <4>2 DEF Handling, CreationOk, HandlerOk
    <3>3. CASE Goes(r)
      <4>1. /\ req[r].op \in Generating /\ req'[r].op \in {"code", "insert", "undo"}
            /\ req'[r].permit = req[r].permit /\ permit' = permit
        BY <3>3, AdvanceFacts
      <4>2. PICK p \in Permit :
              req[r].permit = p /\ permit[p] = Unborn /\ Serving(p) = {r}
        BY <1>t, <4>1, CallFacts DEF RefsOk, CreationOk
      <4>3. Serving(p)' = {r}
        BY <2>1, <4>1, <4>2, ServingAfter DEF Idle
      <4>. QED
        BY <4>1, <4>2, <4>3 DEF Handling, CreationOk, HandlerOk
    <3>4. CASE IssueCode(r)
      <4>1. /\ req[r].op \in Handling /\ req'[r].op = "activate"
            /\ req'[r].permit = req[r].permit
        BY <1>t, <3>4 DEF IssueCode, Advance, Handling
      <4>2. PICK p \in Permit : req[r].permit = p /\ Exists(p)
        BY <1>t, <4>1, CallFacts DEF RefsOk, HandlerOk
      <4>. QED
        BY <1>s, <4>1, <4>2 DEF Generating, CreationOk, HandlerOk
    <3>5. CASE InsertPermit(r) \/ Ends(r) \/ Commits(r) \/ HandlerFails(r)
      BY <1>t, <3>5
         DEF InsertPermit, Ends, GrantRefused, TakeBackGrant, TakeBackFails, Commits, HandlerFails, Finish, Idle,
             Generating, Handling, CreationOk, HandlerOk
    <3>. QED
      BY <1>3, <3>1, <3>2, <3>3, <3>4, <3>5 DEF StepKind, Codes, Goes
  <2>4. ASSUME NEW s \in Request, s # r
        PROVE  CreationOk(s)' /\ HandlerOk(s)'
    <3>1. req'[s] = req[s]
      BY <2>1, <2>4 DEF OnlyCall
    <3>2. CreationOk(s)'
      <4>1. CASE req[s].op \in Generating
        BY <1>3, <2>4, <4>1, CreationsKept
      <4>. QED
        BY <3>1, <4>1 DEF CreationOk
    <3>. QED
      BY <1>k, <1>t, <3>1, <3>2 DEF RefsOk
  <2>5. ScanOk'
    BY <1>t, <1>v, <2>2 DEF RefsOk, ScanOk
  <2>. QED
    BY <2>3, <2>4, <2>5 DEF RefsOk
<1>. QED
  BY <1>1, <1>2, <1>3, StepKinds

LEMMA ShapeInit == Init => Shape
<1>1. 0 \in 0 .. CountBound
  BY BoundAssumption
<1>. QED
  BY <1>1 DEF Init, Shape, TypeOK, HistOK, RefsOk, CreationOk, HandlerOk, ScanOk, ScanState,
            ReqState, ScanIdle, Idle, Generating, Handling

LEMMA ShapeKept == Shape /\ [Next]_vars => Shape'
BY TypeKept, RefsKept DEF Shape

LEMMA ShapeHolds == Spec => []Shape
BY ShapeInit, ShapeKept, PTL DEF Spec

(* Every variable stays in its type. *)
THEOREM TypeCorrect == Spec => []TypeOK
<1>1. Shape => TypeOK
  BY DEF Shape
<1>. QED
  BY <1>1, ShapeHolds, PTL
-----------------------------------------------------------------------------
(* One permit at a time *)

(* A call takes up permit p. *)
TakesUp(r, p) ==
  /\ r \notin Serving(p) /\ Serving(p)' = Serving(p) \cup {r}
  /\ \E op \in Handling : Reads(r, p, op)

(* A creation starts, goes on, and ends. *)
Conceives(r, p) ==
  /\ Serving(p) = {} /\ Serving(p)' = {r} /\ permit[p] = Unborn
  /\ \/ \E st \in {"PENDING", "ACTIVE"}, multi \in BOOLEAN : StartGenerate(r, p, st, multi)
     \/ StartGenerateWorker(r, p)

Carries(r, p) ==
  /\ Serving(p) = {r} /\ Serving(p)' = {r} /\ permit[p] = Unborn
  /\ req[r].permit = p
  /\ Goes(r)

Delivers(r, p) ==
  /\ Serving(p) = {r} /\ Serving(p)' = {} /\ permit[p] = Unborn
  /\ req[r].permit = p
  /\ InsertPermit(r) \/ Ends(r)

(* Another call goes on, and ends. *)
Approves(r, p) ==
  /\ r \in Serving(p) /\ Serving(p)' = Serving(p)
  /\ req[r].permit = p
  /\ IssueCode(r)

Settles(r, p) ==
  /\ r \in Serving(p) /\ Serving(p)' = Serving(p) \ {r} /\ Exists(p)
  /\ req[r].permit = p
  /\ Commits(r) \/ HandlerFails(r)

Touches(r, p) ==
  \/ TakesUp(r, p) \/ Conceives(r, p) \/ Carries(r, p) \/ Delivers(r, p)
  \/ Approves(r, p) \/ Settles(r, p)

Leaves(p) ==
  /\ permit'[p] = permit[p] /\ codes'[p] = codes[p]
  /\ p \in grant' <=> p \in grant
  /\ Serving(p)' = Serving(p)
  /\ \A s \in Serving(p) : req'[s] = req[s]

LEMMA HistoryGrows ==
  ASSUME Shape, [Next]_vars
  PROVE  /\ hist.unseen \subseteq hist'.unseen
         /\ hist.unchecked \subseteq hist'.unchecked
         /\ hist.broken \subseteq hist'.broken
         /\ hist.reopened \subseteq hist'.reopened
<1>. DEFINE Grown == /\ hist.unseen \subseteq hist'.unseen
                     /\ hist.unchecked \subseteq hist'.unchecked
                     /\ hist.broken \subseteq hist'.broken
                     /\ hist.reopened \subseteq hist'.reopened
<1>. hist \in [unseen : SUBSET Permit, unchecked : SUBSET Permit,
               broken : SUBSET Permit, reopened : SUBSET Permit]
  BY DEF Shape, TypeOK, HistOK
<1>1. CASE Ages \/ Restart
  BY <1>1 DEF Ages, Restart
<1>2. ASSUME NEW r \in Request, StepKind(r)
      PROVE  Grown
  <2>1. CASE \E p \in Permit, op \in Handling : Reads(r, p, op)
    BY <2>1 DEF Reads, Read
  <2>2. CASE \/ \E p \in Permit, st \in {"PENDING", "ACTIVE"}, multi \in BOOLEAN :
                  StartGenerate(r, p, st, multi)
             \/ \E p \in Permit : StartGenerateWorker(r, p)
    BY <2>2 DEF StartGenerate, StartGenerateWorker
  <2>3. CASE GenerateFails(r) \/ HandlerFails(r) \/ Commits(r)
    BY <2>3 DEF GenerateFails, HandlerFails, Commits
  <2>4. CASE Ends(r) \/ InsertPermit(r)
    BY <2>4 DEF Ends, GrantRefused, TakeBackGrant, TakeBackFails, InsertPermit
  <2>5. CASE CreateGrant(r) \/ Codes(r)
    BY <2>5 DEF CreateGrant, Codes, CreateCode, IssueCode
  <2>. QED
    BY <1>2, <2>1, <2>2, <2>3, <2>4, <2>5 DEF StepKind
<1>. QED
  BY <1>1, <1>2, StepKinds

(* A call's step does one of these to a permit, or nothing. *)
LEMMA TouchOrLeave ==
  ASSUME Shape, NEW r \in Request, StepKind(r), NEW p \in Permit
  PROVE  Touches(r, p) \/ Leaves(p)
<1>t. /\ req \in [Request -> ReqState] /\ codes \in [Permit -> 0 .. CountBound]
      /\ permit \in [Permit -> PermitRow \cup {Unborn} \cup Dead]
  BY DEF Shape, TypeOK
<1>o. OnlyCall(r)
  BY OneCall
<1>l. ASSUME r \notin Serving(p), req'[r] # Idle => req'[r].permit # p,
             permit'[p] = permit[p], codes'[p] = codes[p], p \in grant' <=> p \in grant
      PROVE  Leaves(p)
  <2>1. Serving(p)' = Serving(p)
    <3>1. Serving(p)' = (Serving(p) \ {r}) \cup {s \in {r} : req'[s] # Idle /\ req'[s].permit = p}
      BY <1>o, ServingAfter
    <3>2. {s \in {r} : req'[s] # Idle /\ req'[s].permit = p} = {}
      BY <1>l
    <3>3. r \notin Serving(p)
      BY <1>l
    <3>. QED
      BY <3>1, <3>2, <3>3
  <2>2. \A s \in Serving(p) : req'[s] = req[s]
    BY <1>l, <1>o DEF OnlyCall, Serving
  <2>. QED
    BY <1>l, <2>1, <2>2 DEF Leaves
<1>1. CASE \E k \in Permit, op \in Handling : Reads(r, k, op)
  <2>1. PICK k \in Permit, op \in Handling : Reads(r, k, op)
    BY <1>1
  <2>2. /\ req[r] = Idle /\ req'[r] # Idle /\ req'[r].permit = k
        /\ UNCHANGED <<permit, grant, codes>>
    BY <1>t, <2>1 DEF Reads, Read, Begin, Idle, Handling
  <2>3. r \notin Serving(p)
    BY <2>2 DEF Serving
  <2>4. CASE k = p
    BY <1>o, <2>1, <2>2, <2>3, <2>4, ServingAfter DEF Touches, TakesUp
  <2>5. CASE k # p
    BY <1>l, <2>2, <2>3, <2>5
  <2>. QED
    BY <2>4, <2>5
<1>2. CASE \/ \E k \in Permit, st \in {"PENDING", "ACTIVE"}, multi \in BOOLEAN :
                StartGenerate(r, k, st, multi)
           \/ \E k \in Permit : StartGenerateWorker(r, k)
  <2>1. PICK k \in Permit :
          \/ \E st \in {"PENDING", "ACTIVE"}, multi \in BOOLEAN : StartGenerate(r, k, st, multi)
          \/ StartGenerateWorker(r, k)
    BY <1>2
  <2>2. /\ req[r] = Idle /\ req'[r] # Idle /\ req'[r].permit = k
        /\ permit[k] = Unborn /\ Serving(k) = {}
        /\ UNCHANGED <<permit, grant, codes>>
    BY <1>t, <2>1 DEF StartGenerate, StartGenerateWorker, Begin, Idle
  <2>3. r \notin Serving(p)
    BY <2>2 DEF Serving
  <2>4. CASE k = p
    BY <1>o, <2>1, <2>2, <2>3, <2>4, ServingAfter DEF Touches, Conceives
  <2>5. CASE k # p
    BY <1>l, <2>2, <2>3, <2>5
  <2>. QED
    BY <2>4, <2>5
<1>3. CASE Goes(r) \/ IssueCode(r)
  <2>1. /\ req[r] # Idle /\ req'[r] # Idle /\ req'[r].permit = req[r].permit
        /\ req[r].permit \in Permit /\ permit' = permit
        /\ Goes(r) => req[r].op \in Generating
    BY <1>3, AdvanceFacts
  <2>2. CASE req[r].permit = p
    <3>1. Serving(p)' = Serving(p) /\ r \in Serving(p)
      BY <1>o, <2>1, <2>2, ServingAfter DEF Serving
    <3>2. CASE IssueCode(r)
      BY <2>2, <3>1, <3>2 DEF Touches, Approves
    <3>3. CASE Goes(r)
      <4>1. permit[p] = Unborn /\ Serving(p) = {r}
        BY <2>1, <2>2, <3>3 DEF Shape, RefsOk, CreationOk
      <4>. QED
        BY <2>2, <3>1, <3>3, <4>1 DEF Touches, Carries
    <3>. QED
      BY <1>3, <3>2, <3>3
  <2>3. CASE req[r].permit # p
    <3>1. r \notin Serving(p)
      BY <2>3 DEF Serving
    <3>2. codes'[p] = codes[p] /\ (p \in grant' <=> p \in grant)
      BY <1>t, <1>3, <2>3 DEF Goes, CreateGrant, CreateCode, GenerateFails, IssueCode
    <3>. QED
      BY <1>l, <2>1, <2>3, <3>1, <3>2
  <2>. QED
    BY <2>2, <2>3
<1>4. CASE InsertPermit(r) \/ Ends(r)
  <2>1. req[r].op \in Generating /\ req[r] # Idle /\ req'[r] = Idle
    BY <1>t, <1>4 DEF InsertPermit, Ends, GrantRefused, TakeBackGrant, TakeBackFails, Generating, Finish, Idle
  <2>2. CASE req[r].permit = p
    <3>1. permit[p] = Unborn /\ Serving(p) = {r}
      BY <2>1, <2>2 DEF Shape, RefsOk, CreationOk
    <3>. QED
      BY <1>4, <1>o, <2>1, <2>2, <3>1, ServingAfter DEF Touches, Delivers
  <2>3. CASE req[r].permit # p
    <3>1. r \notin Serving(p)
      BY <2>3 DEF Serving
    <3>2. permit'[p] = permit[p] /\ codes'[p] = codes[p] /\ (p \in grant' <=> p \in grant)
      BY <1>t, <1>4, <2>3 DEF InsertPermit, Ends, GrantRefused, TakeBackGrant, TakeBackFails, Undone
    <3>. QED
      BY <1>l, <2>1, <2>3, <3>1, <3>2
  <2>. QED
    BY <2>2, <2>3
<1>5. CASE Commits(r) \/ HandlerFails(r)
  <2>1. req[r].op \in Handling /\ req[r] # Idle /\ req'[r] = Idle
    <3>1. req[r].op \in Generating \cup Handling
      BY <1>5, CallFacts DEF Commits, HandlerFails
    <3>. QED
      BY <1>t, <1>5, <3>1, CallFacts DEF Commits, HandlerFails, Finish, Generating
  <2>2. CASE req[r].permit = p
    <3>1. Exists(p) /\ r \in Serving(p)
      BY <2>1, <2>2 DEF Shape, RefsOk, HandlerOk, Serving
    <3>. QED
      BY <1>5, <1>o, <2>1, <2>2, <3>1, ServingAfter DEF Touches, Settles
  <2>3. CASE req[r].permit # p
    <3>1. r \notin Serving(p)
      BY <2>3 DEF Serving
    <3>2. permit'[p] = permit[p]
      <4>1. CASE Commits(r)
        <5>1. PICK row \in PermitRow : permit' = [permit EXCEPT ![req[r].permit] = row]
          BY <4>1 DEF Commits
        <5>. QED
          BY <1>t, <2>3, <5>1
      <4>. QED
        BY <1>5, <4>1 DEF HandlerFails
    <3>3. UNCHANGED <<codes, grant>>
      BY <1>5 DEF Commits, HandlerFails
    <3>. QED
      BY <1>l, <2>1, <2>3, <3>1, <3>2, <3>3
  <2>. QED
    BY <2>2, <2>3
<1>. QED
  BY <1>1, <1>2, <1>3, <1>4, <1>5 DEF StepKind, Codes, Goes
-----------------------------------------------------------------------------
(* Grants *)

(* A creation makes its grant first.  A grant goes only when a creation     *)
(* fails and takes it back.                                                 *)
GrantOk(p) ==
  /\ Exists(p) => p \in grant
  /\ permit[p] = Failed => p \notin grant
  /\ permit[p] = Unborn /\ Serving(p) = {} => p \notin grant
  /\ \A s \in Serving(p) :
       /\ req[s].op = "grant" => p \notin grant
       /\ req[s].op \in {"code", "insert", "undo"} => p \in grant

LEMMA GrantKept ==
  ASSUME Shape, [Next]_vars, NEW p \in Permit, GrantOk(p)
  PROVE  GrantOk(p)'
<1>t. /\ req \in [Request -> ReqState]
      /\ permit \in [Permit -> PermitRow \cup {Unborn} \cup Dead]
      /\ permit' \in [Permit -> PermitRow \cup {Unborn} \cup Dead]
  BY TypeKept DEF Shape, TypeOK
<1>e. Exists(p) => Exists(p)'
  BY StoredStays
<1>n. /\ permit[p] \in {Unborn} \cup Dead => ~Exists(p)
      /\ permit'[p] \in {Unborn} \cup Dead => ~Exists(p)'
  BY DEF Exists, Unborn, Dead, Failed, Orphaned, Cut, AccessStatus
<1>d. Unborn \notin Dead /\ Failed \notin {Orphaned, Cut}
  BY DEF Unborn, Dead, Failed, Orphaned, Cut
<1>1. CASE Ages
  <2>1. /\ Exists(p) <=> Exists(p)'
        /\ permit'[p] \in {Unborn, Failed} => permit'[p] = permit[p]
    BY <1>1, <1>e, <1>n DEF Ages, Exists, Dead
  <2>2. Serving(p)' = Serving(p)
    BY <1>1 DEF Ages, Serving
  <2>. QED
    BY <1>1, <2>1, <2>2 DEF Ages, GrantOk
<1>2. CASE Restart
  <2>1. Serving(p)' = {} /\ grant' = grant
    BY <1>2 DEF Restart, Serving
  <2>2. permit'[p] = IF Serving(p) # {} /\ permit[p] = Unborn THEN Cut ELSE permit[p]
    BY <1>2 DEF Restart, Served, Serving
  <2>3. CASE Serving(p) # {} /\ permit[p] = Unborn
    BY <1>d, <1>n, <2>1, <2>2, <2>3 DEF GrantOk, Dead
  <2>4. CASE ~(Serving(p) # {} /\ permit[p] = Unborn)
    BY <1>e, <2>1, <2>2, <2>4 DEF GrantOk, Exists
  <2>. QED
    BY <2>3, <2>4
<1>3. ASSUME NEW r \in Request, StepKind(r)
      PROVE  GrantOk(p)'
  <2>0. \A s \in Serving(p) : s # r => req'[s] = req[s]
    BY <1>3, OneCall DEF OnlyCall, Serving
  <2>1. CASE Leaves(p)
    BY <2>1 DEF Leaves, GrantOk, Exists
  <2>2. CASE TakesUp(r, p)
    <3>1. PICK op \in Handling : Reads(r, p, op)
      BY <2>2 DEF TakesUp
    <3>2. req'[r].op \in Handling /\ UNCHANGED <<permit, grant>> /\ Exists(p)
      BY <1>t, <3>1 DEF Reads, Read, Begin
    <3>. QED
      BY <1>n, <2>0, <2>2, <3>2 DEF TakesUp, GrantOk, Exists, Handling
  <2>3. CASE Conceives(r, p)
    <3>1. req'[r].op = "grant" /\ UNCHANGED <<permit, grant>>
      BY <1>t, <2>3 DEF Conceives, StartGenerate, StartGenerateWorker, Begin
    <3>. QED
      BY <2>3, <3>1 DEF Conceives, GrantOk, Exists
  <2>4. CASE Carries(r, p)
    <3>1. permit' = permit /\ req'[r].op \in {"code", "insert", "undo"}
      BY <2>4, AdvanceFacts DEF Carries
    <3>2. p \in grant'
      BY <2>4 DEF Carries, Goes, CreateGrant, CreateCode, GenerateFails, GrantOk
    <3>. QED
      BY <1>d, <2>4, <3>1, <3>2 DEF Carries, GrantOk, Dead
  <2>5. CASE Delivers(r, p)
    <3>0. req[r].permit = p /\ r \in Serving(p) /\ Serving(p)' = {}
      BY <2>5 DEF Delivers
    <3>1. CASE InsertPermit(r)
      <4>1. p \in grant'
        BY <3>0, <3>1 DEF InsertPermit, GrantOk
      <4>2. permit'[p] = NewRow(req[r].as, req[r].multi)
        BY <1>t, <3>0, <3>1 DEF InsertPermit
      <4>3. req[r].as \in {"PENDING", "ACTIVE"}
        BY <3>1, CallFacts DEF InsertPermit, Generating
      <4>4. Exists(p)'
        BY <4>2, <4>3 DEF NewRow, Exists, AccessStatus
      <4>. QED
        BY <1>n, <3>0, <4>1, <4>4 DEF GrantOk, Dead
    <3>2. CASE GrantRefused(r) \/ TakeBackGrant(r)
      <4>1. p \notin grant' /\ permit'[p] = Failed
        BY <1>t, <3>0, <3>2 DEF GrantRefused, TakeBackGrant, Undone, GrantOk
      <4>. QED
        BY <1>n, <3>0, <4>1 DEF GrantOk, Dead
    <3>3. CASE TakeBackFails(r)
      <4>1. permit'[p] = Orphaned
        BY <1>t, <3>0, <3>3 DEF TakeBackFails
      <4>. QED
        BY <1>d, <1>n, <3>0, <4>1 DEF GrantOk, Dead
    <3>. QED
      BY <2>5, <3>1, <3>2, <3>3 DEF Delivers, Ends
  <2>6. CASE Approves(r, p)
    <3>1. req'[r].op = "activate" /\ UNCHANGED <<permit, grant>>
      BY <1>t, <2>6, AdvanceFacts DEF Approves, IssueCode
    <3>. QED
      BY <2>0, <2>6, <3>1 DEF Approves, GrantOk, Exists
  <2>7. CASE Settles(r, p)
    <3>1. grant' = grant
      BY <2>7 DEF Settles, Commits, HandlerFails
    <3>2. \A s \in Serving(p)' : s \in Serving(p) /\ req'[s] = req[s]
      BY <2>0, <2>7 DEF Settles
    <3>. QED
      BY <1>e, <1>n, <2>7, <3>1, <3>2 DEF Settles, GrantOk, Dead
  <2>. QED
    BY <1>3, <2>1, <2>2, <2>3, <2>4, <2>5, <2>6, <2>7, TouchOrLeave DEF Touches
<1>. QED
  BY <1>1, <1>2, <1>3, StepKinds
-----------------------------------------------------------------------------
(* How many handlers of a kind are at work on a permit *)

LEMMA DoingCount ==
  ASSUME NEW p, NEW op
  PROVE  /\ IsFiniteSet(Doing(p, op)) /\ IsFiniteSet(Doing(p, op)')
         /\ Cardinality(Doing(p, op)) \in Nat /\ Cardinality(Doing(p, op)') \in Nat
         /\ Cardinality(Request) \in Nat
         /\ Cardinality(Doing(p, op)) <= Cardinality(Request)
         /\ Cardinality(Doing(p, op)') <= Cardinality(Request)
<1>1. Doing(p, op) \subseteq Request /\ Doing(p, op)' \subseteq Request
  BY DEF Doing, Serving
<1>. QED
  BY <1>1, RequestAssumption, FS_Subset, FS_CardinalityType

(* Handlers of two kinds are different requests. *)
LEMMA TwoKindsCount ==
  ASSUME NEW p, NEW op, NEW other, op # other
  PROVE  /\ Cardinality(Doing(p, op)) + Cardinality(Doing(p, other)) <= Cardinality(Request)
         /\ Cardinality(Doing(p, op)') + Cardinality(Doing(p, other)') <= Cardinality(Request)
<1>1. ASSUME NEW A, NEW B, A \subseteq Request, B \subseteq Request, A \cap B = {}
      PROVE  Cardinality(A) + Cardinality(B) <= Cardinality(Request)
  <2>1. IsFiniteSet(A) /\ IsFiniteSet(B) /\ Cardinality(A) \in Nat /\ Cardinality(B) \in Nat
    BY <1>1, RequestAssumption, FS_Subset, FS_CardinalityType
  <2>2. Cardinality(A \cap B) = 0
    BY <1>1, FS_EmptySet
  <2>3. Cardinality(A \cup B) = Cardinality(A) + Cardinality(B)
    <3>1. Cardinality(A \cup B) = Cardinality(A) + Cardinality(B) - Cardinality(A \cap B)
      BY <2>1, FS_Union
    <3>. QED
      BY <2>1, <2>2, <3>1
  <2>4. A \cup B \subseteq Request
    BY <1>1
  <2>5. Cardinality(A \cup B) <= Cardinality(Request)
    BY <2>4, RequestAssumption, FS_Subset
  <2>. QED
    BY <2>3, <2>5
<1>2. /\ Doing(p, op) \cap Doing(p, other) = {}
      /\ Doing(p, op)' \cap Doing(p, other)' = {}
      /\ Doing(p, op) \subseteq Request /\ Doing(p, other) \subseteq Request
      /\ Doing(p, op)' \subseteq Request /\ Doing(p, other)' \subseteq Request
  BY DEF Doing, Serving
<1>. QED
  BY <1>1, <1>2

(* What a call's step does to the handlers of a kind. *)
LEMMA DoingAfter ==
  ASSUME NEW r \in Request, OnlyCall(r), NEW p, NEW op
  PROVE  /\ r \notin Doing(p, op)' => Doing(p, op)' = Doing(p, op) \ {r}
         /\ r \in Doing(p, op)' => Doing(p, op)' = Doing(p, op) \cup {r}
BY DEF OnlyCall, Doing, Serving

LEMMA OneLess ==
  ASSUME NEW p, NEW op, NEW r \in Doing(p, op), Doing(p, op)' = Doing(p, op) \ {r}
  PROVE  Cardinality(Doing(p, op)') = Cardinality(Doing(p, op)) - 1
BY DoingCount, FS_RemoveElement

LEMMA OneMore ==
  ASSUME NEW p, NEW op, NEW r, r \notin Doing(p, op), Doing(p, op)' = Doing(p, op) \cup {r}
  PROVE  Cardinality(Doing(p, op)') = Cardinality(Doing(p, op)) + 1
BY DoingCount, FS_AddElement

LEMMA CappedStep ==
  ASSUME NEW n \in 0 .. CountBound
  PROVE  Capped(n + 1) \in Nat /\ Capped(n + 1) <= n + 1
BY BoundAssumption DEF Capped

-----------------------------------------------------------------------------
(* Codes of HikCentral *)

(* A permit that was ever active has a code, and so has one that a call is  *)
(* about to activate or revoke.                                             *)
CodeOk(p) ==
  /\ permit[p].status \in {"ACTIVE", "REVOKED", "EXPIRED"} => codes[p] >= 1
  /\ \A s \in Serving(p) :
       /\ req[s].op = "code" => req[s].as = "ACTIVE"
       /\ req[s].op = "insert" /\ req[s].as = "ACTIVE" => codes[p] >= 1
       /\ req[s].op \in {"activate", "revoke"} => codes[p] >= 1

LEMMA CodeKept ==
  ASSUME Shape, [Next]_vars, NEW p \in Permit, CodeOk(p)
  PROVE  CodeOk(p)'
<1>t. /\ req \in [Request -> ReqState]
      /\ permit \in [Permit -> PermitRow \cup {Unborn} \cup Dead]
      /\ codes \in [Permit -> 0 .. CountBound]
  BY DEF Shape, TypeOK
<1>1. CASE Ages
  <2>1. Serving(p)' = Serving(p) /\ UNCHANGED <<codes, req>>
    BY <1>1 DEF Ages, Serving
  <2>2. permit'[p].status = permit[p].status
          \/ (permit[p].status = "ACTIVE" /\ permit'[p].status = "EXPIRED")
    BY <1>1 DEF Ages, Older
  <2>. QED
    BY <2>1, <2>2 DEF CodeOk
<1>2. CASE Restart
  <2>1. Serving(p)' = {} /\ codes' = codes
    BY <1>2 DEF Restart, Serving
  <2>2. permit'[p] = permit[p] \/ permit'[p] = Cut
    BY <1>2 DEF Restart
  <2>. QED
    BY <2>1, <2>2 DEF CodeOk, Cut
<1>3. ASSUME NEW r \in Request, StepKind(r)
      PROVE  CodeOk(p)'
  <2>s. \A s \in Serving(p) : s # r => req'[s] = req[s]
    BY <1>3, OneCall DEF OnlyCall, Serving
  <2>1. CASE Leaves(p)
    BY <2>1 DEF Leaves, CodeOk
  <2>2. CASE TakesUp(r, p)
    <3>1. PICK op \in Handling : Reads(r, p, op)
      BY <2>2 DEF TakesUp
    <3>2. /\ req'[r].op = op /\ op # "activate" /\ UNCHANGED <<permit, codes>>
          /\ op = "revoke" => permit[p].status = "ACTIVE"
      BY <1>t, <3>1 DEF Reads, Read, Begin
    <3>. QED
      BY <2>2, <2>s, <3>2 DEF TakesUp, CodeOk, Handling
  <2>3. CASE Conceives(r, p)
    <3>1. req'[r].op = "grant" /\ UNCHANGED <<permit, codes>>
      BY <1>t, <2>3 DEF Conceives, StartGenerate, StartGenerateWorker, Begin
    <3>. QED
      BY <2>3, <3>1 DEF Conceives, CodeOk
  <2>4. CASE Carries(r, p)
    <3>0. /\ permit' = permit /\ req'[r].as = req[r].as /\ r \in Serving(p)
          /\ Serving(p)' = {r} /\ permit[p] = Unborn
          /\ req[r] \in [op : Generating, permit : Permit, as : {"PENDING", "ACTIVE"},
                         multi : BOOLEAN]
      BY <2>4, AdvanceFacts, CallFacts DEF Carries
    <3>1. req'[r].op = "code" => req[r].as = "ACTIVE"
      BY <1>t, <2>4, <3>0
         DEF Carries, Goes, CreateGrant, CreateCode, GenerateFails, Advance, CodeOk
    <3>2. req'[r].op = "insert" /\ req[r].as = "ACTIVE" => codes'[p] >= 1
      <4>1. CASE CreateCode(r)
        <5>1. codes'[p] = Capped(codes[p] + 1)
          BY <1>t, <2>4, <4>1 DEF Carries, CreateCode
        <5>. QED
          BY <1>t, <5>1, CappedBound
      <4>2. CASE CreateGrant(r) \/ GenerateFails(r)
        BY <1>t, <3>0, <4>2 DEF CreateGrant, GenerateFails, Advance
      <4>. QED
        BY <2>4, <4>1, <4>2 DEF Carries, Goes
    <3>3. req'[r].op \in {"code", "insert", "undo"}
      BY <2>4, AdvanceFacts DEF Carries
    <3>. QED
      BY <3>0, <3>1, <3>2, <3>3 DEF CodeOk, Unborn
  <2>5. CASE Delivers(r, p)
    <3>0. req[r].permit = p /\ r \in Serving(p) /\ Serving(p)' = {}
      BY <2>5 DEF Delivers
    <3>1. CASE InsertPermit(r)
      <4>1. req[r].op = "insert" /\ codes' = codes /\ permit'[p].status = req[r].as
        BY <1>t, <3>0, <3>1 DEF InsertPermit, NewRow
      <4>2. req[r].as \in {"PENDING", "ACTIVE"}
        BY <4>1, CallFacts DEF Generating
      <4>. QED
        BY <3>0, <4>1, <4>2 DEF CodeOk
    <3>2. CASE Ends(r)
      <4>1. permit'[p].status \in {"failed", "orphaned"}
        BY <1>t, <3>0, <3>2
           DEF Ends, GrantRefused, TakeBackGrant, TakeBackFails, Failed, Orphaned
      <4>. QED
        BY <3>0, <4>1 DEF CodeOk
    <3>. QED
      BY <2>5, <3>1, <3>2 DEF Delivers
  <2>6. CASE Approves(r, p)
    <3>1. codes'[p] = Capped(codes[p] + 1) /\ permit' = permit
      BY <1>t, <2>6 DEF Approves, IssueCode
    <3>2. codes'[p] >= 1
      BY <1>t, <3>1, CappedBound
    <3>3. req'[r].op = "activate"
      BY <2>6, AdvanceFacts DEF Approves
    <3>. QED
      BY <2>6, <2>s, <3>1, <3>2, <3>3 DEF Approves, CodeOk
  <2>7. CASE Settles(r, p)
    <3>s. \A s \in Serving(p)' : s \in Serving(p) /\ req'[s] = req[s]
      BY <2>7, <2>s DEF Settles
    <3>1. CASE HandlerFails(r)
      BY <3>s, <3>1 DEF HandlerFails, CodeOk
    <3>2. CASE Commits(r)
      <4>1. PICK row \in PermitRow :
              Writes(req[r].op, permit[p], row) /\ permit' = [permit EXCEPT ![p] = row]
        BY <2>7, <3>2 DEF Settles, Commits
      <4>2. permit'[p] = row /\ codes' = codes /\ req[r].op \in Handling \ {"approve"}
        BY <1>t, <3>2, <4>1 DEF Commits
      <4>3. \/ (req[r].op = "activate" /\ row.status = "ACTIVE")
            \/ (req[r].op = "reject" /\ row.status = "CANCELLED")
            \/ (req[r].op = "revoke" /\ row.status = "REVOKED")
            \/ (req[r].op \in {"mark", "enter", "leave"} /\ row.status \in {permit[p].status, "USED"})
        BY <4>1, <4>2 DEF Writes, Handling
      <4>. QED
        BY <2>7, <3>s, <4>2, <4>3 DEF Settles, CodeOk
    <3>. QED
      BY <2>7, <3>1, <3>2 DEF Settles
  <2>. QED
    BY <1>3, <2>1, <2>2, <2>3, <2>4, <2>5, <2>6, <2>7, TouchOrLeave DEF Touches
<1>. QED
  BY <1>1, <1>2, <1>3, StepKinds

(* As long as no call about it broke off: while a permit is undecided its   *)
(* codes are those of approvals that are about to activate it, and from     *)
(* then on no approval starts.                                              *)
OnceOk(p) ==
  /\ p \notin hist.broken =>
       /\ codes[p] + Cardinality(Doing(p, "approve")) <= Cardinality(Request)
       /\ permit[p].status = "PENDING" => codes[p] <= Cardinality(Doing(p, "activate"))
  /\ permit[p] = Unborn /\ Serving(p) = {} => codes[p] = 0
  /\ \A s \in Serving(p) :
       /\ req[s].op \in {"grant", "code"} => codes[p] = 0
       /\ req[s].op = "insert" => codes[p] <= 1 /\ (req[s].as = "PENDING" => codes[p] = 0)
       /\ req[s].op = "undo" => p \in hist.broken

LEMMA OnceKept ==
  ASSUME Shape, [Next]_vars, NEW p \in Permit, OnceOk(p), CodeOk(p)
  PROVE  OnceOk(p)'
<1>t. /\ req \in [Request -> ReqState]
      /\ permit \in [Permit -> PermitRow \cup {Unborn} \cup Dead]
      /\ codes \in [Permit -> 0 .. CountBound] /\ codes[p] \in Nat
      /\ hist \in [unseen : SUBSET Permit, unchecked : SUBSET Permit,
                   broken : SUBSET Permit, reopened : SUBSET Permit]
  BY BoundAssumption DEF Shape, TypeOK, HistOK
<1>h. hist.broken \subseteq hist'.broken
  BY HistoryGrows
<1>c. /\ Cardinality(Doing(p, "approve")) \in Nat /\ Cardinality(Doing(p, "approve")') \in Nat
      /\ Cardinality(Doing(p, "activate")) \in Nat /\ Cardinality(Doing(p, "activate")') \in Nat
      /\ Cardinality(Request) \in Nat
      /\ Cardinality(Doing(p, "approve")) <= Cardinality(Request)
      /\ Cardinality(Doing(p, "approve")') <= Cardinality(Request)
      /\ Cardinality(Doing(p, "approve")) + Cardinality(Doing(p, "activate"))
           <= Cardinality(Request)
      /\ Cardinality(Doing(p, "approve")') + Cardinality(Doing(p, "activate")')
           <= Cardinality(Request)
  BY DoingCount, TwoKindsCount
<1>u. Unborn.status = "unborn"
  BY DEF Unborn
<1>1. CASE Ages
  <2>1. /\ Serving(p)' = Serving(p) /\ UNCHANGED <<codes, req, hist>>
        /\ \A op : Doing(p, op)' = Doing(p, op)
    BY <1>1 DEF Ages, Serving, Doing
  <2>2. \/ permit'[p] = permit[p]
        \/ Exists(p) /\ permit'[p] \in PermitRow /\ permit'[p].status \in {permit[p].status, "EXPIRED"}
    BY <1>1 DEF Ages, Older
  <2>3. permit'[p] = Unborn => permit'[p] = permit[p]
    BY <2>2 DEF PermitRow, Unborn, AccessStatus
  <2>4. permit'[p].status = "PENDING" => permit[p].status = "PENDING"
    BY <2>2
  <2>. QED
    BY <2>1, <2>3, <2>4 DEF OnceOk
<1>2. CASE Restart
  <2>1. Serving(p)' = {} /\ codes' = codes
    BY <1>2 DEF Restart, Serving
  <2>2. CASE Serving(p) = {}
    <3>1. permit'[p] = permit[p] /\ (p \in hist'.broken <=> p \in hist.broken)
      BY <1>2, <1>t, <2>2 DEF Restart, Served, Serving
    <3>2. \A op : Doing(p, op)' = Doing(p, op)
      BY <2>1, <2>2 DEF Doing
    <3>. QED
      BY <2>1, <2>2, <3>1, <3>2 DEF OnceOk
  <2>3. CASE Serving(p) # {}
    <3>1. p \in hist'.broken
      BY <1>2, <1>t, <2>3 DEF Restart, Served, Serving
    <3>2. permit'[p] # Unborn
      <4>1. p \in Served
        BY <2>3 DEF Served, Serving
      <4>. QED
        BY <1>2, <4>1 DEF Restart, Cut, Unborn
    <3>. QED
      BY <2>1, <3>1, <3>2 DEF OnceOk
  <2>. QED
    BY <2>2, <2>3
<1>3. ASSUME NEW r \in Request, StepKind(r)
      PROVE  OnceOk(p)'
  <2>o. OnlyCall(r)
    BY <1>3, OneCall
  <2>s. \A s \in Serving(p) : s # r => req'[s] = req[s]
    BY <2>o DEF OnlyCall, Serving
  <2>n. ASSUME Serving(p) \subseteq {r}, Serving(p)' \subseteq {r},
               req[r].op \notin Handling, req'[r].op \notin Handling
        PROVE  /\ Cardinality(Doing(p, "approve")) = 0 /\ Cardinality(Doing(p, "activate")) = 0
               /\ Cardinality(Doing(p, "approve")') = 0 /\ Cardinality(Doing(p, "activate")') = 0
    <3>1. /\ Doing(p, "approve") = {} /\ Doing(p, "activate") = {}
          /\ Doing(p, "approve")' = {} /\ Doing(p, "activate")' = {}
      BY <2>n DEF Doing, Handling
    <3>. QED
      BY <3>1, FS_EmptySet
  <2>m. Cardinality(Request) >= 1
    <3>1. Request # {}
      OBVIOUS
    <3>2. Cardinality(Request) # 0
      BY <3>1, RequestAssumption, FS_EmptySet
    <3>. QED
      BY <1>c, <3>2
  <2>1. CASE Leaves(p)
    <3>1. \A op : Doing(p, op)' = Doing(p, op)
      BY <2>1 DEF Leaves, Doing
    <3>. QED
      BY <1>h, <2>1, <3>1 DEF Leaves, OnceOk
  <2>2. CASE TakesUp(r, p)
    <3>1. PICK op \in Handling : Reads(r, p, op)
      BY <2>2 DEF TakesUp
    <3>2. /\ req'[r].op = op /\ op # "activate" /\ UNCHANGED <<permit, codes, hist>>
          /\ op = "approve" => permit[p].status = "PENDING"
          /\ Exists(p)
      BY <1>t, <3>1 DEF Reads, Read, Begin
    <3>3. r \notin Doing(p, "activate")' /\ r \notin Doing(p, "activate") /\ r \notin Doing(p, "approve")
      BY <2>2, <3>2 DEF TakesUp, Doing
    <3>4. Doing(p, "activate")' = Doing(p, "activate")
      BY <2>o, <3>3, DoingAfter
    <3>5. codes[p] + Cardinality(Doing(p, "approve")') <= Cardinality(Request)
            \/ p \in hist.broken
      <4>1. CASE op = "approve"
        BY <1>c, <1>t, <3>2, <3>4, <4>1 DEF OnceOk
      <4>2. CASE op # "approve"
        <5>1. r \notin Doing(p, "approve")'
          BY <3>2, <4>2 DEF Doing
        <5>2. Doing(p, "approve")' = Doing(p, "approve")
          BY <2>o, <3>3, <5>1, DoingAfter
        <5>. QED
          BY <5>2 DEF OnceOk
      <4>. QED
        BY <4>1, <4>2
    <3>6. permit[p] # Unborn
      BY <3>2 DEF Exists, Unborn, AccessStatus
    <3>7. ASSUME NEW s \in Serving(p)'
          PROVE  /\ req'[s].op \in {"grant", "code"} => codes'[p] = 0
                 /\ req'[s].op = "insert" => codes'[p] <= 1 /\ (req'[s].as = "PENDING" => codes'[p] = 0)
                 /\ req'[s].op = "undo" => p \in hist'.broken
      <4>1. CASE s = r
        BY <3>2, <4>1 DEF Handling
      <4>2. CASE s # r
        <5>1. s \in Serving(p) /\ req'[s] = req[s]
          BY <2>2, <2>s, <3>7, <4>2 DEF TakesUp
        <5>. QED
          BY <3>2, <5>1 DEF OnceOk
      <4>. QED
        BY <4>1, <4>2
    <3>8. p \notin hist'.broken =>
            /\ codes'[p] + Cardinality(Doing(p, "approve")') <= Cardinality(Request)
            /\ permit'[p].status = "PENDING" => codes'[p] <= Cardinality(Doing(p, "activate")')
      BY <3>2, <3>4, <3>5 DEF OnceOk
    <3>9. permit'[p] # Unborn
      BY <3>2, <3>6
    <3>. QED
      BY <3>7, <3>8, <3>9 DEF OnceOk
  <2>3. CASE Conceives(r, p)
    <3>1. /\ req'[r].op = "grant" /\ UNCHANGED <<permit, codes>> /\ req[r] = Idle
      BY <1>t, <2>3 DEF Conceives, StartGenerate, StartGenerateWorker, Begin
    <3>2. Serving(p) = {} /\ Serving(p)' = {r} /\ permit[p] = Unborn
      BY <2>3 DEF Conceives
    <3>3. Cardinality(Doing(p, "approve")') = 0
      BY <2>n, <3>1, <3>2 DEF Handling, Idle
    <3>4. codes[p] = 0
      BY <3>2 DEF OnceOk
    <3>. QED
      BY <1>c, <1>u, <3>1, <3>2, <3>3, <3>4 DEF OnceOk
  <2>4. CASE Carries(r, p)
    <3>0. /\ permit' = permit /\ req'[r].as = req[r].as
          /\ r \in Serving(p) /\ Serving(p) = {r} /\ Serving(p)' = {r} /\ permit[p] = Unborn
          /\ req[r].permit = p
          /\ req[r].op \in Generating /\ req'[r].op \in {"code", "insert", "undo"}
          /\ req[r].as \in {"PENDING", "ACTIVE"}
      BY <2>4, AdvanceFacts, CallFacts DEF Carries
    <3>1. Cardinality(Doing(p, "approve")') = 0
      BY <2>n, <3>0 DEF Generating, Handling
    <3>2. CASE GenerateFails(r)
      <4>1. p \in hist'.broken /\ req'[r].op = "undo"
        BY <1>t, <3>0, <3>2 DEF GenerateFails, Advance
      <4>. QED
        BY <3>0, <4>1 DEF OnceOk
    <3>3. CASE CreateGrant(r)
      <4>1. codes[p] = 0 /\ codes' = codes
        BY <3>0, <3>3 DEF CreateGrant, OnceOk
      <4>2. req'[r].op \in {"insert", "code"}
        BY <1>t, <3>3 DEF CreateGrant, Advance
      <4>. QED
        BY <1>c, <1>u, <3>0, <3>1, <4>1, <4>2 DEF OnceOk
    <3>4. CASE CreateCode(r)
      <4>1. codes[p] = 0 /\ codes'[p] = Capped(codes[p] + 1)
        BY <1>t, <3>0, <3>4 DEF CreateCode, OnceOk
      <4>2. req'[r].op = "insert"
        BY <1>t, <3>4 DEF CreateCode, Advance
      <4>3. codes'[p] = 1
        BY <1>t, <4>1, CappedBound
      <4>4. req[r].as = "ACTIVE"
        BY <3>0, <3>4 DEF CreateCode, CodeOk
      <4>. QED
        BY <1>c, <1>u, <2>m, <3>0, <3>1, <4>2, <4>3, <4>4 DEF OnceOk
    <3>. QED
      BY <2>4, <3>2, <3>3, <3>4 DEF Carries, Goes
  <2>5. CASE Delivers(r, p)
    <3>0. /\ req[r].permit = p /\ Serving(p) = {r} /\ Serving(p)' = {} /\ r \in Serving(p)
          /\ req'[r].op = "idle" /\ codes' = codes /\ req[r].op \in Generating
      BY <1>t, <2>5
         DEF Delivers, InsertPermit, Ends, GrantRefused, TakeBackGrant, TakeBackFails, Finish,
             Idle, Generating
    <3>1. Cardinality(Doing(p, "approve")') = 0 /\ Cardinality(Doing(p, "activate")') = 0
      BY <2>n, <3>0 DEF Generating, Handling
    <3>2. CASE InsertPermit(r)
      <4>1. req[r].op = "insert" /\ permit'[p].status = req[r].as
        BY <1>t, <3>0, <3>2 DEF InsertPermit, NewRow
      <4>2. req[r].as \in {"PENDING", "ACTIVE"}
        BY <4>1, CallFacts DEF Generating
      <4>3. codes[p] <= 1 /\ (req[r].as = "PENDING" => codes[p] = 0)
        BY <3>0, <4>1 DEF OnceOk
      <4>. QED
        BY <1>c, <1>t, <1>u, <2>m, <3>0, <3>1, <4>1, <4>2, <4>3 DEF OnceOk
    <3>3. CASE Ends(r)
      <4>1. permit'[p].status \in {"failed", "orphaned"} /\ p \in hist'.broken
        <5>1. permit'[p].status \in {"failed", "orphaned"}
          BY <1>t, <3>0, <3>3
             DEF Ends, GrantRefused, TakeBackGrant, TakeBackFails, Failed, Orphaned
        <5>2. CASE GrantRefused(r)
          BY <1>t, <3>0, <5>1, <5>2 DEF GrantRefused
        <5>3. CASE TakeBackGrant(r) \/ TakeBackFails(r)
          <6>1. req[r].op = "undo"
            BY <5>3 DEF TakeBackGrant, TakeBackFails
          <6>. QED
            BY <1>h, <3>0, <5>1, <6>1 DEF OnceOk
        <5>. QED
          BY <3>3, <5>2, <5>3 DEF Ends
      <4>. QED
        BY <1>u, <3>0, <4>1 DEF OnceOk
    <3>. QED
      BY <2>5, <3>2, <3>3 DEF Delivers
  <2>6. CASE Approves(r, p)
    <3>1. /\ req[r].op = "approve" /\ codes'[p] = Capped(codes[p] + 1)
          /\ permit' = permit /\ hist' = hist /\ r \in Serving(p) /\ Serving(p)' = Serving(p)
      BY <1>t, <2>6 DEF Approves, IssueCode
    <3>2. req'[r].op = "activate"
      BY <2>6, AdvanceFacts DEF Approves
    <3>3. codes'[p] \in Nat /\ codes'[p] <= codes[p] + 1
      BY <1>t, <3>1, CappedStep
    <3>4. /\ r \in Doing(p, "approve") /\ r \notin Doing(p, "approve")'
          /\ r \notin Doing(p, "activate") /\ r \in Doing(p, "activate")'
      BY <3>1, <3>2 DEF Doing
    <3>5. Cardinality(Doing(p, "approve")') = Cardinality(Doing(p, "approve")) - 1
      BY <2>o, <3>4, DoingAfter, OneLess
    <3>6. Cardinality(Doing(p, "activate")') = Cardinality(Doing(p, "activate")) + 1
      BY <2>o, <3>4, DoingAfter, OneMore
    <3>7. p \notin hist.broken =>
            /\ codes'[p] + Cardinality(Doing(p, "approve")') <= Cardinality(Request)
            /\ permit[p].status = "PENDING" => codes'[p] <= Cardinality(Doing(p, "activate")')
      BY <1>c, <1>t, <3>3, <3>5, <3>6 DEF OnceOk
    <3>8. Exists(p)
      BY <2>6, <3>1 DEF Approves, Shape, RefsOk, HandlerOk, Handling
    <3>9. permit[p] # Unborn /\ \A s \in Serving(p) : req[s].op \notin Generating
      BY <3>8 DEF Exists, Unborn, AccessStatus, Shape, RefsOk, CreationOk, Serving
    <3>. QED
      BY <2>s, <3>1, <3>2, <3>7, <3>9 DEF OnceOk, Generating
  <2>7. CASE Settles(r, p)
    <3>0. /\ r \in Serving(p) /\ Serving(p)' = Serving(p) \ {r} /\ Exists(p)
          /\ req[r].permit = p /\ codes' = codes
      BY <2>7 DEF Settles, Commits, HandlerFails
    <3>s. \A s \in Serving(p)' : s \in Serving(p) /\ req'[s] = req[s]
      BY <2>s, <3>0
    <3>1. CASE HandlerFails(r)
      <4>1. permit' = permit /\ p \in hist'.broken /\ permit[p] # Unborn
        BY <1>t, <3>0, <3>1 DEF HandlerFails, Exists, Unborn, AccessStatus
      <4>. QED
        BY <1>h, <3>0, <3>s, <4>1 DEF OnceOk
    <3>2. CASE Commits(r)
      <4>1. PICK row \in PermitRow :
              Writes(req[r].op, permit[p], row) /\ permit' = [permit EXCEPT ![p] = row]
        BY <2>7, <3>2 DEF Settles, Commits
      <4>2. permit'[p] = row /\ req[r].op \in Handling \ {"approve"} /\ hist'.broken = hist.broken
        BY <1>t, <3>2, <4>1 DEF Commits
      <4>3. row # Unborn /\ row.status \in AccessStatus
        BY DEF PermitRow, Unborn, AccessStatus
      <4>4. row.status = "PENDING" =>
              permit[p].status = "PENDING" /\ req[r].op # "activate"
        BY <4>1, <4>2 DEF Writes, Handling
      <4>5. r \notin Doing(p, "approve") /\ r \notin Doing(p, "approve")'
              /\ r \notin Doing(p, "activate")'
        BY <3>0, <4>2 DEF Doing
      <4>6. Doing(p, "approve")' = Doing(p, "approve")
        BY <2>o, <4>5, DoingAfter
      <4>7. row.status = "PENDING" => Doing(p, "activate")' = Doing(p, "activate")
        <5>1. req[r].op # "activate" => r \notin Doing(p, "activate")
          BY DEF Doing
        <5>. QED
          BY <2>o, <4>4, <4>5, <5>1, DoingAfter
      <4>. QED
        BY <3>0, <3>s, <4>2, <4>3, <4>4, <4>6, <4>7 DEF OnceOk
    <3>. QED
      BY <2>7, <3>1, <3>2 DEF Settles
  <2>. QED
    BY <1>3, <2>1, <2>2, <2>3, <2>4, <2>5, <2>6, <2>7, TouchOrLeave DEF Touches
<1>. QED
  BY <1>1, <1>2, <1>3, StepKinds

-----------------------------------------------------------------------------
(* Scans of a single-use permit *)

(* A permit that was scanned has ended, so no further scan starts.          *)
UseOk(p) ==
  p \notin hist.reopened /\ Exists(p) /\ ~permit[p].multi =>
    /\ permit[p].scans + Cardinality(Doing(p, "mark")) <= Cardinality(Request)
    /\ permit[p].scans > 0 => permit[p].status \in MarkRefuses

LEMMA UseKept ==
  ASSUME Shape, [Next]_vars, NEW p \in Permit, UseOk(p)
  PROVE  UseOk(p)'
<1>t. /\ req \in [Request -> ReqState]
      /\ permit \in [Permit -> PermitRow \cup {Unborn} \cup Dead]
      /\ hist \in [unseen : SUBSET Permit, unchecked : SUBSET Permit,
                   broken : SUBSET Permit, reopened : SUBSET Permit]
      /\ TypeOK' /\ Shape'
  BY TypeKept, ShapeKept DEF Shape, TypeOK, HistOK
<1>c. /\ Cardinality(Doing(p, "mark")) \in Nat /\ Cardinality(Doing(p, "mark")') \in Nat
      /\ Cardinality(Request) \in Nat
      /\ Cardinality(Doing(p, "mark")') <= Cardinality(Request)
  BY DoingCount
<1>s. SUFFICES ASSUME p \notin hist'.reopened, Exists(p)', ~permit'[p].multi
               PROVE  /\ permit'[p].scans + Cardinality(Doing(p, "mark")') <= Cardinality(Request)
                      /\ permit'[p].scans > 0 => permit'[p].status \in MarkRefuses
  BY DEF UseOk, MarkRefuses
<1>h. p \notin hist.reopened
  BY <1>s, HistoryGrows
<1>n. permit'[p].scans \in Nat
  <2>1. permit'[p] \in PermitRow
    BY <1>s, <1>t DEF TypeOK, Exists, PermitRow, Unborn, Dead, Failed, Orphaned, Cut, AccessStatus
  <2>. QED
    BY <2>1, BoundAssumption DEF PermitRow
<1>0. CASE permit'[p].scans = 0
  BY <1>0, <1>c
(* The row keeps its scans and its use, and no scan is taken up. *)
<1>k. ASSUME Exists(p), permit'[p].scans = permit[p].scans, permit'[p].multi = permit[p].multi,
             Doing(p, "mark")' \subseteq Doing(p, "mark"),
             permit[p].status \in MarkRefuses => permit'[p].status \in MarkRefuses
      PROVE  /\ permit'[p].scans + Cardinality(Doing(p, "mark")') <= Cardinality(Request)
             /\ permit'[p].scans > 0 => permit'[p].status \in MarkRefuses
  <2>1. Cardinality(Doing(p, "mark")') <= Cardinality(Doing(p, "mark"))
    BY <1>k, DoingCount, FS_Subset
  <2>2. /\ permit[p].scans + Cardinality(Doing(p, "mark")) <= Cardinality(Request)
        /\ permit[p].scans > 0 => permit[p].status \in MarkRefuses
    BY <1>h, <1>k, <1>s DEF UseOk
  <2>3. permit[p].scans \in Nat
    BY <1>k, <1>n
  <2>. QED
    BY <1>c, <1>k, <2>1, <2>2, <2>3
<1>1. CASE Ages
  <2>1. Doing(p, "mark")' = Doing(p, "mark")
    BY <1>1 DEF Ages, Doing, Serving
  <2>2. CASE permit'[p] = permit[p]
    BY <1>k, <1>s, <2>1, <2>2 DEF Exists
  <2>3. CASE permit'[p] # permit[p]
    <3>1. Exists(p) /\ Older(permit[p], permit'[p])
      BY <1>1, <2>3 DEF Ages
    <3>. QED
      BY <1>k, <2>1, <3>1 DEF Older, MarkRefuses
  <2>. QED
    BY <2>2, <2>3
<1>2. CASE Restart
  <2>1. permit'[p] = permit[p]
    BY <1>2, <1>s DEF Restart, Exists, Cut, AccessStatus
  <2>2. Doing(p, "mark")' = {}
    BY <1>2 DEF Restart, Doing, Serving
  <2>. QED
    BY <1>k, <1>s, <2>1, <2>2 DEF Exists
<1>3. ASSUME NEW r \in Request, StepKind(r)
      PROVE  /\ permit'[p].scans + Cardinality(Doing(p, "mark")') <= Cardinality(Request)
             /\ permit'[p].scans > 0 => permit'[p].status \in MarkRefuses
  <2>o. OnlyCall(r)
    BY <1>3, OneCall
  <2>u. ~Exists(p) => permit[p].status \notin AccessStatus
    BY DEF Exists
  <2>1. CASE Leaves(p)
    <3>1. Doing(p, "mark")' = Doing(p, "mark")
      BY <2>1 DEF Leaves, Doing
    <3>. QED
      BY <1>k, <1>s, <2>1, <3>1 DEF Leaves, Exists
  <2>2. CASE TakesUp(r, p)
    <3>1. PICK op \in Handling : Reads(r, p, op)
      BY <2>2 DEF TakesUp
    <3>2. /\ req'[r].op = op /\ permit' = permit /\ Exists(p)
          /\ op = "mark" => permit[p].status \notin MarkRefuses
      BY <1>t, <3>1 DEF Reads, Read, Begin
    <3>3. CASE op = "mark"
      <4>1. ~(permit[p].scans > 0)
        BY <1>h, <1>s, <3>2, <3>3 DEF UseOk
      <4>. QED
        BY <1>0, <1>n, <3>2, <4>1
    <3>4. CASE op # "mark"
      <4>1. r \notin Doing(p, "mark")'
        BY <3>2, <3>4 DEF Doing
      <4>2. Doing(p, "mark")' \subseteq Doing(p, "mark")
        BY <2>o, <4>1, DoingAfter
      <4>. QED
        BY <1>k, <3>2, <4>2
    <3>. QED
      BY <3>3, <3>4
  <2>3. CASE Conceives(r, p) \/ Carries(r, p)
    <3>1. permit' = permit /\ permit[p] = Unborn
      BY <2>3, AdvanceFacts DEF Conceives, Carries, StartGenerate, StartGenerateWorker
    <3>. QED
      BY <1>s, <3>1 DEF Exists, Unborn, AccessStatus
  <2>4. CASE Delivers(r, p)
    <3>0. req[r].permit = p
      BY <2>4 DEF Delivers
    <3>1. CASE InsertPermit(r)
      <4>1. permit'[p] = NewRow(req[r].as, req[r].multi)
        BY <1>t, <3>0, <3>1 DEF InsertPermit
      <4>. QED
        BY <1>0, <4>1 DEF NewRow
    <3>2. CASE Ends(r)
      <4>1. permit'[p] \in Dead
        BY <1>t, <3>0, <3>2 DEF Ends, GrantRefused, TakeBackGrant, TakeBackFails, Dead
      <4>. QED
        BY <1>s, <4>1 DEF Exists, Dead, Failed, Orphaned, Cut, AccessStatus
    <3>. QED
      BY <2>4, <3>1, <3>2 DEF Delivers
  <2>5. CASE Approves(r, p)
    <3>1. permit' = permit /\ req'[r].op = "activate"
      BY <2>5, AdvanceFacts DEF Approves
    <3>2. r \notin Doing(p, "mark")'
      BY <3>1 DEF Doing
    <3>3. Doing(p, "mark")' \subseteq Doing(p, "mark")
      BY <2>o, <3>2, DoingAfter
    <3>. QED
      BY <1>k, <1>s, <3>1, <3>3 DEF Exists
  <2>6. CASE Settles(r, p)
    <3>0. /\ r \in Serving(p) /\ r \notin Serving(p)' /\ Exists(p) /\ req[r].permit = p
      BY <2>6 DEF Settles
    <3>1. r \notin Doing(p, "mark")' /\ Doing(p, "mark")' = Doing(p, "mark") \ {r}
      BY <2>o, <3>0, DoingAfter DEF Doing
    <3>2. CASE HandlerFails(r)
      BY <1>k, <3>0, <3>1, <3>2 DEF HandlerFails
    <3>3. CASE Commits(r)
      <4>1. PICK row \in PermitRow :
              Writes(req[r].op, permit[p], row) /\ permit' = [permit EXCEPT ![p] = row]
        BY <2>6, <3>3 DEF Settles, Commits
      <4>2. /\ permit'[p] = row /\ req[r].op \in Handling \ {"approve"}
            /\ req[r].op \in {"activate", "revoke"} => p \notin Reopened(r)
        BY <1>s, <1>t, <3>3, <4>1 DEF Commits
      <4>3. ~permit[p].multi
        BY <1>s, <4>1, <4>2 DEF Writes
      <4>4. CASE req[r].op = "mark"
        <5>1. r \in Doing(p, "mark")
          BY <3>0, <4>4 DEF Doing
        <5>2. Cardinality(Doing(p, "mark")') = Cardinality(Doing(p, "mark")) - 1
          BY <3>1, <5>1, OneLess
        <5>3. row.scans = Capped(permit[p].scans + 1) /\ row.status = "USED"
          BY <4>1, <4>3, <4>4 DEF Writes
        <5>4. permit[p].scans \in 0 .. CountBound
          BY <3>0, Stored DEF Shape, PermitRow
        <5>5. row.scans <= permit[p].scans + 1 /\ row.scans \in Nat /\ permit[p].scans \in Nat
          BY <5>3, <5>4, CappedStep, BoundAssumption
        <5>6. permit[p].scans + Cardinality(Doing(p, "mark")) <= Cardinality(Request)
          BY <1>h, <3>0, <4>3 DEF UseOk
        <5>. QED
          BY <1>c, <4>2, <5>2, <5>3, <5>5, <5>6 DEF MarkRefuses
      <4>5. CASE req[r].op # "mark"
        <5>1. row.scans = permit[p].scans /\ row.multi = permit[p].multi
          BY <4>1, <4>5 DEF Writes
        <5>2. permit[p].status \in MarkRefuses => row.status \in MarkRefuses
          <6>1. CASE req[r].op \in {"activate", "revoke"}
            BY <3>0, <4>2, <6>1 DEF Reopened
          <6>2. CASE req[r].op = "reject"
            BY <4>1, <6>2 DEF Writes, MarkRefuses
          <6>3. CASE req[r].op \in {"enter", "leave"}
            BY <4>1, <6>3 DEF Writes
          <6>. QED
            BY <4>2, <4>5, <6>1, <6>2, <6>3 DEF Handling
        <5>. QED
          BY <1>k, <3>0, <3>1, <4>2, <5>1, <5>2
      <4>. QED
        BY <4>4, <4>5
    <3>. QED
      BY <2>6, <3>2, <3>3 DEF Settles
  <2>. QED
    BY <1>3, <2>1, <2>2, <2>3, <2>4, <2>5, <2>6, TouchOrLeave DEF Touches
<1>. QED
  BY <1>1, <1>2, <1>3, StepKinds

(* However many scans race, a single-use permit lets in no more of them     *)
(* than requests are served at the same time, unless a late activation or   *)
(* revocation took it out of its end.                                       *)
THEOREM UsesBounded == Spec => []UseBound
<1>. DEFINE I == \A p \in Permit : UseOk(p)
<1>1. Init => I
  BY DEF Init, UseOk, Exists, Unborn, AccessStatus
<1>2. I /\ Shape /\ [Next]_vars => I'
  BY UseKept
<1>3. I => UseBound
  BY DEF UseOk, UseBound
<1>. HIDE DEF I
<1>. QED
  BY <1>1, <1>2, <1>3, ShapeHolds, PTL DEF Spec

(* What a permit rests on outside its row is there, no more of it than      *)
(* approvals can race for, and nothing stays that has no row but what a     *)
(* restart or a compensation that failed leaves.                            *)
THEOREM WellBacked == Spec => []PermitBacked
<1>. DEFINE I == \A p \in Permit : GrantOk(p) /\ CodeOk(p) /\ OnceOk(p)
<1>1. Init => I
  <2>1. ASSUME Init, NEW p \in Permit
        PROVE  GrantOk(p) /\ CodeOk(p) /\ OnceOk(p)
    <3>1. /\ permit[p] = Unborn /\ Serving(p) = {} /\ p \notin grant /\ codes[p] = 0
          /\ p \notin hist.broken
      BY <2>1 DEF Init, Serving
    <3>2. Cardinality(Doing(p, "approve")) = 0
      BY <3>1, FS_EmptySet DEF Doing
    <3>. QED
      BY <3>1, <3>2, DoingCount
         DEF GrantOk, CodeOk, OnceOk, Exists, Unborn, AccessStatus
  <2>. QED
    BY <2>1
<1>2. I /\ Shape /\ [Next]_vars => I'
  BY GrantKept, CodeKept, OnceKept
<1>3. Shape /\ I => PermitBacked
  <2>1. ASSUME Shape, I, NEW p \in Permit
        PROVE  /\ Exists(p) => p \in grant
               /\ Serving(p) = {} /\ p \in grant => Exists(p) \/ permit[p] \in {Orphaned, Cut}
               /\ permit[p].status \in {"ACTIVE", "REVOKED", "EXPIRED"} => codes[p] >= 1
               /\ p \notin hist.broken =>
                    /\ codes[p] + Cardinality(Doing(p, "approve")) <= Cardinality(Request)
                    /\ permit[p].status = "PENDING" /\ Serving(p) = {} => codes[p] = 0
    <3>1. permit[p] \in PermitRow \cup {Unborn} \cup Dead /\ codes[p] \in Nat
      BY <2>1, BoundAssumption DEF Shape, TypeOK
    <3>2. Serving(p) = {} /\ p \in grant => Exists(p) \/ permit[p] \in {Orphaned, Cut}
      BY <2>1, <3>1, Stored DEF Shape, GrantOk, Dead
    <3>3. Serving(p) = {} => Cardinality(Doing(p, "activate")) = 0
      BY FS_EmptySet DEF Doing
    <3>. QED
      BY <2>1, <3>1, <3>2, <3>3 DEF GrantOk, CodeOk, OnceOk
  <2>. QED
    BY <2>1 DEF PermitBacked
<1>. HIDE DEF I
<1>. QED
  BY <1>1, <1>2, <1>3, ShapeHolds, PTL DEF Spec

-----------------------------------------------------------------------------
(* What a handler had read *)

(* The status that a call which may change the status had read is one that  *)
(* its handler accepts.                                                     *)
SawOk ==
  \A r \in Request :
    /\ req[r].op \in {"approve", "activate", "reject"} => req[r].saw = "PENDING"
    /\ req[r].op = "revoke" => req[r].saw = "ACTIVE"
    /\ req[r].op = "mark" => req[r].saw \notin MarkRefuses

LEMMA SawKept ==
  ASSUME Shape, SawOk, [Next]_vars
  PROVE  SawOk'
<1>t. req \in [Request -> ReqState]
  BY DEF Shape, TypeOK
<1>1. CASE Ages
  BY <1>1 DEF Ages, SawOk, MarkRefuses
<1>2. CASE Restart
  BY <1>2 DEF Restart, SawOk, Idle
<1>3. ASSUME NEW r \in Request, StepKind(r)
      PROVE  SawOk'
  <2>1. \A s \in Request \ {r} : req'[s] = req[s]
    BY <1>3, OneCall DEF OnlyCall
  <2>2. SUFFICES
          /\ req'[r].op \in {"approve", "activate", "reject"} => req'[r].saw = "PENDING"
          /\ req'[r].op = "revoke" => req'[r].saw = "ACTIVE"
          /\ req'[r].op = "mark" => req'[r].saw \notin MarkRefuses
    BY <2>1 DEF SawOk, MarkRefuses
  <2>3. CASE \E p \in Permit, op \in Handling : Reads(r, p, op)
    <3>1. PICK p \in Permit, op \in Handling : Reads(r, p, op)
      BY <2>3
    <3>2. /\ req'[r].op = op /\ req'[r].saw = permit[p].status
          /\ op \in {"approve", "reject"} => permit[p].status = "PENDING"
          /\ op = "revoke" => permit[p].status = "ACTIVE"
          /\ op = "mark" => permit[p].status \notin MarkRefuses
          /\ op # "activate"
      BY <1>t, <3>1 DEF Reads, Read, Begin
    <3>. QED
      BY <3>2
  <2>4. CASE \/ \E p \in Permit, st \in {"PENDING", "ACTIVE"}, multi \in BOOLEAN :
                  StartGenerate(r, p, st, multi)
             \/ \E p \in Permit : StartGenerateWorker(r, p)
    <3>1. req'[r].op = "grant"
      BY <1>t, <2>4 DEF StartGenerate, StartGenerateWorker, Begin
    <3>. QED
      BY <3>1
  <2>5. CASE Goes(r)
    <3>1. req'[r].op \in {"code", "insert", "undo"}
      BY <2>5, AdvanceFacts
    <3>. QED
      BY <3>1
  <2>6. CASE IssueCode(r)
    BY <2>6, AdvanceFacts DEF IssueCode, SawOk
  <2>7. CASE InsertPermit(r) \/ Ends(r) \/ Commits(r) \/ HandlerFails(r)
    <3>1. req'[r] = Idle
      BY <1>t, <2>7
         DEF InsertPermit, Ends, GrantRefused, TakeBackGrant, TakeBackFails, Commits,
             HandlerFails, Finish
    <3>. QED
      BY <3>1 DEF Idle
  <2>. QED
    BY <1>3, <2>3, <2>4, <2>5, <2>6, <2>7 DEF StepKind, Codes, Goes
<1>. QED
  BY <1>1, <1>2, <1>3, StepKinds

LEMMA SawHolds == Spec => []SawOk
<1>1. Init => SawOk
  BY DEF Init, SawOk, Idle
<1>2. Shape /\ SawOk /\ [Next]_vars => SawOk'
  BY SawKept
<1>. QED
  BY <1>1, <1>2, ShapeHolds, PTL DEF Spec

(* The status of a stored permit is changed by its age or by a call that    *)
(* had read it.                                                             *)
LEMMA StatusStep ==
  ASSUME Shape, [Next]_vars, NEW p \in Permit,
         Exists(p), permit'[p].status # permit[p].status
  PROVE  \/ permit[p].status = "ACTIVE" /\ permit'[p].status = "EXPIRED"
         \/ \E r \in Serving(p) :
              /\ req[r].op \in {"activate", "reject", "mark", "revoke"}
              /\ \E row \in PermitRow :
                   Writes(req[r].op, permit[p], row) /\ permit'[p] = row
<1>t. permit \in [Permit -> PermitRow \cup {Unborn} \cup Dead]
  BY DEF Shape, TypeOK
<1>u. permit[p] # Unborn
  BY DEF Exists, Unborn, AccessStatus
<1>1. CASE Ages
  BY <1>1 DEF Ages, Older
<1>2. ~Restart
  BY <1>u DEF Restart
<1>3. ASSUME NEW r \in Request, StepKind(r)
      PROVE  /\ r \in Serving(p)
             /\ req[r].op \in {"activate", "reject", "mark", "revoke"}
             /\ \E row \in PermitRow :
                  Writes(req[r].op, permit[p], row) /\ permit'[p] = row
  <2>1. Touches(r, p)
    BY <1>3, TouchOrLeave DEF Leaves
  <2>2. ~TakesUp(r, p)
    BY DEF TakesUp, Reads, Read
  <2>3. Settles(r, p)
    BY <1>u, <2>1, <2>2 DEF Touches, Conceives, Carries, Delivers, Approves, IssueCode
  <2>4. Commits(r)
    BY <2>3 DEF Settles, HandlerFails
  <2>5. PICK row \in PermitRow :
          Writes(req[r].op, permit[p], row) /\ permit' = [permit EXCEPT ![p] = row]
    BY <2>3, <2>4 DEF Settles, Commits
  <2>6. permit'[p] = row
    BY <1>t, <2>5
  <2>7. req[r].op \in {"activate", "reject", "mark", "revoke"}
    BY <2>5, <2>6 DEF Writes
  <2>. QED
    BY <2>3, <2>5, <2>6, <2>7 DEF Settles
<1>. QED
  BY <1>1, <1>2, <1>3, StepKinds

(* A used, rejected or expired permit changes its status again only by a    *)
(* handler that had read the permit before it ended.                        *)
THEOREM EndIsFinal == Spec => EndedUndoneOnlyLate
<1>1. ASSUME Shape, SawOk, [Next]_vars, NEW p \in Permit,
             permit[p].status \in Ended, permit'[p].status # permit[p].status
      PROVE  \E r \in Serving(p) : req[r].saw \notin Ended
  <2>1. Exists(p) /\ permit[p].status # "ACTIVE"
    BY <1>1 DEF Exists, Ended, AccessStatus
  <2>2. PICK r \in Serving(p) : req[r].op \in {"activate", "reject", "mark", "revoke"}
    BY <1>1, <2>1, StatusStep
  <2>. QED
    BY <1>1, <2>2 DEF SawOk, Serving, Ended, MarkRefuses
<1>2. Shape /\ SawOk /\ [Next]_vars =>
        [\A p \in Permit :
           permit[p].status \in Ended /\ permit'[p].status # permit[p].status =>
             \E r \in Serving(p) : req[r].saw \notin Ended]_vars
  BY <1>1
<1>. QED
  BY <1>2, SawHolds, ShapeHolds, PTL DEF Spec, EndedUndoneOnlyLate

-----------------------------------------------------------------------------
(* The life of a permit *)

LifeMoves ==
  {<<"PENDING", "ACTIVE">>, <<"PENDING", "CANCELLED">>, <<"PENDING", "USED">>,
   <<"ACTIVE", "USED">>, <<"ACTIVE", "REVOKED">>, <<"ACTIVE", "EXPIRED">>,
   <<"REVOKED", "USED">>}

(* Whatever overlaps, a permit goes through no other life than this, but by *)
(* a call whose reading of its status is stale: a pending worker permit is  *)
(* approved, rejected or (markQrCodeUsed does not refuse one) used; an      *)
(* active one is used, revoked or expires; a revoked one may still be used. *)
THEOREM PermitLife ==
  Spec => [][\A p \in Permit :
               Exists(p) /\ permit'[p].status # permit[p].status =>
                 \/ <<permit[p].status, permit'[p].status>> \in LifeMoves
                 \/ \E r \in Serving(p) : req[r].saw # permit[p].status]_vars
<1>. DEFINE A == \A p \in Permit :
                   Exists(p) /\ permit'[p].status # permit[p].status =>
                     \/ <<permit[p].status, permit'[p].status>> \in LifeMoves
                     \/ \E r \in Serving(p) : req[r].saw # permit[p].status
<1>1. ASSUME Shape, SawOk, [Next]_vars, NEW p \in Permit,
             Exists(p), permit'[p].status # permit[p].status,
             \A r \in Serving(p) : req[r].saw = permit[p].status
      PROVE  <<permit[p].status, permit'[p].status>> \in LifeMoves
  <2>1. CASE permit[p].status = "ACTIVE" /\ permit'[p].status = "EXPIRED"
    BY <2>1 DEF LifeMoves
  <2>2. ASSUME NEW r \in Serving(p), req[r].op \in {"activate", "reject", "mark", "revoke"},
               NEW row \in PermitRow, Writes(req[r].op, permit[p], row), permit'[p] = row
        PROVE  <<permit[p].status, permit'[p].status>> \in LifeMoves
    <3>1. permit[p].status \in AccessStatus /\ req[r].saw = permit[p].status
      BY <1>1 DEF Exists
    <3>2. /\ req[r].op \in {"activate", "reject"} => permit[p].status = "PENDING"
          /\ req[r].op = "revoke" => permit[p].status = "ACTIVE"
          /\ req[r].op = "mark" => permit[p].status \in {"PENDING", "ACTIVE", "REVOKED"}
      BY <1>1, <3>1 DEF SawOk, Serving, MarkRefuses, AccessStatus
    <3>3. permit'[p].status =
            CASE req[r].op = "activate" -> "ACTIVE"
              [] req[r].op = "reject" -> "CANCELLED"
              [] req[r].op = "revoke" -> "REVOKED"
              [] req[r].op = "mark" -> "USED"
      BY <1>1, <2>2 DEF Writes
    <3>. QED
      BY <2>2, <3>2, <3>3 DEF LifeMoves
  <2>. QED
    BY <1>1, <2>1, <2>2, StatusStep
<1>2. Shape /\ SawOk /\ [Next]_vars => [A]_vars
  BY <1>1
<1>. HIDE DEF A
<1>3. Spec => [][A]_vars
  BY <1>2, SawHolds, ShapeHolds, PTL DEF Spec
<1>. QED
  BY <1>3 DEF A

-----------------------------------------------------------------------------
(* One live permit of a type *)

(* A creation of q is past its look for other permits.                      *)
InHand(s, q) == req[s].op \in {"grant", "code", "insert"} /\ req[s].permit = q

(* A live permit that a creation in hand cannot have found was stored       *)
(* unseen, and so was one of two that are live.                             *)
UnseenOk ==
  EnforceSingle =>
    \A p, q \in Permit \ hist.unchecked :
      p # q /\ SameType(p, q) /\ Live(p) =>
        /\ Live(q) => p \in hist.unseen \/ q \in hist.unseen
        /\ \A s \in Request : InHand(s, q) => p \in hist.unseen

LEMMA LiveStep ==
  ASSUME Shape, [Next]_vars, NEW p \in Permit, Live(p)', p \notin hist'.unchecked
  PROVE  \/ Live(p)
         \/ \E r \in Request : InsertPermit(r) /\ req[r].permit = p
<1>t. /\ req \in [Request -> ReqState]
      /\ permit \in [Permit -> PermitRow \cup {Unborn} \cup Dead]
  BY DEF Shape, TypeOK
<1>1. CASE Ages
  BY <1>1 DEF Ages, Older, Live
<1>2. CASE Restart
  BY <1>2 DEF Restart, Live, Cut
<1>3. ASSUME NEW r \in Request, StepKind(r), ~Live(p)
      PROVE  InsertPermit(r) /\ req[r].permit = p
  <2>1. ~Leaves(p)
    BY <1>3 DEF Leaves, Live
  <2>2. ~TakesUp(r, p)
    BY <1>3 DEF TakesUp, Reads, Read, Live
  <2>3. ~Conceives(r, p)
    BY <1>3 DEF Conceives, StartGenerate, StartGenerateWorker, Live
  <2>4. ~Carries(r, p) /\ ~Approves(r, p)
    BY <1>3, AdvanceFacts DEF Carries, Approves, Live
  <2>5. ~Settles(r, p)
    <3>1. SUFFICES ASSUME Settles(r, p) PROVE FALSE
      OBVIOUS
    <3>2. CASE HandlerFails(r)
      BY <1>3, <3>2 DEF HandlerFails, Live
    <3>3. CASE Commits(r)
      <4>1. PICK row \in PermitRow :
              Writes(req[r].op, permit[p], row) /\ permit' = [permit EXCEPT ![p] = row]
        BY <3>1, <3>3 DEF Settles, Commits
      <4>2. permit'[p] = row
        BY <1>t, <4>1
      <4>3. req[r].op # "activate"
        BY <1>t, <3>1, <3>3 DEF Settles, Commits
      <4>4. row.lapsed = permit[p].lapsed
              /\ (row.status = "ACTIVE" => permit[p].status = "ACTIVE")
        BY <4>1, <4>3 DEF Writes
      <4>. QED
        BY <1>3, <4>2, <4>4 DEF Live
    <3>. QED
      BY <3>1, <3>2, <3>3 DEF Settles
  <2>6. Delivers(r, p)
    BY <1>3, <2>1, <2>2, <2>3, <2>4, <2>5, TouchOrLeave DEF Touches
  <2>7. ~Ends(r)
    <3>1. SUFFICES ASSUME Ends(r) PROVE FALSE
      OBVIOUS
    <3>2. permit'[p] \in Dead
      BY <1>t, <2>6, <3>1 DEF Delivers, Ends, GrantRefused, TakeBackGrant, TakeBackFails, Dead
    <3>. QED
      BY <3>2 DEF Live, Dead, Failed, Orphaned, Cut
  <2>. QED
    BY <2>6, <2>7 DEF Delivers
<1>. QED
  BY <1>1, <1>2, <1>3, StepKinds

(* A creation in hand was so before, or has just looked.                    *)
LEMMA InHandStep ==
  ASSUME Shape, [Next]_vars, NEW s \in Request, NEW q \in Permit, InHand(s, q)',
         q \notin hist'.unchecked
  PROVE  \/ InHand(s, q) /\ ~InsertPermit(s)
         \/ permit' = permit /\ ~Conflict(q)
<1>t. /\ req \in [Request -> ReqState]
      /\ hist \in [unseen : SUBSET Permit, unchecked : SUBSET Permit,
                   broken : SUBSET Permit, reopened : SUBSET Permit]
  BY DEF Shape, TypeOK, HistOK
<1>0. req'[s] # Idle
  BY DEF InHand, Idle
<1>1. CASE Ages
  BY <1>1, <1>t DEF Ages, InHand, InsertPermit, Finish, Idle
<1>2. CASE Restart
  BY <1>0, <1>2 DEF Restart
<1>3. ASSUME NEW r \in Request, StepKind(r)
      PROVE  \/ InHand(s, q) /\ ~InsertPermit(s)
             \/ permit' = permit /\ ~Conflict(q)
  <2>i. ~InsertPermit(s)
    BY <1>0, <1>t DEF InsertPermit, Finish
  <2>1. CASE s # r
    <3>1. req'[s] = req[s]
      BY <1>3, <2>1, OneCall DEF OnlyCall
    <3>. QED
      BY <2>i, <3>1 DEF InHand
  <2>2. CASE s = r
    <3>1. CASE \E p \in Permit, op \in Handling : Reads(r, p, op)
      BY <1>t, <2>2, <3>1 DEF Reads, Read, Begin, Handling, InHand
    <3>2. CASE \E p \in Permit : StartGenerateWorker(r, p)
      <4>1. PICK p \in Permit : StartGenerateWorker(r, p)
        BY <3>2
      <4>2. req'[r].permit = p /\ p \in hist'.unchecked
        BY <1>t, <4>1 DEF StartGenerateWorker, Begin
      <4>. QED
        BY <2>2, <4>2 DEF InHand
    <3>3. CASE \E p \in Permit, st \in {"PENDING", "ACTIVE"}, multi \in BOOLEAN :
                 StartGenerate(r, p, st, multi)
      <4>1. PICK p \in Permit, st \in {"PENDING", "ACTIVE"}, multi \in BOOLEAN :
              StartGenerate(r, p, st, multi)
        BY <3>3
      <4>2. req'[r].permit = p /\ permit' = permit /\ ~Conflict(p)
        BY <1>t, <4>1 DEF StartGenerate, Begin
      <4>. QED
        BY <2>2, <4>2 DEF InHand
    <3>4. CASE Goes(r)
      <4>1. req[r].op \in {"grant", "code", "insert"}
        BY <3>4 DEF Goes, CreateGrant, CreateCode, GenerateFails
      <4>2. req'[r].permit = req[r].permit
        BY <3>4, AdvanceFacts
      <4>. QED
        BY <2>i, <2>2, <4>1, <4>2 DEF InHand
    <3>5. CASE IssueCode(r)
      BY <2>2, <3>5, AdvanceFacts DEF InHand
    <3>6. CASE InsertPermit(r) \/ Ends(r) \/ Commits(r) \/ HandlerFails(r)
      <4>1. req'[r] = Idle
        BY <1>t, <3>6
           DEF InsertPermit, Ends, GrantRefused, TakeBackGrant, TakeBackFails, Commits,
               HandlerFails, Finish
      <4>. QED
        BY <1>0, <2>2, <4>1
    <3>. QED
      BY <1>3, <3>1, <3>2, <3>3, <3>4, <3>5, <3>6 DEF StepKind, Codes, Goes
  <2>. QED
    BY <2>1, <2>2
<1>. QED
  BY <1>1, <1>2, <1>3, StepKinds

LEMMA UnseenKept ==
  ASSUME Shape, UnseenOk, [Next]_vars
  PROVE  UnseenOk'
<1>t. /\ req \in [Request -> ReqState]
      /\ permit \in [Permit -> PermitRow \cup {Unborn} \cup Dead]
      /\ hist \in [unseen : SUBSET Permit, unchecked : SUBSET Permit,
                   broken : SUBSET Permit, reopened : SUBSET Permit]
  BY DEF Shape, TypeOK, HistOK
<1>h. hist.unseen \subseteq hist'.unseen /\ hist.unchecked \subseteq hist'.unchecked
  BY HistoryGrows
<1>0. SUFFICES ASSUME EnforceSingle,
                      NEW p \in Permit \ hist'.unchecked, NEW q \in Permit \ hist'.unchecked,
                      p # q, SameType(p, q), Live(p)'
               PROVE  /\ Live(q)' => p \in hist'.unseen \/ q \in hist'.unseen
                      /\ \A s \in Request : InHand(s, q)' => p \in hist'.unseen
  BY DEF UnseenOk, SameType
<1>u. SameType(q, p)
  BY <1>0 DEF SameType
(* A permit is stored unseen when another creation is in hand. *)
<1>n. ASSUME NEW r \in Request, InsertPermit(r), NEW s \in Request, s # r,
             req[s].op \in {"grant", "code", "insert"}
      PROVE  req[r].permit \in hist'.unseen
  BY <1>n, <1>t DEF InsertPermit, OtherCreation
<1>1. ASSUME Live(q)'
      PROVE  p \in hist'.unseen \/ q \in hist'.unseen
  <2>1. Live(p) \/ \E r \in Request : InsertPermit(r) /\ req[r].permit = p
    BY <1>0, LiveStep
  <2>2. Live(q) \/ \E r \in Request : InsertPermit(r) /\ req[r].permit = q
    BY <1>0, <1>1, LiveStep
  <2>3. CASE Live(p) /\ Live(q)
    BY <1>0, <1>h, <2>3 DEF UnseenOk
  <2>4. ASSUME Live(p), NEW r \in Request, InsertPermit(r), req[r].permit = q
        PROVE  p \in hist'.unseen
    BY <1>0, <1>h, <2>4 DEF UnseenOk, InHand, InsertPermit
  <2>5. ASSUME Live(q), NEW r \in Request, InsertPermit(r), req[r].permit = p
        PROVE  q \in hist'.unseen
    BY <1>0, <1>h, <1>u, <2>5 DEF UnseenOk, InHand, InsertPermit
  <2>6. ASSUME NEW r \in Request, InsertPermit(r), req[r].permit = p,
               NEW s \in Request, InsertPermit(s), req[s].permit = q
        PROVE  p \in hist'.unseen
    BY <1>0, <1>n, <2>6 DEF InsertPermit
  <2>. QED
    BY <2>1, <2>2, <2>3, <2>4, <2>5, <2>6
<1>2. ASSUME NEW s \in Request, InHand(s, q)'
      PROVE  p \in hist'.unseen
  <2>1. Live(p) \/ \E r \in Request : InsertPermit(r) /\ req[r].permit = p
    BY <1>0, LiveStep
  <2>2. \/ InHand(s, q) /\ ~InsertPermit(s)
        \/ permit' = permit /\ ~Conflict(q)
    BY <1>0, <1>2, InHandStep
  <2>3. CASE InHand(s, q) /\ ~InsertPermit(s)
    <3>1. CASE Live(p)
      BY <1>0, <1>h, <2>3, <3>1 DEF UnseenOk
    <3>2. ASSUME NEW r \in Request, InsertPermit(r), req[r].permit = p
          PROVE  p \in hist'.unseen
      BY <1>n, <2>3, <3>2 DEF InHand
    <3>. QED
      BY <2>1, <3>1, <3>2
  <2>4. CASE permit' = permit /\ ~Conflict(q)
    BY <1>0, <1>u, <2>4 DEF Conflict, Live
  <2>. QED
    BY <2>2, <2>3, <2>4
<1>. QED
  BY <1>1, <1>2

(* QR_ENFORCE_SINGLE_ACTIVE under any overlap: of two live permits of a     *)
(* type, one was stored while another creation was past its look, or came   *)
(* by a path that does not look.                                            *)
THEOREM SingleIsActive == Spec => []SingleActive
<1>1. Init => UnseenOk
  BY DEF Init, UnseenOk, Live, Unborn
<1>2. Shape /\ UnseenOk /\ [Next]_vars => UnseenOk'
  BY UnseenKept
<1>3. UnseenOk => SingleActive
  BY DEF UnseenOk, SingleActive
<1>. QED
  BY <1>1, <1>2, <1>3, ShapeHolds, PTL DEF Spec
=============================================================================
