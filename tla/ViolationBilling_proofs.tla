------------------------ MODULE ViolationBilling_proofs ------------------------
(***************************************************************************)
(* Theorems about ViolationBilling, for every set of violations and action  *)
(* requests and any finite number of calls.                                 *)
(***************************************************************************)
EXTENDS ViolationBilling, FiniteSetTheorems, TLAPS

USE DEF ViolationStatus, ActionType, Decision, InvoiceStatus, RowStatus

VTable == [Violation -> ViolationRow \cup {Unborn}]
FTable == [Violation -> [status : RowStatus]]
ATable == [Action -> ActionRow \cup {Unborn}]
Hist == [annulled : SUBSET Violation, overtaken : SUBSET Violation,
         broken : SUBSET Violation]

(* A call refers to a violation that was issued or to an action request     *)
(* that was filed, and so do action requests and fines.                     *)
HeldKnown(q) ==
  /\ q.op \in {"status", "cancel", "settle", "check", "create", "flag"} =>
       Issued(q.violation)
  /\ q.op = "review" => Filed(q.action)

RefsOk ==
  /\ \A r \in Request : HeldKnown(req[r])
  /\ \A a \in Action : Filed(a) => Issued(action[a].violation)
  /\ \A v \in Violation : fine[v].status # "unborn" => Issued(v)

Shape == TypeOK /\ RefsOk

-----------------------------------------------------------------------------
(* Shapes *)

LEMMA TypeFacts ==
  ASSUME TypeOK
  PROVE  /\ violation \in VTable /\ fine \in FTable /\ action \in ATable
         /\ req \in [Request -> ReqState] /\ hist \in Hist
         /\ \A v \in Violation : Issued(v) => violation[v] \in ViolationRow
         /\ \A a \in Action : Filed(a) => action[a] \in ActionRow
BY DEF TypeOK, VTable, FTable, ATable, Hist, Issued, Filed, Unborn

(* What a handler holds, by what it is doing. *)
LEMMA StateOfRequest ==
  ASSUME NEW q \in ReqState
  PROVE  /\ q.op = "status" => q.violation \in Violation /\ q.to \in ViolationStatus
         /\ q.op \in {"cancel", "settle", "pay", "void", "remove"} => q.violation \in Violation
         /\ q.op \in {"check", "create", "flag"} =>
              q.violation \in Violation /\ q.type \in ActionType
         /\ q.op = "review" => q.action \in Action /\ q.decision \in Decision
BY DEF ReqState, Idle, StatusReq, CancelReq, SubmitReq, ReviewReq, FineReq

LEMMA RequestShapes ==
  /\ Idle \in ReqState
  /\ \A v \in Violation, st \in ViolationStatus :
       [op |-> "status", violation |-> v, to |-> st] \in ReqState
  /\ \A v \in Violation, o \in {"cancel", "settle", "pay", "void", "remove"} :
       [op |-> o, violation |-> v] \in ReqState
  /\ \A v \in Violation, ty \in ActionType, o \in {"check", "create", "flag"} :
       [op |-> o, violation |-> v, type |-> ty] \in ReqState
  /\ \A a \in Action, d \in Decision :
       [op |-> "review", action |-> a, decision |-> d] \in ReqState
BY DEF ReqState, StatusReq, CancelReq, SubmitReq, ReviewReq, FineReq

LEMMA BeginShape ==
  ASSUME TypeOK, NEW r \in Request, NEW q \in ReqState, Begin(r, q)
  PROVE  /\ req' \in [Request -> ReqState]
         /\ req[r] = Idle
         /\ req'[r] = q
         /\ \A s \in Request \ {r} : req'[s] = req[s]
         /\ hist' = hist
BY DEF TypeOK, Begin

LEMMA FinishShape ==
  ASSUME TypeOK, NEW r \in Request, Finish(r)
  PROVE  /\ req' \in [Request -> ReqState]
         /\ req'[r] = Idle
         /\ \A s \in Request \ {r} : req'[s] = req[s]
BY RequestShapes DEF TypeOK, Finish

LEMMA SetStatusShape ==
  ASSUME TypeOK, NEW v \in Violation, Issued(v), NEW st \in ViolationStatus,
         SetStatus(v, st)
  PROVE  /\ violation' \in VTable
         /\ violation'[v].status = st
         /\ violation'[v].appeal = violation[v].appeal
         /\ \A u \in Violation \ {v} : violation'[u] = violation[u]
BY TypeFacts DEF SetStatus, VTable, ViolationRow

LEMMA SetFineShape ==
  ASSUME TypeOK, NEW v \in Violation, NEW st \in RowStatus, SetFine(v, st)
  PROVE  /\ fine' \in FTable
         /\ fine'[v].status = st
         /\ \A u \in Violation \ {v} : fine'[u] = fine[u]
BY DEF TypeOK, SetFine, FTable

LEMMA AnnulFineShape ==
  ASSUME TypeOK, NEW v \in Violation, AnnulFine(v)
  PROVE  /\ fine' \in FTable
         /\ fine'[v].status # "PENDING"
         /\ fine'[v].status = "unborn" <=> fine[v].status = "unborn"
         /\ fine'[v].status = "PAID" <=> fine[v].status = "PAID"
         /\ \A u \in Violation \ {v} : fine'[u] = fine[u]
<1>1. CASE fine[v].status \in Annuls
  <2>1. SetFine(v, "CANCELLED")
    BY <1>1 DEF AnnulFine
  <2>. QED
    BY <1>1, <2>1, SetFineShape DEF Annuls
<1>2. CASE fine[v].status \notin Annuls
  BY <1>2, TypeFacts DEF AnnulFine, Annuls
<1>. QED
  BY <1>1, <1>2

(* What a call has just tested when it begins. *)
Tested(q) ==
  /\ q.op = "status" => q.to \in Transitions(violation[q.violation].status)
  /\ q.op = "review" => action[q.action].status = "PENDING"
  /\ q.op \notin {"create", "flag"}

(* The handlers begin here. *)
StartStep(r) ==
  \/ \E v \in Violation, st \in ViolationStatus : StartStatus(r, v, st)
  \/ \E v \in Violation : \/ StartCancel(r, v) \/ StartSettle(r, v)
                          \/ StartPay(r, v) \/ StartVoid(r, v) \/ StartRemove(r, v)
  \/ \E v \in Violation, type \in ActionType : StartSubmit(r, v, type)
  \/ \E a \in Action, decision \in Decision : StartReview(r, a, decision)

LEMMA StartStepShape ==
  ASSUME NEW r \in Request, StartStep(r)
  PROVE  /\ UNCHANGED <<violation, fine, action>>
         /\ \E q \in ReqState : /\ Begin(r, q)
                                /\ HeldKnown(q)
                                /\ Tested(q)
<1>1. CASE \E v \in Violation, st \in ViolationStatus : StartStatus(r, v, st)
  <2>1. PICK v \in Violation, st \in ViolationStatus : StartStatus(r, v, st)
    BY <1>1
  <2>. DEFINE q == [op |-> "status", violation |-> v, to |-> st]
  <2>2. q \in ReqState /\ HeldKnown(q) /\ Tested(q)
    BY <2>1, RequestShapes DEF StartStatus, HeldKnown, Tested, Allowed
  <2>3. Begin(r, q) /\ UNCHANGED <<violation, fine, action>>
    BY <2>1 DEF StartStatus
  <2>. QED
    BY <2>2, <2>3
<1>2. CASE \E v \in Violation : \/ StartCancel(r, v) \/ StartSettle(r, v)
                                \/ StartPay(r, v) \/ StartVoid(r, v) \/ StartRemove(r, v)
  <2>1. PICK v \in Violation : \/ StartCancel(r, v) \/ StartSettle(r, v)
                               \/ StartPay(r, v) \/ StartVoid(r, v) \/ StartRemove(r, v)
    BY <1>2
  <2>2. PICK o \in {"cancel", "settle", "pay", "void", "remove"} :
          /\ Begin(r, [op |-> o, violation |-> v])
          /\ UNCHANGED <<violation, fine, action>>
          /\ o \in {"cancel", "settle"} => Issued(v)
    BY <2>1 DEF StartCancel, StartSettle, StartPay, StartVoid, StartRemove
  <2>. DEFINE q == [op |-> o, violation |-> v]
  <2>3. q \in ReqState /\ HeldKnown(q) /\ Tested(q)
    BY <2>2, RequestShapes DEF HeldKnown, Tested
  <2>. QED
    BY <2>2, <2>3
<1>3. CASE \E v \in Violation, type \in ActionType : StartSubmit(r, v, type)
  <2>1. PICK v \in Violation, type \in ActionType : StartSubmit(r, v, type)
    BY <1>3
  <2>. DEFINE q == [op |-> "check", violation |-> v, type |-> type]
  <2>2. q \in ReqState /\ HeldKnown(q) /\ Tested(q)
    BY <2>1, RequestShapes DEF StartSubmit, HeldKnown, Tested
  <2>3. Begin(r, q) /\ UNCHANGED <<violation, fine, action>>
    BY <2>1 DEF StartSubmit
  <2>. QED
    BY <2>2, <2>3
<1>4. CASE \E a \in Action, decision \in Decision : StartReview(r, a, decision)
  <2>1. PICK a \in Action, decision \in Decision : StartReview(r, a, decision)
    BY <1>4
  <2>. DEFINE q == [op |-> "review", action |-> a, decision |-> decision]
  <2>2. q \in ReqState /\ HeldKnown(q) /\ Tested(q)
    BY <2>1, RequestShapes DEF StartReview, HeldKnown, Tested, Reviewable
  <2>3. Begin(r, q) /\ UNCHANGED <<violation, fine, action>>
    BY <2>1 DEF StartReview
  <2>. QED
    BY <2>2, <2>3
<1>. QED
  BY <1>1, <1>2, <1>3, <1>4 DEF StartStep

(* A step of a call that is not its beginning. *)
LaterStep(r) ==
  \/ CommitStatus(r) \/ CommitCancel(r) \/ CommitSettle(r) \/ CommitReview(r)
  \/ CheckPending(r) \/ (\E a \in Action : CreateAction(r, a)) \/ FlagAppeal(r)
  \/ CommitPay(r) \/ CommitVoid(r) \/ CommitRemove(r) \/ Fail(r)

LEMMA NextSteps ==
  ASSUME Next
  PROVE  \/ \E r \in Request : StartStep(r) \/ LaterStep(r)
         \/ \E v \in Violation, fined \in BOOLEAN : CreateViolation(v, fined)
         \/ \E v \in Violation : DeadlinePasses(v)
         \/ BulkMarkOverdue
BY DEF Next, AdminStep, ResidentStep, FineStep, StartStep, LaterStep

LEMMA CheckPendingShape ==
  ASSUME TypeOK, NEW r \in Request, CheckPending(r)
  PROVE  /\ req' \in [Request -> ReqState]
         /\ \A s \in Request \ {r} : req'[s] = req[s]
         /\ \/ req'[r] = Idle
            \/ /\ req'[r].op = "create"
               /\ req'[r].violation = req[r].violation
               /\ req'[r].type = req[r].type
               /\ ~Duplicate(req[r].violation, req[r].type)
<1>1. CASE Duplicate(req[r].violation, req[r].type)
  BY <1>1, FinishShape DEF CheckPending
<1>2. CASE ~Duplicate(req[r].violation, req[r].type)
  <2>1. req[r] \in SubmitReq
    BY DEF TypeOK, CheckPending, ReqState, Idle, StatusReq, CancelReq, SubmitReq,
           ReviewReq, FineReq
  <2>2. [req[r] EXCEPT !.op = "create"] \in ReqState
    BY <2>1 DEF SubmitReq, ReqState
  <2>3. req' = [req EXCEPT ![r].op = "create"]
    BY <1>2 DEF CheckPending
  <2>. QED
    BY <1>2, <2>1, <2>2, <2>3 DEF TypeOK, SubmitReq
<1>. QED
  BY <1>1, <1>2

LEMMA CreateActionShape ==
  ASSUME TypeOK, NEW r \in Request, NEW a \in Action, CreateAction(r, a)
  PROVE  /\ req' \in [Request -> ReqState]
         /\ \A s \in Request \ {r} : req'[s] = req[s]
         /\ req[r].violation \in Violation /\ req[r].type \in ActionType
         /\ \/ req'[r] = Idle /\ req[r].type # "APPEAL"
            \/ /\ req'[r].op = "flag"
               /\ req[r].type = "APPEAL"
               /\ req'[r].violation = req[r].violation
         /\ action' \in ATable
         /\ action[a] = Unborn
         /\ action'[a].violation = req[r].violation
         /\ action'[a].type = req[r].type
         /\ action'[a].status = "PENDING"
         /\ \A b \in Action \ {a} : action'[b] = action[b]
<1>1. req[r] \in SubmitReq /\ action \in ATable
  BY DEF TypeOK, CreateAction, ReqState, Idle, StatusReq, CancelReq, SubmitReq,
         ReviewReq, FineReq, ATable
<1>2. /\ action[a] = Unborn
      /\ action' = [action EXCEPT ![a] =
           [violation |-> req[r].violation, type |-> req[r].type, status |-> "PENDING"]]
  BY DEF CreateAction
<1>3. [violation |-> req[r].violation, type |-> req[r].type, status |-> "PENDING"] \in ActionRow
  BY <1>1 DEF SubmitReq, ActionRow
<1>4. /\ req[r].violation \in Violation /\ req[r].type \in ActionType
      /\ action' \in ATable
      /\ action'[a].violation = req[r].violation
      /\ action'[a].type = req[r].type
      /\ action'[a].status = "PENDING"
      /\ \A b \in Action \ {a} : action'[b] = action[b]
  BY <1>1, <1>2, <1>3 DEF SubmitReq, ATable
<1>5. /\ req' \in [Request -> ReqState]
      /\ \A s \in Request \ {r} : req'[s] = req[s]
      /\ \/ req'[r] = Idle /\ req[r].type # "APPEAL"
         \/ /\ req'[r].op = "flag"
            /\ req[r].type = "APPEAL"
            /\ req'[r].violation = req[r].violation
  <2>1. CASE req[r].type = "APPEAL"
    <3>1. [req[r] EXCEPT !.op = "flag"] \in ReqState
      BY <1>1 DEF SubmitReq, ReqState
    <3>2. req' = [req EXCEPT ![r].op = "flag"]
      BY <2>1 DEF CreateAction
    <3>. QED
      BY <1>1, <2>1, <3>1, <3>2 DEF TypeOK, SubmitReq
  <2>2. CASE req[r].type # "APPEAL"
    BY <2>2, FinishShape DEF CreateAction
  <2>. QED
    BY <2>1, <2>2
<1>. QED
  BY <1>2, <1>4, <1>5

(* What a step must do for the shape to survive it. *)
LEMMA ShapeKept ==
  ASSUME Shape,
         violation' \in VTable, fine' \in FTable, action' \in ATable,
         req' \in [Request -> ReqState], hist' \in Hist,
         \A v \in Violation : Issued(v) => violation'[v].status \in ViolationStatus,
         \A r \in Request :
           \/ req'[r] = req[r]
           \/ HeldKnown(req'[r])
         ,
         \A a \in Action :
           \/ action'[a] = action[a]
           \/ /\ action'[a].status \in Decision \cup {"PENDING"}
              /\ Issued(action'[a].violation) /\ action'[a].violation \in Violation,
         \A v \in Violation :
           fine'[v].status # "unborn" =>
             fine[v].status # "unborn" \/ violation'[v].status \in ViolationStatus
  PROVE  Shape'
<1>1. TypeOK'
  BY DEF TypeOK, VTable, FTable, ATable, Hist
<1>2. ASSUME NEW v \in Violation, Issued(v)
      PROVE  Issued(v)'
  BY <1>2 DEF Issued
<1>3. ASSUME NEW a \in Action, Filed(a)
      PROVE  Filed(a)'
  BY <1>3 DEF Filed
<1>4. ASSUME NEW r \in Request
      PROVE  HeldKnown(req[r])'
  <2>1. HeldKnown(req'[r])
    BY DEF Shape, RefsOk
  <2>2. req'[r] \in ReqState
    OBVIOUS
  <2>. QED
    BY <1>2, <1>3, <2>1, <2>2, StateOfRequest DEF HeldKnown
<1>5. ASSUME NEW a \in Action, Filed(a)'
      PROVE  Issued(action[a].violation)'
  <2>1. Issued(action'[a].violation) /\ action'[a].violation \in Violation
    <3>1. CASE action'[a] = action[a]
      BY <1>5, <3>1, TypeFacts DEF Shape, RefsOk, Filed, ActionRow
    <3>2. CASE action'[a] # action[a]
      BY <3>2
    <3>. QED
      BY <3>1, <3>2
  <2>. QED
    BY <1>2, <2>1
<1>6. ASSUME NEW v \in Violation, fine'[v].status # "unborn"
      PROVE  Issued(v)'
  <2>1. CASE fine[v].status # "unborn"
    BY <1>2, <2>1 DEF Shape, RefsOk
  <2>2. CASE violation'[v].status \in ViolationStatus
    BY <2>2 DEF Issued
  <2>. QED
    BY <1>6, <2>1, <2>2
<1>. QED
  BY <1>1, <1>4, <1>5, <1>6 DEF Shape, RefsOk

LEMMA ShapeInit == Init => Shape
<1>. SUFFICES ASSUME Init
              PROVE  Shape
  OBVIOUS
<1>1. TypeOK
  BY RequestShapes DEF Init, TypeOK
<1>2. \A r \in Request : HeldKnown(req[r])
  BY DEF Init, HeldKnown, Idle
<1>3. \A a \in Action : ~Filed(a)
  BY DEF Init, Filed, Unborn
<1>4. \A v \in Violation : fine[v].status = "unborn"
  BY DEF Init
<1>. QED
  BY <1>1, <1>2, <1>3, <1>4 DEF Shape, RefsOk

(* A review writes the decision to the request and to its violation. *)
LEMMA CommitReviewShape ==
  ASSUME Shape, NEW r \in Request, CommitReview(r)
  PROVE  LET a == req[r].action  v == action[a].violation  d == req[r].decision
         IN  /\ a \in Action /\ Filed(a) /\ v \in Violation /\ Issued(v) /\ d \in Decision
             /\ action' \in ATable /\ violation' \in VTable /\ fine' \in FTable
             /\ hist' \in Hist
             /\ hist'.overtaken = IF action[a].type = "APPEAL" /\ Flagging(v) # {}
                                  THEN hist.overtaken \cup {v} ELSE hist.overtaken
             /\ hist'.broken = hist.broken
             /\ action'[a].status = d
             /\ action'[a].violation = v
             /\ action'[a].type = action[a].type
             /\ \A b \in Action \ {a} : action'[b] = action[b]
             /\ violation'[v].status =
                  IF d = "APPROVED" THEN "CANCELLED" ELSE violation[v].status
             /\ violation'[v].appeal =
                  IF action[a].type = "APPEAL" THEN d ELSE violation[v].appeal
             /\ \A u \in Violation \ {v} : violation'[u] = violation[u]
             /\ \/ /\ d = "APPROVED"
                   /\ AnnulFine(v) /\ hist'.annulled = hist.annulled \cup {v}
                \/ fine' = fine /\ hist'.annulled = hist.annulled
<1>. DEFINE a == req[r].action
            v == action[a].violation
            d == req[r].decision
<1>1. /\ a \in Action /\ Filed(a) /\ d \in Decision /\ action[a] \in ActionRow
  BY TypeFacts, StateOfRequest DEF Shape, RefsOk, HeldKnown, CommitReview
<1>2. v \in Violation /\ Issued(v) /\ violation[v] \in ViolationRow
  BY <1>1, TypeFacts DEF Shape, RefsOk, ActionRow
<1>3. /\ action' = [action EXCEPT ![a].status = d]
      /\ violation' = [violation EXCEPT ![v] = Reviewed(@, action[a].type, d)]
      /\ IF d = "APPROVED" THEN AnnulFine(v) ELSE UNCHANGED fine
      /\ hist' = [hist EXCEPT
           !.annulled = IF d = "APPROVED" THEN @ \cup {v} ELSE @,
           !.overtaken = IF action[a].type = "APPEAL" /\ Flagging(v) # {}
                         THEN @ \cup {v} ELSE @]
  BY DEF CommitReview
<1>4. /\ TypeOK /\ violation \in VTable /\ fine \in FTable /\ action \in ATable
      /\ hist \in Hist
  BY TypeFacts DEF Shape
<1>. HIDE DEF a, v, d
<1>5. [action[a] EXCEPT !.status = d] \in ActionRow
  BY <1>1 DEF ActionRow
<1>6. /\ action' \in ATable
      /\ action'[a].status = d
      /\ action'[a].violation = action[a].violation
      /\ action'[a].type = action[a].type
      /\ \A b \in Action \ {a} : action'[b] = action[b]
  BY <1>1, <1>3, <1>4, <1>5 DEF ATable, ActionRow
<1>7. /\ Reviewed(violation[v], action[a].type, d) \in ViolationRow
      /\ Reviewed(violation[v], action[a].type, d).status =
           IF d = "APPROVED" THEN "CANCELLED" ELSE violation[v].status
      /\ Reviewed(violation[v], action[a].type, d).appeal =
           IF action[a].type = "APPEAL" THEN d ELSE violation[v].appeal
  BY <1>1, <1>2 DEF Reviewed, ViolationRow
<1>8. /\ violation' \in VTable
      /\ violation'[v].status =
           IF d = "APPROVED" THEN "CANCELLED" ELSE violation[v].status
      /\ violation'[v].appeal =
           IF action[a].type = "APPEAL" THEN d ELSE violation[v].appeal
      /\ \A u \in Violation \ {v} : violation'[u] = violation[u]
  BY <1>2, <1>3, <1>4, <1>7 DEF VTable
<1>9. /\ hist' \in Hist /\ hist'.broken = hist.broken
      /\ hist'.overtaken = IF action[a].type = "APPEAL" /\ Flagging(v) # {}
                           THEN hist.overtaken \cup {v} ELSE hist.overtaken
      /\ hist'.annulled = IF d = "APPROVED" THEN hist.annulled \cup {v}
                          ELSE hist.annulled
  BY <1>2, <1>3, <1>4 DEF Hist
<1>a. fine' \in FTable
  BY <1>2, <1>3, <1>4, AnnulFineShape
<1>10. action'[a].violation = v
  BY <1>6 DEF v
<1>. QED
  BY <1>1, <1>2, <1>3, <1>6, <1>8, <1>9, <1>a, <1>10 DEF a, v, d

LEMMA ShapeStep == Shape /\ [Next]_vars => Shape'
<1>. SUFFICES ASSUME Shape, [Next]_vars
              PROVE  Shape'
  OBVIOUS
<1>t. /\ TypeOK /\ violation \in VTable /\ fine \in FTable /\ action \in ATable
      /\ req \in [Request -> ReqState] /\ hist \in Hist
      /\ \A v \in Violation : Issued(v) => violation[v].status \in ViolationStatus
  BY TypeFacts DEF Shape, Issued
<1>f. ASSUME NEW r \in Request, Finish(r)
      PROVE  /\ req' \in [Request -> ReqState]
             /\ \A s \in Request : req'[s] = req[s] \/ HeldKnown(req'[s])
  BY <1>t, <1>f, FinishShape DEF HeldKnown, Idle
<1>1. ASSUME NEW r \in Request, StartStep(r)
      PROVE  Shape'
  <2>1. PICK q \in ReqState : Begin(r, q) /\ HeldKnown(q)
    BY <1>1, StartStepShape
  <2>2. UNCHANGED <<violation, fine, action>>
    BY <1>1, StartStepShape
  <2>3. /\ req' \in [Request -> ReqState] /\ hist' \in Hist
        /\ \A s \in Request : req'[s] = req[s] \/ HeldKnown(req'[s])
    BY <1>t, <2>1, BeginShape
  <2>. QED
    BY <1>t, <2>2, <2>3, ShapeKept
<1>2. ASSUME NEW r \in Request, CommitStatus(r)
      PROVE  Shape'
  <2>1. /\ req[r].violation \in Violation /\ Issued(req[r].violation)
        /\ req[r].to \in ViolationStatus
    BY <1>t, <1>2, StateOfRequest DEF CommitStatus, Shape, RefsOk, HeldKnown
  <2>2. Finish(r) /\ SetStatus(req[r].violation, req[r].to) /\ UNCHANGED <<fine, action, hist>>
    BY <1>2 DEF CommitStatus
  <2>. QED
    BY <1>t, <1>f, <2>1, <2>2, SetStatusShape, ShapeKept
<1>3. ASSUME NEW r \in Request, CommitCancel(r)
      PROVE  Shape'
  <2>1. req[r].violation \in Violation /\ Issued(req[r].violation)
    BY <1>t, <1>3, StateOfRequest DEF CommitCancel, Shape, RefsOk, HeldKnown
  <2>2. /\ Finish(r) /\ SetStatus(req[r].violation, "CANCELLED")
        /\ AnnulFine(req[r].violation) /\ action' = action
        /\ hist' = [hist EXCEPT !.annulled = @ \cup {req[r].violation}]
    BY <1>3 DEF CommitCancel
  <2>3. hist' \in Hist
    BY <1>t, <2>1, <2>2 DEF Hist
  <2>4. /\ fine' \in FTable
        /\ \A v \in Violation : fine'[v].status # "unborn" => fine[v].status # "unborn"
    BY <1>t, <2>1, <2>2, AnnulFineShape
  <2>5. /\ violation' \in VTable
        /\ \A v \in Violation : Issued(v) => violation'[v].status \in ViolationStatus
    BY <1>t, <2>1, <2>2, SetStatusShape
  <2>. QED
    BY <1>t, <1>f, <2>2, <2>3, <2>4, <2>5, ShapeKept
<1>4. ASSUME NEW r \in Request, CommitSettle(r)
      PROVE  Shape'
  <2>. DEFINE v == req[r].violation
  <2>1. v \in Violation /\ Issued(v)
    BY <1>t, <1>4, StateOfRequest DEF CommitSettle, Shape, RefsOk, HeldKnown
  <2>2. /\ Finish(r) /\ SetStatus(v, "PAID") /\ UNCHANGED <<action, hist>>
        /\ (fine[v].status \in Payable /\ SetFine(v, "PAID")) \/ fine' = fine
    BY <1>4 DEF CommitSettle
  <2>. HIDE DEF v
  <2>3. /\ fine' \in FTable
        /\ \A u \in Violation : fine'[u].status # "unborn" => fine[u].status # "unborn"
    BY <1>t, <2>1, <2>2, SetFineShape DEF Payable
  <2>4. /\ violation' \in VTable
        /\ \A u \in Violation : Issued(u) => violation'[u].status \in ViolationStatus
    BY <1>t, <2>1, <2>2, SetStatusShape
  <2>. QED
    BY <1>t, <1>f, <2>2, <2>3, <2>4, ShapeKept
<1>5. ASSUME NEW r \in Request, CommitReview(r)
      PROVE  Shape'
  <2>. DEFINE a == req[r].action
              v == action[a].violation
  <2>1. /\ a \in Action /\ v \in Violation /\ Issued(v) /\ req[r].decision \in Decision
        /\ action' \in ATable /\ violation' \in VTable /\ fine' \in FTable /\ hist' \in Hist
        /\ action'[a].status = req[r].decision
        /\ action'[a].violation = v
        /\ \A b \in Action \ {a} : action'[b] = action[b]
        /\ violation'[v].status \in {"CANCELLED", violation[v].status}
        /\ \A u \in Violation \ {v} : violation'[u] = violation[u]
        /\ AnnulFine(v) \/ fine' = fine
    BY <1>5, CommitReviewShape
  <2>2. Finish(r)
    BY <1>5 DEF CommitReview
  <2>. HIDE DEF a, v
  <2>3. \A u \in Violation : fine'[u].status # "unborn" => fine[u].status # "unborn"
    BY <1>t, <2>1, AnnulFineShape
  <2>4. \A u \in Violation : Issued(u) => violation'[u].status \in ViolationStatus
    BY <1>t, <2>1
  <2>5. \A b \in Action :
          \/ action'[b] = action[b]
          \/ /\ action'[b].status \in Decision \cup {"PENDING"}
             /\ Issued(action'[b].violation) /\ action'[b].violation \in Violation
    BY <2>1
  <2>. QED
    BY <1>t, <1>f, <2>1, <2>2, <2>3, <2>4, <2>5, ShapeKept
<1>6. ASSUME NEW r \in Request, CheckPending(r)
      PROVE  Shape'
  <2>1. Issued(req[r].violation)
    BY <1>t, <1>6 DEF CheckPending, Shape, RefsOk, HeldKnown
  <2>2. /\ req' \in [Request -> ReqState]
        /\ \A s \in Request : req'[s] = req[s] \/ HeldKnown(req'[s])
    BY <1>t, <1>6, <2>1, CheckPendingShape DEF HeldKnown, Idle
  <2>. QED
    BY <1>t, <1>6, <2>2, ShapeKept DEF CheckPending
<1>7. ASSUME NEW r \in Request, NEW a \in Action, CreateAction(r, a)
      PROVE  Shape'
  <2>1. Issued(req[r].violation) /\ UNCHANGED <<violation, fine, hist>>
    BY <1>t, <1>7 DEF CreateAction, Shape, RefsOk, HeldKnown
  <2>a. TypeOK /\ CreateAction(r, a)
    BY <1>t, <1>7
  <2>b. /\ req' \in [Request -> ReqState]
        /\ \A s \in Request \ {r} : req'[s] = req[s]
        /\ req[r].violation \in Violation
        /\ action' \in ATable
        /\ \A b \in Action \ {a} : action'[b] = action[b]
    BY <2>a, CreateActionShape
  <2>c. \/ req'[r] = Idle
        \/ req'[r].op = "flag" /\ req'[r].violation = req[r].violation
    BY <2>a, CreateActionShape
  <2>d. action'[a].violation = req[r].violation /\ action'[a].status = "PENDING"
    BY <2>a, CreateActionShape
  <2>2. \A s \in Request : req'[s] = req[s] \/ HeldKnown(req'[s])
    BY <2>1, <2>b, <2>c DEF HeldKnown, Idle
  <2>3. \A b \in Action :
          \/ action'[b] = action[b]
          \/ /\ action'[b].status \in Decision \cup {"PENDING"}
             /\ Issued(action'[b].violation) /\ action'[b].violation \in Violation
    BY <2>1, <2>b, <2>d
  <2>. QED
    BY <1>t, <2>1, <2>b, <2>2, <2>3, ShapeKept
<1>8. ASSUME NEW r \in Request, FlagAppeal(r)
      PROVE  Shape'
  <2>1. req[r].violation \in Violation /\ Issued(req[r].violation)
    BY <1>t, <1>8, StateOfRequest DEF FlagAppeal, Shape, RefsOk, HeldKnown
  <2>2. /\ violation' \in VTable
        /\ \A u \in Violation : Issued(u) => violation'[u].status \in ViolationStatus
    BY <1>8, <2>1, TypeFacts DEF Shape, FlagAppeal, VTable, ViolationRow
  <2>3. Finish(r) /\ UNCHANGED <<fine, action, hist>>
    BY <1>8 DEF FlagAppeal
  <2>. QED
    BY <1>t, <1>f, <2>2, <2>3, ShapeKept
<1>9. ASSUME NEW r \in Request, CommitPay(r)
      PROVE  Shape'
  <2>. DEFINE v == req[r].violation
  <2>1. /\ v \in Violation /\ Finish(r) /\ UNCHANGED <<action, hist>>
        /\ \/ Exists(fine[v]) /\ SetFine(v, "PAID") /\ SetStatus(v, "PAID")
           \/ UNCHANGED <<violation, fine>>
    BY <1>t, <1>9, StateOfRequest DEF CommitPay, PaidViolationStatus
  <2>. HIDE DEF v
  <2>2. CASE UNCHANGED <<violation, fine>>
    BY <1>t, <1>f, <2>1, <2>2, ShapeKept
  <2>3. CASE Exists(fine[v]) /\ SetFine(v, "PAID") /\ SetStatus(v, "PAID")
    <3>1. Issued(v)
      BY <2>1, <2>3 DEF Shape, RefsOk, Exists
    <3>2. /\ violation' \in VTable
          /\ \A u \in Violation : Issued(u) => violation'[u].status \in ViolationStatus
      BY <1>t, <2>1, <2>3, <3>1, SetStatusShape
    <3>3. /\ fine' \in FTable
          /\ \A u \in Violation : fine'[u].status # "unborn" => fine[u].status # "unborn"
      BY <1>t, <2>1, <2>3, SetFineShape DEF Exists
    <3>. QED
      BY <1>t, <1>f, <2>1, <3>2, <3>3, ShapeKept
  <2>. QED
    BY <2>1, <2>2, <2>3
<1>10. ASSUME NEW r \in Request, CommitVoid(r) \/ CommitRemove(r)
       PROVE  Shape'
  <2>. DEFINE v == req[r].violation
  <2>1. /\ v \in Violation /\ Finish(r) /\ UNCHANGED <<violation, action, hist>>
        /\ \/ \E st \in RowStatus : Exists(fine[v]) /\ SetFine(v, st)
           \/ fine' = fine
    BY <1>t, <1>10, StateOfRequest DEF CommitVoid, CommitRemove
  <2>. HIDE DEF v
  <2>2. /\ fine' \in FTable
        /\ \A u \in Violation : fine'[u].status # "unborn" => fine[u].status # "unborn"
    BY <1>t, <2>1, SetFineShape DEF Exists
  <2>. QED
    BY <1>t, <1>f, <2>1, <2>2, ShapeKept
<1>11. ASSUME NEW r \in Request, Fail(r)
       PROVE  Shape'
  <2>1. hist' \in Hist
    BY <1>t, <1>11 DEF Fail, Hist
  <2>. QED
    BY <1>t, <1>f, <1>11, <2>1, ShapeKept DEF Fail
<1>12. ASSUME NEW v \in Violation, NEW fined \in BOOLEAN, CreateViolation(v, fined)
       PROVE  Shape'
  <2>1. /\ violation' = [violation EXCEPT ![v] =
             [status |-> "PENDING", appeal |-> "none", lapsed |-> FALSE]]
        /\ SetFine(v, "PENDING") \/ fine' = fine
        /\ UNCHANGED <<action, req, hist>>
    BY <1>12 DEF CreateViolation
  <2>2. /\ violation' \in VTable
        /\ violation'[v].status \in ViolationStatus
        /\ \A u \in Violation : Issued(u) => violation'[u].status \in ViolationStatus
    BY <1>t, <2>1 DEF VTable, ViolationRow
  <2>3. /\ fine' \in FTable
        /\ \A u \in Violation \ {v} : fine'[u].status = fine[u].status
    BY <1>t, <2>1, SetFineShape
  <2>. QED
    BY <1>t, <2>1, <2>2, <2>3, ShapeKept
<1>13. ASSUME NEW v \in Violation, DeadlinePasses(v)
       PROVE  Shape'
  <2>1. /\ violation' \in VTable
        /\ \A u \in Violation : Issued(u) => violation'[u].status \in ViolationStatus
    BY <1>13, TypeFacts DEF Shape, DeadlinePasses, VTable, ViolationRow, Issued
  <2>. QED
    BY <1>t, <1>13, <2>1, ShapeKept DEF DeadlinePasses
<1>14. ASSUME BulkMarkOverdue
       PROVE  Shape'
  <2>1. /\ fine' \in FTable
        /\ \A u \in Violation : fine'[u].status # "unborn" => fine[u].status # "unborn"
    BY <1>t, <1>14 DEF BulkMarkOverdue, WriteStatus, FTable
  <2>. QED
    BY <1>t, <1>14, <2>1, ShapeKept DEF BulkMarkOverdue
<1>15. CASE UNCHANGED vars
  BY <1>15 DEF vars, Shape, TypeOK, RefsOk, HeldKnown, Issued, Filed
<1>16. ASSUME NEW r \in Request, LaterStep(r)
       PROVE  Shape'
  BY <1>2, <1>3, <1>4, <1>5, <1>6, <1>7, <1>8, <1>9, <1>10, <1>11, <1>16 DEF LaterStep
<1>. QED
  BY <1>1, <1>12, <1>13, <1>14, <1>15, <1>16, NextSteps

(* In every reachable state the tables and the calls in flight have their   *)
(* types, for any number of violations, action requests and calls.          *)
THEOREM TypeCorrect == Spec => []TypeOK
<1>1. Shape => TypeOK
  BY DEF Shape
<1>. QED
  BY <1>1, ShapeInit, ShapeStep, PTL DEF Spec

-----------------------------------------------------------------------------
(* What the later steps of a call do *)

LEMMA LaterEffect ==
  ASSUME Shape, NEW r \in Request, LaterStep(r)
  PROVE  \A v \in Violation :
           /\ fine'[v].status = "PENDING" => fine[v].status = "PENDING"
           /\ v \in hist'.annulled =>
                \/ v \in hist.annulled
                \/ Issued(v) /\ fine'[v].status # "PENDING"
           /\ \/ violation'[v].status = violation[v].status
              \/ violation'[v].status \in {"PAID", "CANCELLED"}
              \/ /\ req[r].op = "status" /\ req[r].violation = v
                 /\ violation'[v].status = req[r].to
<1>t. /\ TypeOK /\ fine \in FTable /\ hist \in Hist /\ req[r] \in ReqState
      /\ violation \in VTable
  BY TypeFacts DEF Shape
<1>1. CASE CommitStatus(r)
  <2>1. /\ req[r].violation \in Violation /\ Issued(req[r].violation)
        /\ req[r].to \in ViolationStatus
    BY <1>t, <1>1, StateOfRequest DEF CommitStatus, Shape, RefsOk, HeldKnown
  <2>2. /\ req[r].op = "status" /\ SetStatus(req[r].violation, req[r].to)
        /\ UNCHANGED <<fine, hist>>
    BY <1>1 DEF CommitStatus
  <2>. QED
    BY <1>t, <2>1, <2>2, SetStatusShape
<1>2. CASE CommitCancel(r)
  <2>. DEFINE v == req[r].violation
  <2>1. v \in Violation /\ Issued(v)
    BY <1>t, <1>2, StateOfRequest DEF CommitCancel, Shape, RefsOk, HeldKnown
  <2>2. /\ SetStatus(v, "CANCELLED") /\ AnnulFine(v)
        /\ hist' = [hist EXCEPT !.annulled = @ \cup {v}]
    BY <1>2 DEF CommitCancel
  <2>. HIDE DEF v
  <2>3. hist'.annulled = hist.annulled \cup {v}
    BY <1>t, <2>2 DEF Hist
  <2>4. /\ violation'[v].status = "CANCELLED"
        /\ \A u \in Violation \ {v} : violation'[u] = violation[u]
    BY <1>t, <2>1, <2>2, SetStatusShape
  <2>. QED
    BY <1>t, <2>1, <2>2, <2>3, <2>4, AnnulFineShape
<1>3. CASE CommitSettle(r)
  <2>. DEFINE v == req[r].violation
  <2>1. v \in Violation /\ Issued(v)
    BY <1>t, <1>3, StateOfRequest DEF CommitSettle, Shape, RefsOk, HeldKnown
  <2>2. /\ SetStatus(v, "PAID") /\ hist' = hist
        /\ SetFine(v, "PAID") \/ fine' = fine
    BY <1>3 DEF CommitSettle
  <2>. HIDE DEF v
  <2>3. /\ violation'[v].status = "PAID"
        /\ \A u \in Violation \ {v} : violation'[u] = violation[u]
    BY <1>t, <2>1, <2>2, SetStatusShape
  <2>. QED
    BY <1>t, <2>1, <2>2, <2>3, SetFineShape
<1>4. CASE CommitReview(r)
  <2>. DEFINE a == req[r].action
              v == action[a].violation
              d == req[r].decision
  <2>1. /\ v \in Violation /\ Issued(v)
        /\ violation'[v].status = IF d = "APPROVED" THEN "CANCELLED" ELSE violation[v].status
        /\ \A u \in Violation \ {v} : violation'[u] = violation[u]
        /\ \/ /\ d = "APPROVED"
              /\ AnnulFine(v) /\ hist'.annulled = hist.annulled \cup {v}
           \/ fine' = fine /\ hist'.annulled = hist.annulled
    BY <1>4, CommitReviewShape
  <2>. HIDE DEF a, v, d
  <2>. QED
    BY <1>t, <2>1, AnnulFineShape
<1>5. CASE CheckPending(r) \/ Fail(r) \/ \E a \in Action : CreateAction(r, a)
  BY <1>t, <1>5 DEF CheckPending, Fail, CreateAction, Hist
<1>6. CASE FlagAppeal(r)
  <2>1. req[r].violation \in Violation /\ Issued(req[r].violation)
    BY <1>t, <1>6, StateOfRequest DEF FlagAppeal, Shape, RefsOk, HeldKnown
  <2>2. \A u \in Violation : violation'[u].status = violation[u].status
    BY <1>t, <1>6, <2>1, TypeFacts DEF FlagAppeal, VTable, ViolationRow
  <2>. QED
    BY <1>6, <2>2 DEF FlagAppeal
<1>7. CASE CommitPay(r)
  <2>. DEFINE v == req[r].violation
  <2>1. /\ v \in Violation /\ hist' = hist
        /\ \/ Exists(fine[v]) /\ SetFine(v, "PAID") /\ SetStatus(v, "PAID")
           \/ UNCHANGED <<violation, fine>>
    BY <1>t, <1>7, StateOfRequest DEF CommitPay, PaidViolationStatus
  <2>. HIDE DEF v
  <2>2. CASE Exists(fine[v]) /\ SetFine(v, "PAID") /\ SetStatus(v, "PAID")
    <3>1. Issued(v)
      BY <2>1, <2>2 DEF Shape, RefsOk, Exists
    <3>2. /\ violation'[v].status = "PAID"
          /\ \A u \in Violation \ {v} : violation'[u] = violation[u]
      BY <1>t, <2>1, <2>2, <3>1, SetStatusShape
    <3>. QED
      BY <1>t, <2>1, <2>2, <3>2, SetFineShape
  <2>. QED
    BY <2>1, <2>2
<1>8. CASE CommitVoid(r) \/ CommitRemove(r)
  <2>. DEFINE v == req[r].violation
  <2>1. /\ v \in Violation /\ UNCHANGED <<violation, hist>>
        /\ \/ \E st \in {"CANCELLED", "deleted"} : SetFine(v, st)
           \/ fine' = fine
    BY <1>t, <1>8, StateOfRequest DEF CommitVoid, CommitRemove
  <2>. HIDE DEF v
  <2>. QED
    BY <1>t, <2>1, SetFineShape
<1>. QED
  BY <1>1, <1>2, <1>3, <1>4, <1>5, <1>6, <1>7, <1>8 DEF LaterStep

LEMMA LaterReq ==
  ASSUME TypeOK, NEW r \in Request, LaterStep(r)
  PROVE  /\ req[r] # Idle
         /\ \A s \in Request \ {r} : req'[s] = req[s]
         /\ req'[r].op \in {"idle", "create", "flag"}
         /\ req'[r].op # "idle" \/ req'[r] = Idle
<1>t. \A a \in Action : CreateAction(r, a) => req[r].op = "create"
  BY DEF CreateAction
<1>1. req[r] # Idle
  <2>1. req[r].op \in {"status", "cancel", "settle", "check", "create", "flag", "review",
                        "pay", "void", "remove"} \/ Fail(r)
    BY DEF LaterStep, CommitStatus, CommitCancel, CommitSettle, CommitReview,
           CheckPending, CreateAction, FlagAppeal, CommitPay, CommitVoid, CommitRemove
  <2>. QED
    BY <2>1 DEF Fail, Idle
<1>2. CASE Finish(r)
  BY <1>1, <1>2, FinishShape DEF Idle
<1>3. CASE CheckPending(r)
  BY <1>1, <1>3, CheckPendingShape DEF Idle
<1>4. CASE \E a \in Action : CreateAction(r, a)
  <2>1. PICK a \in Action : CreateAction(r, a)
    BY <1>4
  <2>2. /\ \A s \in Request \ {r} : req'[s] = req[s]
        /\ req'[r] = Idle \/ req'[r].op = "flag"
    BY <2>1, CreateActionShape
  <2>. QED
    BY <1>1, <2>2 DEF Idle
<1>. QED
  BY <1>2, <1>3, <1>4 DEF LaterStep, CommitStatus, CommitCancel, CommitSettle,
     CommitReview, FlagAppeal, CommitPay, CommitVoid, CommitRemove, Fail

(* An action request is written when it is filed and when it is reviewed.   *)
LEMMA ActionEffect ==
  ASSUME Shape, NEW r \in Request, LaterStep(r), NEW b \in Action
  PROVE  \/ action'[b] = action[b]
         \/ /\ req[r].op = "review" /\ req[r].action = b
            /\ action'[b].status \in Decision
            /\ action'[b].violation = action[b].violation
            /\ action'[b].type = action[b].type
         \/ CreateAction(r, b)
<1>1. CASE CommitReview(r)
  <2>1. /\ req[r].decision \in Decision
        /\ action'[req[r].action].status = req[r].decision
        /\ action'[req[r].action].violation = action[req[r].action].violation
        /\ action'[req[r].action].type = action[req[r].action].type
        /\ \A c \in Action \ {req[r].action} : action'[c] = action[c]
    BY <1>1, CommitReviewShape
  <2>. QED
    BY <1>1, <2>1 DEF CommitReview
<1>2. CASE \E a \in Action : CreateAction(r, a)
  <2>1. PICK a \in Action : CreateAction(r, a)
    BY <1>2
  <2>. QED
    BY <2>1, CreateActionShape DEF Shape
<1>3. CASE ~CommitReview(r) /\ ~\E a \in Action : CreateAction(r, a)
  BY <1>3 DEF LaterStep, CommitStatus, CommitCancel, CommitSettle, CheckPending,
     FlagAppeal, CommitPay, CommitVoid, CommitRemove, Fail
<1>. QED
  BY <1>1, <1>2, <1>3

(* The steps of nobody's call. *)
LEMMA OtherEffect ==
  ASSUME Shape,
         \/ \E v \in Violation, fined \in BOOLEAN : CreateViolation(v, fined)
         \/ \E v \in Violation : DeadlinePasses(v)
         \/ BulkMarkOverdue
         \/ UNCHANGED vars
  PROVE  /\ UNCHANGED <<action, req, hist>>
         /\ \A v \in Violation : Issued(v) =>
              /\ fine'[v].status = "PENDING" => fine[v].status = "PENDING"
              /\ fine'[v].status = "PAID" => fine[v].status = "PAID"
              /\ violation'[v].status = violation[v].status
              /\ violation'[v].appeal = violation[v].appeal
         /\ \A v \in Violation : ~Issued(v) =>
              /\ fine'[v].status # "PAID"
              /\ Issued(v)' => violation'[v].appeal = "none"
<1>t. /\ TypeOK /\ fine \in FTable /\ violation \in VTable
      /\ \A v \in Violation : ~Issued(v) => fine[v].status = "unborn"
  BY TypeFacts DEF Shape, RefsOk
<1>1. ASSUME NEW v \in Violation, NEW fined \in BOOLEAN, CreateViolation(v, fined)
      PROVE  /\ UNCHANGED <<action, req, hist>>
             /\ violation[v] = Unborn
             /\ violation'[v].appeal = "none"
             /\ fine'[v].status # "PAID"
             /\ \A u \in Violation \ {v} : violation'[u] = violation[u] /\ fine'[u] = fine[u]
  <2>1. /\ UNCHANGED <<action, req, hist>>
        /\ violation[v] = Unborn
        /\ violation' = [violation EXCEPT ![v] =
             [status |-> "PENDING", appeal |-> "none", lapsed |-> FALSE]]
        /\ SetFine(v, "PENDING") \/ fine' = fine
    BY <1>1 DEF CreateViolation
  <2>2. violation'[v].appeal = "none" /\ \A u \in Violation \ {v} : violation'[u] = violation[u]
    BY <1>t, <2>1 DEF VTable
  <2>3. ~Issued(v)
    BY <2>1 DEF Issued, Unborn
  <2>4. fine'[v].status # "PAID" /\ \A u \in Violation \ {v} : fine'[u] = fine[u]
    BY <1>t, <2>1, <2>3, SetFineShape
  <2>. QED
    BY <2>1, <2>2, <2>4
<1>2. ASSUME NEW v \in Violation, DeadlinePasses(v)
      PROVE  /\ UNCHANGED <<fine, action, req, hist>>
             /\ \A u \in Violation : /\ violation'[u].status = violation[u].status
                                     /\ Issued(u) => violation'[u].appeal = violation[u].appeal
  BY <1>t, <1>2, TypeFacts DEF DeadlinePasses, VTable, ViolationRow
<1>3. ASSUME BulkMarkOverdue
      PROVE  /\ UNCHANGED <<violation, action, req, hist>>
             /\ \A u \in Violation : \/ fine'[u].status = fine[u].status
                                     \/ fine'[u].status = "OVERDUE"
  BY <1>t, <1>3 DEF BulkMarkOverdue, WriteStatus, FTable
<1>4. CASE \E v \in Violation, fined \in BOOLEAN : CreateViolation(v, fined)
  BY <1>t, <1>1, <1>4 DEF Issued, Unborn
<1>5. CASE \E v \in Violation : DeadlinePasses(v)
  BY <1>t, <1>2, <1>5 DEF Issued
<1>6. CASE BulkMarkOverdue
  BY <1>t, <1>3, <1>6 DEF Issued
<1>7. CASE UNCHANGED vars
  BY <1>t, <1>7 DEF vars, Issued
<1>. QED
  BY <1>4, <1>5, <1>6, <1>7

-----------------------------------------------------------------------------
(* Annulled violations *)

AnnulInv ==
  /\ \A v \in hist.annulled : Issued(v)
  /\ AnnulledFineNotPending

LEMMA AnnulStep == Shape /\ AnnulInv /\ [Next]_vars => AnnulInv'
<1>. SUFFICES ASSUME Shape, AnnulInv, [Next]_vars
              PROVE  AnnulInv'
  OBVIOUS
<1>s. Shape' /\ hist.annulled \subseteq Violation /\ hist'.annulled \subseteq Violation
  BY ShapeStep, TypeFacts DEF Shape, TypeOK
<1>i. \A v \in hist.annulled : Issued(v) /\ fine[v].status # "PENDING"
  BY DEF AnnulInv, AnnulledFineNotPending
<1>k. ASSUME \A v \in hist'.annulled : fine'[v].status # "PENDING",
             \A v \in hist'.annulled : violation'[v].status \in ViolationStatus
      PROVE  AnnulInv'
  BY <1>k DEF AnnulInv, AnnulledFineNotPending, Issued
<1>1. ASSUME NEW r \in Request, StartStep(r)
      PROVE  AnnulInv'
  <2>1. PICK q \in ReqState : Begin(r, q)
    BY <1>1, StartStepShape
  <2>2. hist' = hist
    BY <2>1, BeginShape DEF Shape
  <2>3. UNCHANGED <<violation, fine>>
    BY <1>1, StartStepShape
  <2>. QED
    BY <1>i, <1>k, <2>2, <2>3 DEF Issued
<1>2. ASSUME NEW r \in Request, LaterStep(r)
      PROVE  AnnulInv'
  <2>1. \A v \in hist'.annulled : fine'[v].status # "PENDING"
    BY <1>i, <1>s, <1>2, LaterEffect
  <2>2. \A v \in hist'.annulled : violation'[v].status \in ViolationStatus
    <3>. SUFFICES ASSUME NEW v \in hist'.annulled
                  PROVE  violation'[v].status \in ViolationStatus
      OBVIOUS
    <3>1. /\ v \in Violation /\ Issued(v)
          /\ \/ violation'[v].status = violation[v].status
             \/ violation'[v].status \in {"PAID", "CANCELLED"}
             \/ req[r].op = "status" /\ violation'[v].status = req[r].to
      BY <1>i, <1>s, <1>2, LaterEffect
    <3>2. req[r].op = "status" => req[r].to \in ViolationStatus
      BY StateOfRequest, TypeFacts DEF Shape
    <3>. QED
      BY <3>1, <3>2 DEF Issued
  <2>. QED
    BY <1>k, <2>1, <2>2
<1>3. CASE \/ \E v \in Violation, fined \in BOOLEAN : CreateViolation(v, fined)
           \/ \E v \in Violation : DeadlinePasses(v)
           \/ BulkMarkOverdue
           \/ UNCHANGED vars
  <2>1. hist' = hist
    BY <1>3, OtherEffect
  <2>2. \A v \in hist.annulled : fine'[v].status # "PENDING"
    BY <1>i, <1>s, <1>3, OtherEffect
  <2>3. \A v \in hist.annulled : violation'[v].status = violation[v].status
    BY <1>i, <1>s, <1>3, OtherEffect
  <2>. QED
    BY <1>i, <1>k, <2>1, <2>2, <2>3 DEF Issued
<1>. QED
  BY <1>1, <1>2, <1>3, NextSteps

(* "Approving an appeal cancels violation and linked pending fine invoice": *)
(* under every interleaving, no fine of an annulled violation is PENDING.   *)
(* Nothing more: a fine that was OVERDUE when its violation was annulled    *)
(* stays payable.                                                           *)
THEOREM AnnulledNotPending == Spec => []AnnulledFineNotPending
<1>1. Init => AnnulInv
  BY DEF Init, AnnulInv, AnnulledFineNotPending
<1>2. AnnulInv => AnnulledFineNotPending
  BY DEF AnnulInv
<1>. QED
  BY <1>1, <1>2, ShapeInit, ShapeStep, AnnulStep, PTL DEF Spec

-----------------------------------------------------------------------------
(* A violation out of the process *)

LEMMA OutStep ==
  ASSUME Shape, [Next]_vars, NEW v \in Violation, OutOfProcess(v)
  PROVE  OutOfProcess(v)'
<1>t. /\ TypeOK /\ violation \in VTable
      /\ violation[v].status \in Resolved /\ Issued(v)
      /\ \A s \in Request : req[s].op = "status" /\ req[s].violation = v => req[s].to \in Resolved
  BY TypeFacts DEF Shape, OutOfProcess, Issued, Resolved
<1>k. ASSUME violation'[v].status \in Resolved,
             \A s \in Request :
               req'[s].op = "status" /\ req'[s].violation = v => req'[s].to \in Resolved
      PROVE  OutOfProcess(v)'
  BY <1>k DEF OutOfProcess
<1>1. ASSUME NEW r \in Request, StartStep(r)
      PROVE  OutOfProcess(v)'
  <2>1. PICK q \in ReqState : Begin(r, q) /\ Tested(q)
    BY <1>1, StartStepShape
  <2>2. violation' = violation
    BY <1>1, StartStepShape
  <2>3. req'[r] = q /\ \A s \in Request \ {r} : req'[s] = req[s]
    BY <1>t, <2>1, BeginShape
  <2>4. q.op = "status" /\ q.violation = v => q.to \in Resolved
    BY <1>t, <2>1 DEF Tested, Transitions, Resolved
  <2>. QED
    BY <1>k, <1>t, <2>2, <2>3, <2>4
<1>2. ASSUME NEW r \in Request, LaterStep(r)
      PROVE  OutOfProcess(v)'
  <2>1. /\ \A s \in Request \ {r} : req'[s] = req[s]
        /\ req'[r].op # "status"
    BY <1>t, <1>2, LaterReq
  <2>2. \/ violation'[v].status = violation[v].status
        \/ violation'[v].status \in {"PAID", "CANCELLED"}
        \/ /\ req[r].op = "status" /\ req[r].violation = v
           /\ violation'[v].status = req[r].to
    BY <1>2, LaterEffect
  <2>. QED
    BY <1>k, <1>t, <2>1, <2>2 DEF Resolved
<1>3. CASE \/ \E u \in Violation, fined \in BOOLEAN : CreateViolation(u, fined)
           \/ \E u \in Violation : DeadlinePasses(u)
           \/ BulkMarkOverdue
           \/ UNCHANGED vars
  BY <1>k, <1>t, <1>3, OtherEffect
<1>. QED
  BY <1>1, <1>2, <1>3, NextSteps

(* However the calls overlap, once no late status change is in flight that  *)
(* would reopen it, a violation that is PAID, CLOSED or CANCELLED never     *)
(* comes back into the process.                                             *)
THEOREM OutIsForGood == Spec => OutForGood
<1>1. Shape /\ [Next]_vars =>
        [\A v \in Violation : OutOfProcess(v) => OutOfProcess(v)']_vars
  BY OutStep
<1>. QED
  BY <1>1, ShapeInit, ShapeStep, PTL DEF Spec, OutForGood

-----------------------------------------------------------------------------
(* Decisions *)

LEMMA DecidedStep ==
  ASSUME Shape, [Next]_vars, NEW a \in Action, Decided(a)
  PROVE  Decided(a)' /\ action'[a] = action[a]
<1>t. /\ TypeOK
      /\ action[a].status \in Decision /\ Filed(a)
      /\ \A s \in Request : ~(req[s].op = "review" /\ req[s].action = a)
  BY DEF Shape, Decided, Filed
<1>1. ASSUME NEW r \in Request, StartStep(r)
      PROVE  Decided(a)' /\ action' = action
  <2>1. PICK q \in ReqState : Begin(r, q) /\ Tested(q)
    BY <1>1, StartStepShape
  <2>2. action' = action
    BY <1>1, StartStepShape
  <2>3. req'[r] = q /\ \A s \in Request \ {r} : req'[s] = req[s]
    BY <1>t, <2>1, BeginShape
  <2>4. ~(q.op = "review" /\ q.action = a)
    BY <1>t, <2>1 DEF Tested
  <2>. QED
    BY <1>t, <2>2, <2>3, <2>4 DEF Decided
<1>2. ASSUME NEW r \in Request, LaterStep(r)
      PROVE  Decided(a)' /\ action'[a] = action[a]
  <2>1. /\ \A s \in Request \ {r} : req'[s] = req[s]
        /\ req'[r].op # "review"
    BY <1>t, <1>2, LaterReq
  <2>2. ~CreateAction(r, a)
    BY <1>t DEF CreateAction, Unborn
  <2>3. action'[a] = action[a]
    BY <1>t, <1>2, <2>2, ActionEffect
  <2>. QED
    BY <1>t, <2>1, <2>3 DEF Decided
<1>3. CASE \/ \E u \in Violation, fined \in BOOLEAN : CreateViolation(u, fined)
           \/ \E u \in Violation : DeadlinePasses(u)
           \/ BulkMarkOverdue
           \/ UNCHANGED vars
  BY <1>t, <1>3, OtherEffect DEF Decided
<1>. QED
  BY <1>1, <1>2, <1>3, NextSteps

(* Once no reviewer of it is in flight, no step changes an action request   *)
(* that has been decided, however many calls overlap.                       *)
THEOREM DecisionsStand == Spec => DecisionStands
<1>1. Shape /\ [Next]_vars =>
        [\A a \in Action : Decided(a) => Decided(a)' /\ action'[a] = action[a]]_vars
  BY DecidedStep
<1>. QED
  BY <1>1, ShapeInit, ShapeStep, PTL DEF Spec, DecisionStands

-----------------------------------------------------------------------------
(* The column appealStatus *)

IsAppeal(a, v) ==
  Filed(a) /\ action[a].violation = v /\ action[a].type = "APPEAL"

(* What the column says and knows, and that an appeal which is being noted  *)
(* is still pending unless a review overtook the note.                      *)
FlagInv(v) ==
  /\ Issued(v) /\ violation[v].appeal # "none" /\ v \notin hist.overtaken =>
       \E a \in Action : IsAppeal(a, v) /\ action[a].status = violation[v].appeal
  /\ (\E a \in Action : IsAppeal(a, v)) /\ Flagging(v) = {} /\ v \notin hist.broken =>
       violation[v].appeal # "none"
  /\ Flagging(v) # {} /\ v \notin hist.overtaken =>
       \E a \in Action : IsAppeal(a, v) /\ action[a].status = "PENDING"

(* A step that leaves the column, the appeals and their submissions alone.  *)
LEMMA FlagStill ==
  ASSUME NEW v \in Violation, FlagInv(v),
         \A a \in Action : /\ IsAppeal(a, v)' <=> IsAppeal(a, v)
                           /\ IsAppeal(a, v) => action'[a].status = action[a].status,
         Flagging(v)' = Flagging(v),
         v \in hist'.overtaken <=> v \in hist.overtaken,
         v \in hist'.broken <=> v \in hist.broken,
         violation'[v].appeal = violation[v].appeal,
         Issued(v)' => Issued(v)
  PROVE  FlagInv(v)'
BY DEF FlagInv

LEMMA FlaggingKept ==
  ASSUME NEW r \in Request, NEW v,
         \A s \in Request \ {r} : req'[s] = req[s],
         r \notin Flagging(v), r \notin Flagging(v)'
  PROVE  Flagging(v)' = Flagging(v)
BY DEF Flagging

(* Only a review, and the note of an appeal, write appealStatus. *)
LEMMA StatusWrites ==
  ASSUME Shape, NEW r \in Request, LaterStep(r), ~CommitReview(r), ~FlagAppeal(r)
  PROVE  \/ violation' = violation
         \/ \E u \in Violation, st \in ViolationStatus : Issued(u) /\ SetStatus(u, st)
<1>t. /\ TypeOK /\ req[r] \in ReqState
  BY TypeFacts DEF Shape
<1>1. CASE CommitStatus(r) \/ CommitCancel(r) \/ CommitSettle(r)
  <2>1. /\ req[r].violation \in Violation /\ Issued(req[r].violation)
        /\ req[r].op = "status" => req[r].to \in ViolationStatus
    BY <1>t, <1>1, StateOfRequest DEF CommitStatus, CommitCancel, CommitSettle,
       Shape, RefsOk, HeldKnown
  <2>2. \E st \in ViolationStatus : SetStatus(req[r].violation, st)
    BY <1>1, <2>1 DEF CommitStatus, CommitCancel, CommitSettle
  <2>. QED
    BY <2>1, <2>2
<1>2. CASE CommitPay(r)
  <2>1. CASE Exists(fine[req[r].violation])
    <3>1. req[r].violation \in Violation /\ Issued(req[r].violation)
      BY <1>t, <1>2, <2>1, StateOfRequest DEF CommitPay, Shape, RefsOk, Exists
    <3>2. SetStatus(req[r].violation, "PAID")
      BY <1>2, <2>1 DEF CommitPay, PaidViolationStatus
    <3>. QED
      BY <3>1, <3>2
  <2>2. CASE ~Exists(fine[req[r].violation])
    BY <1>2, <2>2 DEF CommitPay
  <2>. QED
    BY <2>1, <2>2
<1>3. CASE ~(CommitStatus(r) \/ CommitCancel(r) \/ CommitSettle(r) \/ CommitPay(r))
  BY <1>3 DEF LaterStep, CheckPending, CreateAction, CommitVoid, CommitRemove, Fail
<1>. QED
  BY <1>1, <1>2, <1>3

LEMMA AppealEffect ==
  ASSUME Shape, NEW r \in Request, LaterStep(r), ~CommitReview(r), ~FlagAppeal(r),
         NEW v \in Violation
  PROVE  /\ violation'[v].appeal = violation[v].appeal
         /\ Issued(v)' => Issued(v)
<1>1. ASSUME NEW u \in Violation, NEW st \in ViolationStatus, Issued(u), SetStatus(u, st)
      PROVE  /\ violation'[v].appeal = violation[v].appeal
             /\ Issued(v)' => Issued(v)
  BY <1>1, SetStatusShape DEF Shape, Issued
<1>2. CASE violation' = violation
  BY <1>2 DEF Issued
<1>. QED
  BY <1>1, <1>2, StatusWrites

(* Steps of a call that write neither an action request nor the column.     *)
LEMMA FlagPlain ==
  ASSUME Shape, NEW r \in Request, NEW v \in Violation, FlagInv(v),
         \/ CommitStatus(r) \/ CommitCancel(r) \/ CommitSettle(r) \/ CheckPending(r)
         \/ CommitPay(r) \/ CommitVoid(r) \/ CommitRemove(r)
  PROVE  FlagInv(v)'
<1>t. /\ TypeOK /\ req[r] \in ReqState /\ hist \in Hist /\ LaterStep(r)
  BY TypeFacts DEF Shape, LaterStep
<1>1. /\ action' = action
      /\ hist'.overtaken = hist.overtaken /\ hist'.broken = hist.broken
  BY <1>t DEF CommitStatus, CommitCancel, CommitSettle, CheckPending, CommitPay,
     CommitVoid, CommitRemove, Hist
<1>2. /\ violation'[v].appeal = violation[v].appeal
      /\ Issued(v)' => Issued(v)
  <2>1. ~CommitReview(r) /\ ~FlagAppeal(r)
    BY DEF CommitStatus, CommitCancel, CommitSettle, CheckPending, CommitPay,
       CommitVoid, CommitRemove, CommitReview, FlagAppeal
  <2>. QED
    BY <1>t, <2>1, AppealEffect
<1>3. Flagging(v)' = Flagging(v)
  <2>1. req[r].op # "flag"
    BY DEF CommitStatus, CommitCancel, CommitSettle, CheckPending, CommitPay,
       CommitVoid, CommitRemove
  <2>2. \A s \in Request \ {r} : req'[s] = req[s]
    BY <1>t, LaterReq
  <2>3. req'[r].op # "flag"
    <3>1. CASE CheckPending(r)
      BY <1>t, <3>1, CheckPendingShape DEF Idle
    <3>2. CASE ~CheckPending(r)
      <4>1. Finish(r)
        BY <3>2 DEF CommitStatus, CommitCancel, CommitSettle, CommitPay, CommitVoid,
           CommitRemove
      <4>. QED
        BY <1>t, <4>1, FinishShape DEF Idle
    <3>. QED
      BY <3>1, <3>2
  <2>4. r \notin Flagging(v) /\ r \notin Flagging(v)'
    BY <2>1, <2>3 DEF Flagging
  <2>. QED
    BY <2>2, <2>4, FlaggingKept
<1>4. \A a \in Action : /\ IsAppeal(a, v)' <=> IsAppeal(a, v)
                        /\ IsAppeal(a, v) => action'[a].status = action[a].status
  BY <1>1 DEF IsAppeal, Filed
<1>. QED
  BY <1>1, <1>2, <1>3, <1>4, FlagStill

LEMMA FlagCreate ==
  ASSUME Shape, NEW r \in Request, NEW b \in Action, NEW v \in Violation, FlagInv(v),
         CreateAction(r, b)
  PROVE  FlagInv(v)'
<1>t. TypeOK
  BY DEF Shape
<1>1. /\ \A s \in Request \ {r} : req'[s] = req[s]
      /\ \/ req'[r] = Idle /\ req[r].type # "APPEAL"
         \/ /\ req'[r].op = "flag" /\ req[r].type = "APPEAL"
            /\ req'[r].violation = req[r].violation
      /\ action[b] = Unborn
      /\ action'[b].violation = req[r].violation
      /\ action'[b].type = req[r].type
      /\ action'[b].status = "PENDING"
      /\ \A a \in Action \ {b} : action'[a] = action[a]
  BY <1>t, CreateActionShape
<1>2. UNCHANGED <<violation, hist>> /\ req[r].op = "create"
  BY DEF CreateAction
<1>3. ~IsAppeal(b, v)
  BY <1>1 DEF IsAppeal, Filed, Unborn
<1>4. \A a \in Action \ {b} : /\ IsAppeal(a, v)' <=> IsAppeal(a, v)
                              /\ action'[a].status = action[a].status
  BY <1>1 DEF IsAppeal, Filed
<1>5. CASE req[r].type = "APPEAL" /\ req[r].violation = v
  <2>1. IsAppeal(b, v)'
    BY <1>1, <1>5 DEF IsAppeal, Filed
  <2>2. r \in Flagging(v)'
    BY <1>1, <1>5 DEF Flagging
  <2>3. Issued(v)' /\ violation'[v].appeal # "none" /\ v \notin hist'.overtaken =>
          \E a \in Action : IsAppeal(a, v)' /\ action'[a].status = violation'[v].appeal
    BY <1>2, <1>3, <1>4 DEF FlagInv, Issued
  <2>. QED
    BY <1>1, <2>1, <2>2, <2>3 DEF FlagInv
<1>6. CASE ~(req[r].type = "APPEAL" /\ req[r].violation = v)
  <2>1. ~IsAppeal(b, v)'
    BY <1>1, <1>6 DEF IsAppeal
  <2>2. r \notin Flagging(v) /\ r \notin Flagging(v)'
    BY <1>1, <1>2, <1>6 DEF Flagging, Idle
  <2>3. Flagging(v)' = Flagging(v)
    BY <1>1, <2>2, FlaggingKept
  <2>4. \A a \in Action : /\ IsAppeal(a, v)' <=> IsAppeal(a, v)
                          /\ IsAppeal(a, v) => action'[a].status = action[a].status
    BY <1>3, <1>4, <2>1
  <2>. QED
    BY <1>2, <2>3, <2>4, FlagStill DEF Issued
<1>. QED
  BY <1>5, <1>6

LEMMA FlagNote ==
  ASSUME Shape, NEW r \in Request, NEW v \in Violation, FlagInv(v), FlagAppeal(r)
  PROVE  FlagInv(v)'
<1>. DEFINE u == req[r].violation
<1>t. TypeOK /\ violation \in VTable /\ u \in Violation /\ Issued(u)
  BY TypeFacts, StateOfRequest DEF FlagAppeal, Shape, RefsOk, HeldKnown
<1>1. /\ UNCHANGED <<action, hist>> /\ req[r].op = "flag"
      /\ violation' = [violation EXCEPT ![u].appeal = "PENDING"]
      /\ req'[r] = Idle /\ \A s \in Request \ {r} : req'[s] = req[s]
  BY <1>t, FinishShape DEF FlagAppeal
<1>2. /\ violation'[u].appeal = "PENDING"
      /\ \A w \in Violation \ {u} : violation'[w] = violation[w]
  BY <1>t, <1>1, TypeFacts DEF VTable, ViolationRow
<1>3. \A a \in Action : /\ IsAppeal(a, v)' <=> IsAppeal(a, v)
                        /\ action'[a].status = action[a].status
  BY <1>1 DEF IsAppeal, Filed
<1>4. CASE v = u
  <2>1. r \in Flagging(v)
    BY <1>1, <1>4 DEF Flagging
  <2>2. v \notin hist.overtaken =>
          \E a \in Action : IsAppeal(a, v) /\ action[a].status = "PENDING"
    BY <2>1 DEF FlagInv
  <2>3. v \notin hist'.overtaken =>
          \E a \in Action : IsAppeal(a, v)' /\ action'[a].status = "PENDING"
    BY <1>1, <1>3, <2>2
  <2>4. violation'[v].appeal = "PENDING"
    BY <1>2, <1>4
  <2>. QED
    BY <2>3, <2>4 DEF FlagInv
<1>5. CASE v # u
  <2>1. r \notin Flagging(v) /\ r \notin Flagging(v)'
    BY <1>1, <1>5 DEF Flagging, Idle
  <2>2. Flagging(v)' = Flagging(v)
    BY <1>1, <2>1, FlaggingKept
  <2>3. violation'[v] = violation[v]
    BY <1>2, <1>5
  <2>. QED
    BY <1>1, <1>3, <2>2, <2>3, FlagStill DEF Issued
<1>. QED
  BY <1>4, <1>5

LEMMA FlagReview ==
  ASSUME Shape, NEW r \in Request, NEW v \in Violation, FlagInv(v), CommitReview(r)
  PROVE  FlagInv(v)'
<1>0. PICK b, u, d : b = req[r].action /\ u = action[b].violation /\ d = req[r].decision
  OBVIOUS
<1>1. /\ b \in Action /\ Filed(b) /\ u \in Violation /\ Issued(u) /\ d \in Decision
      /\ hist'.overtaken = IF action[b].type = "APPEAL" /\ Flagging(u) # {}
                           THEN hist.overtaken \cup {u} ELSE hist.overtaken
      /\ hist'.broken = hist.broken
      /\ action'[b].status = d
      /\ action'[b].violation = u
      /\ action'[b].type = action[b].type
      /\ \A a \in Action \ {b} : action'[a] = action[a]
      /\ violation'[u].appeal = IF action[b].type = "APPEAL" THEN d ELSE violation[u].appeal
      /\ \A w \in Violation \ {u} : violation'[w] = violation[w]
  BY <1>0, CommitReviewShape
<1>2. /\ req[r].op = "review"
      /\ req'[r] = Idle /\ \A s \in Request \ {r} : req'[s] = req[s]
  BY FinishShape DEF CommitReview, Shape
<1>3. r \notin Flagging(v) /\ r \notin Flagging(v)'
  BY <1>2 DEF Flagging, Idle
<1>4. Flagging(v)' = Flagging(v)
  BY <1>2, <1>3, FlaggingKept
<1>5. \A a \in Action : IsAppeal(a, v)' <=> IsAppeal(a, v)
  <2>1. Filed(b)'
    BY <1>1 DEF Filed
  <2>. QED
    BY <1>1, <1>0, <2>1 DEF IsAppeal, Filed
<1>6. CASE v = u /\ action[b].type = "APPEAL"
  <2>1. IsAppeal(b, v)
    BY <1>1, <1>0, <1>6 DEF IsAppeal
  <2>2. IsAppeal(b, v)' /\ action'[b].status = violation'[v].appeal
    BY <1>1, <1>5, <1>6, <2>1
  <2>3. violation'[v].appeal # "none"
    BY <1>1, <1>6
  <2>4. Flagging(v)' # {} => v \in hist'.overtaken
    BY <1>1, <1>4, <1>6
  <2>. QED
    BY <1>1, <2>2, <2>3, <2>4 DEF FlagInv
<1>7. CASE ~(v = u /\ action[b].type = "APPEAL")
  <2>1. \A a \in Action : IsAppeal(a, v) => action'[a].status = action[a].status
    BY <1>1, <1>0, <1>7 DEF IsAppeal
  <2>2. violation'[v].appeal = violation[v].appeal
    BY <1>1, <1>7
  <2>3. Issued(v)' => Issued(v)
    <3>1. CASE v = u
      BY <1>1, <3>1
    <3>2. CASE v # u
      BY <1>1, <3>2 DEF Issued
    <3>. QED
      BY <3>1, <3>2
  <2>4. v \in hist'.overtaken <=> v \in hist.overtaken
    BY <1>1, <1>7
  <2>. QED
    BY <1>1, <1>4, <1>5, <2>1, <2>2, <2>3, <2>4, FlagStill
<1>. QED
  BY <1>6, <1>7

LEMMA FlagFail ==
  ASSUME Shape, NEW r \in Request, NEW v \in Violation, FlagInv(v), Fail(r)
  PROVE  FlagInv(v)'
<1>t. TypeOK /\ hist \in Hist
  BY TypeFacts DEF Shape
<1>1. /\ UNCHANGED <<violation, action>>
      /\ hist'.overtaken = hist.overtaken
      /\ hist'.broken = hist.broken \cup {w \in Violation : r \in Flagging(w)}
      /\ req'[r] = Idle /\ \A s \in Request \ {r} : req'[s] = req[s]
  BY <1>t, FinishShape DEF Fail, Hist
<1>2. \A a \in Action : /\ IsAppeal(a, v)' <=> IsAppeal(a, v)
                        /\ action'[a].status = action[a].status
  BY <1>1 DEF IsAppeal, Filed
<1>3. CASE r \in Flagging(v)
  <2>1. v \in hist'.broken /\ Flagging(v) # {}
    BY <1>1, <1>3
  <2>2. Issued(v)' = Issued(v)
    BY <1>1 DEF Issued
  <2>. QED
    BY <1>1, <1>2, <2>1, <2>2 DEF FlagInv
<1>4. CASE r \notin Flagging(v)
  <2>1. r \notin Flagging(v)'
    BY <1>1 DEF Flagging, Idle
  <2>2. Flagging(v)' = Flagging(v)
    BY <1>1, <1>4, <2>1, FlaggingKept
  <2>. QED
    BY <1>1, <1>2, <1>4, <2>2, FlagStill DEF Issued
<1>. QED
  BY <1>3, <1>4

LEMMA FlagStart ==
  ASSUME Shape, NEW r \in Request, NEW v \in Violation, FlagInv(v), StartStep(r)
  PROVE  FlagInv(v)'
<1>1. PICK q \in ReqState : Begin(r, q) /\ Tested(q)
  BY StartStepShape
<1>2. UNCHANGED <<violation, action>>
  BY StartStepShape
<1>3. /\ req'[r] = q /\ req[r] = Idle /\ hist' = hist
      /\ \A s \in Request \ {r} : req'[s] = req[s]
  BY <1>1, BeginShape DEF Shape
<1>4. r \notin Flagging(v) /\ r \notin Flagging(v)'
  BY <1>1, <1>3 DEF Flagging, Tested, Idle
<1>5. Flagging(v)' = Flagging(v)
  BY <1>3, <1>4, FlaggingKept
<1>6. \A a \in Action : /\ IsAppeal(a, v)' <=> IsAppeal(a, v)
                        /\ action'[a].status = action[a].status
  BY <1>2 DEF IsAppeal, Filed
<1>. QED
  BY <1>2, <1>3, <1>5, <1>6, FlagStill DEF Issued

LEMMA FlagOther ==
  ASSUME Shape, NEW v \in Violation, FlagInv(v),
         \/ \E u \in Violation, fined \in BOOLEAN : CreateViolation(u, fined)
         \/ \E u \in Violation : DeadlinePasses(u)
         \/ BulkMarkOverdue
         \/ UNCHANGED vars
  PROVE  FlagInv(v)'
<1>1. /\ UNCHANGED <<action, req, hist>>
      /\ Issued(v) => violation'[v].appeal = violation[v].appeal
      /\ ~Issued(v) => (Issued(v)' => violation'[v].appeal = "none")
  BY OtherEffect
<1>2. Flagging(v)' = Flagging(v)
  BY <1>1 DEF Flagging
<1>3. \A a \in Action : /\ IsAppeal(a, v)' <=> IsAppeal(a, v)
                        /\ action'[a].status = action[a].status
  BY <1>1 DEF IsAppeal, Filed
<1>4. CASE Issued(v)
  BY <1>1, <1>2, <1>3, <1>4, FlagStill
<1>5. CASE ~Issued(v)
  <2>1. \A a \in Action : ~IsAppeal(a, v)
    BY <1>5 DEF Shape, RefsOk, IsAppeal
  <2>2. Flagging(v) = {}
    BY <1>5 DEF Shape, RefsOk, HeldKnown, Flagging
  <2>. QED
    BY <1>1, <1>2, <1>3, <1>5, <2>1, <2>2 DEF FlagInv
<1>. QED
  BY <1>4, <1>5

LEMMA FlagStep ==
  ASSUME Shape, [Next]_vars, NEW v \in Violation, FlagInv(v)
  PROVE  FlagInv(v)'
<1>1. ASSUME NEW r \in Request, LaterStep(r)
      PROVE  FlagInv(v)'
  BY <1>1, FlagPlain, FlagCreate, FlagNote, FlagReview, FlagFail DEF LaterStep
<1>. QED
  BY <1>1, FlagStart, FlagOther, NextSteps

(* Under every interleaving the column appealStatus and the appeals part    *)
(* only where a review overtakes the note of an appeal or a submission dies *)
(* before it.                                                               *)
THEOREM AppealFlagIsHonest == Spec => []AppealFlagHonest
<1>. DEFINE I == \A v \in Violation : FlagInv(v)
<1>1. Init => I
  BY DEF Init, FlagInv, IsAppeal, Filed, Flagging, Issued, Unborn, Idle
<1>2. Shape /\ I /\ [Next]_vars => I'
  BY FlagStep
<1>3. I => AppealFlagHonest
  BY DEF FlagInv, AppealFlagHonest, IsAppeal
<1>. QED
  BY <1>1, <1>2, <1>3, ShapeInit, ShapeStep, PTL DEF Spec

(* A review upholds the resident's request against violation v. *)
Upholds(v) ==
  \E r \in Request : /\ CommitReview(r)
                     /\ req[r].decision = "APPROVED"
                     /\ action[req[r].action].violation = v

(* Beside a review only three kinds of call write a violation's status. *)
LEMMA ResolvedWrites ==
  ASSUME Shape, NEW r \in Request, LaterStep(r), ~CommitReview(r), NEW v \in Violation
  PROVE  \/ violation'[v].status = violation[v].status
         \/ violation'[v].status = "PAID"
         \/ /\ req[r].violation = v /\ CommitStatus(r)
            /\ violation'[v].status = req[r].to
         \/ req[r].violation = v /\ CommitCancel(r)
<1>t. /\ TypeOK /\ req[r] \in ReqState /\ violation \in VTable
  BY TypeFacts DEF Shape
<1>1. ASSUME NEW st \in ViolationStatus, req[r].violation \in Violation,
             SetStatus(req[r].violation, st), Issued(req[r].violation)
      PROVE  /\ violation'[req[r].violation].status = st
             /\ \A u \in Violation \ {req[r].violation} : violation'[u] = violation[u]
  BY <1>t, <1>1, SetStatusShape
<1>2. CASE CommitStatus(r) \/ CommitCancel(r) \/ CommitSettle(r)
  <2>1. /\ req[r].violation \in Violation /\ Issued(req[r].violation)
        /\ req[r].op = "status" => req[r].to \in ViolationStatus
    BY <1>t, <1>2, StateOfRequest DEF CommitStatus, CommitCancel, CommitSettle,
       Shape, RefsOk, HeldKnown
  <2>2. CASE CommitStatus(r)
    BY <1>1, <2>1, <2>2 DEF CommitStatus
  <2>3. CASE CommitCancel(r)
    BY <1>1, <2>1, <2>3 DEF CommitCancel, ViolationStatus
  <2>4. CASE CommitSettle(r)
    BY <1>1, <2>1, <2>4 DEF CommitSettle, ViolationStatus
  <2>. QED
    BY <1>2, <2>2, <2>3, <2>4
<1>3. CASE CommitPay(r)
  <2>1. CASE Exists(fine[req[r].violation])
    <3>1. req[r].violation \in Violation /\ Issued(req[r].violation)
      BY <1>t, <1>3, <2>1, StateOfRequest DEF CommitPay, Shape, RefsOk, Exists
    <3>. QED
      BY <1>1, <1>3, <2>1, <3>1 DEF CommitPay, PaidViolationStatus, ViolationStatus
  <2>2. CASE ~Exists(fine[req[r].violation])
    BY <1>3, <2>2 DEF CommitPay
  <2>. QED
    BY <2>1, <2>2
<1>4. CASE FlagAppeal(r)
  <2>1. req[r].violation \in Violation /\ Issued(req[r].violation)
    BY <1>t, <1>4, StateOfRequest DEF FlagAppeal, Shape, RefsOk, HeldKnown
  <2>. QED
    BY <1>t, <1>4, <2>1, TypeFacts DEF FlagAppeal, VTable, ViolationRow
<1>5. CASE ~(CommitStatus(r) \/ CommitCancel(r) \/ CommitSettle(r) \/ CommitPay(r)
             \/ FlagAppeal(r))
  BY <1>5 DEF LaterStep, CheckPending, CreateAction, CommitVoid, CommitRemove, Fail
<1>. QED
  BY <1>2, <1>3, <1>4, <1>5

(* Late cancellations: what tested the violation before it was settled.     *)
LateCancel(v) ==
  \E r \in Request :
    /\ req[r].op = "cancel" \/ (req[r].op = "status" /\ req[r].to = "CANCELLED")
    /\ req[r].violation = v

LEMMA ResolvedLater ==
  ASSUME Shape, NEW r \in Request, LaterStep(r), NEW v \in Violation,
         violation[v].status \in {"PAID", "CLOSED"},
         violation'[v].status = "CANCELLED"
  PROVE  Upholds(v) \/ LateCancel(v)
<1>1. CASE CommitReview(r)
  <2>. DEFINE a == req[r].action
              w == action[a].violation
              d == req[r].decision
  <2>1. /\ d \in Decision /\ w \in Violation
        /\ violation'[w].status =
             IF d = "APPROVED" THEN "CANCELLED" ELSE violation[w].status
        /\ \A u \in Violation \ {w} : violation'[u] = violation[u]
    BY <1>1, CommitReviewShape
  <2>2. v = w /\ d = "APPROVED"
    BY <2>1
  <2>. QED
    BY <1>1, <2>2 DEF Upholds
<1>2. CASE ~CommitReview(r)
  BY <1>2, ResolvedWrites DEF LateCancel, CommitStatus, CommitCancel
<1>. QED
  BY <1>1, <1>2

(* The exact extent of the divergence the run paid_violation_cancelled      *)
(* finds, under every interleaving: a violation that is PAID or CLOSED is   *)
(* cancelled by an approved review or by a call that tested it before it    *)
(* was settled, and by nothing else.  The guards of updateViolationStatus   *)
(* and of cancelViolation keep out everything that starts later.            *)
THEOREM OnlyUpheldReviewCancels ==
  Spec => [][\A v \in Violation :
               violation[v].status \in {"PAID", "CLOSED"}
                 /\ violation'[v].status = "CANCELLED"
                 => Upholds(v) \/ LateCancel(v)]_vars
<1>. DEFINE A == \A v \in Violation :
               violation[v].status \in {"PAID", "CLOSED"}
                 /\ violation'[v].status = "CANCELLED"
                 => Upholds(v) \/ LateCancel(v)
<1>1. ASSUME Shape, [Next]_vars, NEW v \in Violation,
             violation[v].status \in {"PAID", "CLOSED"},
             violation'[v].status = "CANCELLED"
      PROVE  Upholds(v) \/ LateCancel(v)
  <2>1. ASSUME NEW r \in Request, StartStep(r)
        PROVE  violation' = violation
    BY <2>1, StartStepShape
  <2>2. ASSUME NEW r \in Request, LaterStep(r)
        PROVE  Upholds(v) \/ LateCancel(v)
    BY <1>1, <2>2, ResolvedLater
  <2>3. Issued(v)
    BY <1>1 DEF Issued, ViolationStatus
  <2>. QED
    BY <1>1, <2>1, <2>2, <2>3, OtherEffect, NextSteps
<1>2. Shape /\ [Next]_vars => [A]_vars
  BY <1>1
<1>. QED
  BY <1>2, ShapeInit, ShapeStep, PTL DEF Spec

-----------------------------------------------------------------------------
(* Duplicate action requests *)

(* PendingBound counts finite sets: what it needs beside the bound itself.  *)
Counted(P, I) ==
  /\ IsFiniteSet(P)
  /\ I \subseteq Request
  /\ Cardinality(P) + Cardinality(I) <= Cardinality(Request)

LEMMA Counts ==
  ASSUME NEW P, NEW I, Counted(P, I)
  PROVE  /\ IsFiniteSet(P) /\ IsFiniteSet(I) /\ IsFiniteSet(Request)
         /\ Cardinality(P) \in Nat /\ Cardinality(I) \in Nat
         /\ Cardinality(Request) \in Nat
BY RequestAssumption, FS_Subset, FS_CardinalityType DEF Counted

LEMMA CountedShrinks ==
  ASSUME NEW P, NEW I, Counted(P, I), NEW Q \in SUBSET P, NEW J \in SUBSET I
  PROVE  Counted(Q, J)
<1>1. /\ IsFiniteSet(Q) /\ Cardinality(Q) \in Nat /\ Cardinality(Q) <= Cardinality(P)
  BY Counts, FS_Subset, FS_CardinalityType
<1>2. Cardinality(J) \in Nat /\ Cardinality(J) <= Cardinality(I)
  BY Counts, FS_Subset, FS_CardinalityType
<1>. QED
  BY <1>1, <1>2, Counts DEF Counted

LEMMA CountedMoves ==
  ASSUME NEW P, NEW I, Counted(P, I), NEW a, NEW r \in I
  PROVE  Counted(P \cup {a}, I \ {r})
<1>1. /\ IsFiniteSet(P \cup {a})
      /\ \/ Cardinality(P \cup {a}) = Cardinality(P)
         \/ Cardinality(P \cup {a}) = Cardinality(P) + 1
  BY Counts, FS_AddElement
<1>2. Cardinality(I \ {r}) = Cardinality(I) - 1
  BY Counts, FS_RemoveElement
<1>. QED
  BY <1>1, <1>2, Counts DEF Counted

LEMMA CountedEmpty ==
  ASSUME NEW J \in SUBSET Request
  PROVE  Counted({}, J)
<1>1. Cardinality(J) \in Nat /\ Cardinality(J) <= Cardinality(Request)
      /\ Cardinality(Request) \in Nat
  BY RequestAssumption, FS_Subset, FS_CardinalityType
<1>2. IsFiniteSet({}) /\ Cardinality({}) = 0
  BY FS_EmptySet
<1>. QED
  BY <1>1, <1>2 DEF Counted

PendingCounted ==
  \A v \in Violation, type \in ActionType :
    Counted(PendingActions(v, type), Inserting(v, type))

LEMMA PendingStep == Shape /\ PendingCounted /\ [Next]_vars => PendingCounted'
<1>. SUFFICES ASSUME Shape, PendingCounted, [Next]_vars,
                     NEW v \in Violation, NEW type \in ActionType
              PROVE  Counted(PendingActions(v, type), Inserting(v, type))'
  BY DEF PendingCounted
<1>. DEFINE P == PendingActions(v, type)
            I == Inserting(v, type)
            Q == {a \in Action : /\ action'[a].status = "PENDING"
                                 /\ action'[a].violation = v
                                 /\ action'[a].type = type}
            J == {r \in Request : /\ req'[r].op = "create" /\ req'[r].violation = v
                                  /\ req'[r].type = type}
<1>t. TypeOK
  BY DEF Shape
<1>p. /\ P = {a \in Action : /\ action[a].status = "PENDING"
                             /\ action[a].violation = v
                             /\ action[a].type = type}
      /\ I = {r \in Request : /\ req[r].op = "create" /\ req[r].violation = v
                              /\ req[r].type = type}
  BY DEF PendingActions, Inserting, Filed
<1>q. PendingActions(v, type)' = Q /\ Inserting(v, type)' = J
  BY DEF PendingActions, Inserting, Filed
<1>c. Counted(P, I)
  BY DEF PendingCounted
<1>g. SUFFICES Counted(Q, J)
  BY <1>q DEF Counted
<1>. HIDE DEF P, I
<1>1. ASSUME NEW r \in Request, StartStep(r)
      PROVE  Counted(Q, J)
  <2>1. PICK q \in ReqState : Begin(r, q) /\ q.op # "create"
    BY <1>1, StartStepShape DEF Tested
  <2>2. req'[r] = q /\ \A s \in Request \ {r} : req'[s] = req[s]
    BY <1>t, <2>1, BeginShape
  <2>3. action' = action
    BY <1>1, StartStepShape
  <2>4. Q \in SUBSET P /\ J \in SUBSET I
    BY <1>p, <2>1, <2>2, <2>3
  <2>. HIDE DEF Q, J
  <2>. QED
    BY <1>c, <2>4, CountedShrinks
<1>2. ASSUME NEW r \in Request, CheckPending(r)
      PROVE  Counted(Q, J)
  <2>1. Q = P
    BY <1>2, <1>p DEF CheckPending
  <2>2. CASE J \subseteq I
    <3>. HIDE DEF Q, J
    <3>. QED
      BY <1>c, <2>1, <2>2, CountedShrinks
  <2>3. CASE ~(J \subseteq I)
    <3>1. \A s \in Request \ {r} : req'[s] = req[s]
      BY <1>t, <1>2, CheckPendingShape
    <3>2. req'[r].op = "create" /\ req'[r].violation = v /\ req'[r].type = type
      BY <1>p, <2>3, <3>1
    <3>3. ~Duplicate(v, type)
      BY <1>t, <1>2, <3>2, CheckPendingShape DEF Idle
    <3>4. Q = {} /\ J \in SUBSET Request
      BY <2>1, <3>3 DEF Duplicate, P
    <3>. HIDE DEF Q, J
    <3>. QED
      BY <3>4, CountedEmpty
  <2>. QED
    BY <2>2, <2>3
<1>3. ASSUME NEW r \in Request, NEW a \in Action, CreateAction(r, a)
      PROVE  Counted(Q, J)
  <2>1. /\ req[r].op = "create"
        /\ req'[r] = Idle \/ req'[r].op = "flag"
        /\ \A s \in Request \ {r} : req'[s] = req[s]
    BY <1>t, <1>3, CreateActionShape DEF CreateAction
  <2>2. /\ action'[a].violation = req[r].violation
        /\ action'[a].type = req[r].type
        /\ \A b \in Action \ {a} : action'[b] = action[b]
    BY <1>t, <1>3, CreateActionShape
  <2>3. J \in SUBSET (I \ {r})
    BY <1>p, <2>1 DEF Idle
  <2>4. CASE req[r].violation = v /\ req[r].type = type
    <3>1. Q \in SUBSET (P \cup {a}) /\ r \in I
      BY <1>p, <2>1, <2>2, <2>4
    <3>. HIDE DEF Q, J
    <3>. QED
      BY <1>c, <2>3, <3>1, CountedMoves, CountedShrinks
  <2>5. CASE ~(req[r].violation = v /\ req[r].type = type)
    <3>1. Q \in SUBSET P
      BY <1>p, <2>2, <2>5
    <3>. HIDE DEF Q, J
    <3>. QED
      BY <1>c, <2>3, <3>1, CountedShrinks
  <2>. QED
    BY <2>4, <2>5
<1>4. ASSUME NEW r \in Request, LaterStep(r), ~CheckPending(r),
             \A a \in Action : ~CreateAction(r, a)
      PROVE  Counted(Q, J)
  <2>1. Finish(r)
    BY <1>4 DEF LaterStep, CommitStatus, CommitCancel, CommitSettle,
       CommitReview, FlagAppeal, CommitPay, CommitVoid, CommitRemove, Fail
  <2>2. req'[r] = Idle /\ \A s \in Request \ {r} : req'[s] = req[s]
    BY <1>t, <2>1, FinishShape
  <2>3. \A b \in Action : action'[b] = action[b] \/ action'[b].status \in Decision
    BY <1>4, ActionEffect
  <2>4. Q \in SUBSET P /\ J \in SUBSET I
    BY <1>p, <2>2, <2>3 DEF Idle
  <2>. HIDE DEF Q, J
  <2>. QED
    BY <1>c, <2>4, CountedShrinks
<1>5. CASE UNCHANGED <<action, req>>
  <2>1. Q = P /\ J = I
    BY <1>p, <1>5
  <2>. HIDE DEF Q, J
  <2>. QED
    BY <1>c, <2>1
<1>. QED
  BY <1>1, <1>2, <1>3, <1>4, <1>5, OtherEffect, NextSteps

(* However many calls submit at once, the pending requests of a type for a  *)
(* violation are never more than the calls served at the same time.         *)
THEOREM PendingIsBounded == Spec => []PendingBound
<1>1. Init => PendingCounted
  <2>. SUFFICES ASSUME Init, NEW v \in Violation, NEW type \in ActionType
                PROVE  Counted(PendingActions(v, type), Inserting(v, type))
    BY DEF PendingCounted
  <2>1. PendingActions(v, type) = {} /\ Inserting(v, type) \in SUBSET Request
    BY DEF Init, PendingActions, Inserting, Filed, Unborn
  <2>. QED
    BY <2>1, CountedEmpty
<1>2. PendingCounted => PendingBound
  BY DEF PendingCounted, PendingBound, Counted
<1>. QED
  BY <1>1, <1>2, ShapeInit, ShapeStep, PendingStep, PTL DEF Spec

-----------------------------------------------------------------------------
(* The invoice ledger *)

(* The fines as the invoice API shows them, see InvoiceLedger. *)
LedgerView == [v \in Violation |-> Seen(fine[v])]

Ledger == INSTANCE InvoiceLedger WITH Invoice <- Violation, ledger <- LedgerView

KeepsLedger == Ledger!Spec

(* The calls in flight that will settle or void the fine of v. *)
Pays(q, v) == q.op = "pay" /\ q.violation = v

Settles(q, v) == q.op = "settle" /\ q.violation = v

Voids(q, v) == q.op = "void" /\ q.violation = v

AnnulsWith(q, v) ==
  \/ q.op = "cancel" /\ q.violation = v
  \/ q.op = "review" /\ q.decision = "APPROVED" /\ action[q.action].violation = v

(* The pairs that can undo each other's money: cancelInvoice with either    *)
(* markAsPaid, and markAsPaid of the invoice with an annulment.             *)
Contended(v) ==
  \E r, s \in Request :
    \/ Voids(req[r], v) /\ (Pays(req[s], v) \/ Settles(req[s], v))
    \/ Pays(req[r], v) /\ AnnulsWith(req[s], v)

Uncontended == \A v \in Violation : ~Contended(v)

(* What a payment or a voiding without a rival may still rely on.           *)
StillOpen ==
  \A r \in Request, v \in Violation :
    /\ Pays(req[r], v) => fine[v].status # "CANCELLED"
    /\ Voids(req[r], v) => fine[v].status # "PAID"

LEMMA SeenAs ==
  ASSUME NEW row
  PROVE  /\ row.status = "unborn" => Seen(row) = "absent"
         /\ row.status \in Payable => Seen(row) = "open"
         /\ row.status = "PAID" => Seen(row) = "settled"
         /\ row.status = "CANCELLED" => Seen(row) = "void"
         /\ row.status = "deleted" => Seen(row) = "gone"
BY DEF Seen, Payable

LEMMA SeenByStatus ==
  ASSUME NEW row, NEW other, row.status = other.status
  PROVE  Seen(row) = Seen(other)
BY DEF Seen

LEMMA LedgerStutter ==
  ASSUME \A v \in Violation : \/ fine'[v].status = fine[v].status
                              \/ Seen(fine'[v]) = Seen(fine[v])
  PROVE  UNCHANGED LedgerView
BY SeenByStatus DEF LedgerView

(* All that a step may do to the status of fines. *)
Turns(v, st) ==
  /\ v \in Violation
  /\ fine'[v].status = st
  /\ \A u \in Violation \ {v} : fine'[u].status = fine[u].status

(* A step that moves one row and leaves the status of the others.           *)
LEMMA LedgerMove ==
  ASSUME NEW v \in Violation, NEW st, Turns(v, st)
  PROVE  LET from == Seen(fine[v])
             to   == Seen(fine'[v])
         IN  /\ from = "absent" /\ to = "open" => Ledger!Issue(v)
             /\ from = "open" /\ to = "settled" => Ledger!Settle(v)
             /\ from = "open" /\ to = "void" => Ledger!Void({v})
             /\ from \in {"open", "settled", "void"} /\ to = "gone" => Ledger!Delete(v)
<1>. DEFINE from == Seen(fine[v])
            to == Seen(fine'[v])
<1>1. LedgerView' = [u \in Violation |-> IF u \in {v} THEN to ELSE LedgerView[u]]
  BY SeenByStatus DEF Turns, LedgerView
<1>2. LedgerView[v] = from
  BY DEF LedgerView
<1>. HIDE DEF from, to
<1>3. /\ from = "absent" /\ to = "open" => Ledger!Issue(v)
      /\ from = "open" /\ to = "settled" => Ledger!Settle(v)
      /\ from = "open" /\ to = "void" => Ledger!Void({v})
      /\ from \in {"open", "settled", "void"} /\ to = "gone" => Ledger!Delete(v)
  BY <1>1, <1>2 DEF Ledger!Issue, Ledger!Settle, Ledger!Void, Ledger!Delete, Ledger!Move
<1>. QED
  BY <1>3 DEF from, to

Still ==
  \A v \in Violation : \/ fine'[v].status = fine[v].status
                       \/ fine[v].status = "PENDING" /\ fine'[v].status = "OVERDUE"

StatusMove ==
  \/ Still
  \/ \E v \in Violation : fine[v].status = "unborn" /\ Turns(v, "PENDING")
  \/ \E r \in Request, v \in Violation :
       /\ Exists(fine[v])
       /\ \/ Pays(req[r], v) /\ Turns(v, "PAID")
          \/ Settles(req[r], v) /\ fine[v].status \in Payable /\ Turns(v, "PAID")
          \/ Voids(req[r], v) /\ Turns(v, "CANCELLED")
          \/ AnnulsWith(req[r], v) /\ fine[v].status \in Payable /\ Turns(v, "CANCELLED")
          \/ Turns(v, "deleted")

LEMMA SetFineTurns ==
  ASSUME TypeOK, NEW v \in Violation, NEW st \in RowStatus, SetFine(v, st)
  PROVE  Turns(v, st)
BY SetFineShape DEF Turns

LEMMA AnnulTurns ==
  ASSUME TypeOK, NEW v \in Violation, AnnulFine(v)
  PROVE  \/ UNCHANGED fine
         \/ fine[v].status = "PENDING" /\ Turns(v, "CANCELLED")
BY SetFineTurns DEF AnnulFine, Annuls

LEMMA StatusMoves == Shape /\ [Next]_vars => StatusMove
<1>. SUFFICES ASSUME Shape, [Next]_vars
              PROVE  StatusMove
  OBVIOUS
<1>t. TypeOK /\ fine \in FTable /\ req \in [Request -> ReqState]
  BY TypeFacts DEF Shape
<1>0. ASSUME UNCHANGED fine
      PROVE  StatusMove
  BY <1>0 DEF StatusMove, Still
<1>1. ASSUME NEW r \in Request, StartStep(r)
      PROVE  StatusMove
  BY <1>0, <1>1, StartStepShape
<1>2. ASSUME NEW r \in Request, CommitCancel(r)
      PROVE  StatusMove
  <2>. DEFINE v == req[r].violation
  <2>1. v \in Violation /\ AnnulsWith(req[r], v) /\ AnnulFine(v)
    BY <1>t, <1>2, StateOfRequest DEF CommitCancel, AnnulsWith
  <2>. HIDE DEF v
  <2>. QED
    BY <1>t, <1>0, <2>1, AnnulTurns DEF StatusMove, Payable, Exists
<1>3. ASSUME NEW r \in Request, CommitSettle(r)
      PROVE  StatusMove
  <2>. DEFINE v == req[r].violation
  <2>1. v \in Violation /\ Settles(req[r], v)
    BY <1>t, <1>3, StateOfRequest DEF CommitSettle, Settles
  <2>2. UNCHANGED fine \/ (fine[v].status \in Payable /\ SetFine(v, "PAID"))
    BY <1>3 DEF CommitSettle
  <2>. HIDE DEF v
  <2>. QED
    BY <1>t, <1>0, <2>1, <2>2, SetFineTurns DEF StatusMove, Payable, Exists
<1>4. ASSUME NEW r \in Request, CommitReview(r)
      PROVE  StatusMove
  <2>. DEFINE v == action[req[r].action].violation
  <2>1. v \in Violation
    BY <1>4, CommitReviewShape
  <2>2. \/ UNCHANGED fine
        \/ AnnulFine(v) /\ req[r].op = "review" /\ req[r].decision = "APPROVED"
    BY <1>4 DEF CommitReview
  <2>3. UNCHANGED fine \/ (AnnulFine(v) /\ AnnulsWith(req[r], v))
    BY <2>2 DEF AnnulsWith
  <2>. HIDE DEF v
  <2>. QED
    BY <1>t, <1>0, <2>1, <2>3, AnnulTurns DEF StatusMove, Payable, Exists
<1>5. ASSUME NEW r \in Request, CommitPay(r)
      PROVE  StatusMove
  <2>. DEFINE v == req[r].violation
  <2>1. v \in Violation /\ Pays(req[r], v)
    BY <1>t, <1>5, StateOfRequest DEF CommitPay, Pays
  <2>2. UNCHANGED fine \/ (Exists(fine[v]) /\ SetFine(v, "PAID"))
    BY <1>5 DEF CommitPay
  <2>. HIDE DEF v
  <2>. QED
    BY <1>t, <1>0, <2>1, <2>2, SetFineTurns DEF StatusMove
<1>6. ASSUME NEW r \in Request, CommitVoid(r)
      PROVE  StatusMove
  <2>. DEFINE v == req[r].violation
  <2>1. v \in Violation /\ Voids(req[r], v)
    BY <1>t, <1>6, StateOfRequest DEF CommitVoid, Voids
  <2>2. UNCHANGED fine \/ (Exists(fine[v]) /\ SetFine(v, "CANCELLED"))
    BY <1>6 DEF CommitVoid
  <2>. HIDE DEF v
  <2>. QED
    BY <1>t, <1>0, <2>1, <2>2, SetFineTurns DEF StatusMove
<1>7. ASSUME NEW r \in Request, CommitRemove(r)
      PROVE  StatusMove
  <2>. DEFINE v == req[r].violation
  <2>1. v \in Violation
    BY <1>t, <1>7, StateOfRequest DEF CommitRemove
  <2>2. UNCHANGED fine \/ (Exists(fine[v]) /\ SetFine(v, "deleted"))
    BY <1>7 DEF CommitRemove
  <2>. HIDE DEF v
  <2>. QED
    BY <1>t, <1>0, <2>1, <2>2, SetFineTurns DEF StatusMove
<1>8. ASSUME NEW r \in Request, LaterStep(r)
      PROVE  StatusMove
  BY <1>0, <1>2, <1>3, <1>4, <1>5, <1>6, <1>7, <1>8
     DEF LaterStep, CommitStatus, CheckPending, CreateAction, FlagAppeal, Fail
<1>9. ASSUME NEW v \in Violation, NEW fined \in BOOLEAN, CreateViolation(v, fined)
      PROVE  StatusMove
  <2>1. fine[v].status = "unborn"
    BY <1>9 DEF CreateViolation, Shape, RefsOk, Issued, Unborn
  <2>2. UNCHANGED fine \/ SetFine(v, "PENDING")
    BY <1>9 DEF CreateViolation
  <2>. QED
    BY <1>t, <1>0, <2>1, <2>2, SetFineTurns DEF StatusMove
<1>10. ASSUME BulkMarkOverdue
       PROVE  StatusMove
  BY <1>t, <1>10 DEF BulkMarkOverdue, WriteStatus, FTable, StatusMove, Still
<1>. QED
  BY <1>0, <1>1, <1>8, <1>9, <1>10, NextSteps DEF DeadlinePasses, vars

(* A handler that comes to pay or to void a fine has just tested it.        *)
LEMMA HoldGuards ==
  ASSUME TypeOK, NEW r \in Request, StartStep(r), NEW v \in Violation
  PROVE  /\ Pays(req'[r], v) => MayPay(fine[v])
         /\ Voids(req'[r], v) => MayCancel(fine[v])
<1>. DEFINE Neither == ~Pays(req'[r], v) /\ ~Voids(req'[r], v)
<1>1. ASSUME NEW q, Begin(r, q)
      PROVE  req'[r] = q
  BY <1>1 DEF TypeOK, Begin
<1>2. ASSUME NEW q, Begin(r, q), q.op \notin {"pay", "void"}
      PROVE  Neither
  BY <1>1, <1>2 DEF Pays, Voids
<1>3. CASE \E u \in Violation, st \in ViolationStatus : StartStatus(r, u, st)
  BY <1>2, <1>3 DEF StartStatus
<1>4. CASE \E u \in Violation : StartCancel(r, u) \/ StartSettle(r, u) \/ StartRemove(r, u)
  BY <1>2, <1>4 DEF StartCancel, StartSettle, StartRemove
<1>5. CASE \E u \in Violation, type \in ActionType : StartSubmit(r, u, type)
  BY <1>2, <1>5 DEF StartSubmit
<1>6. CASE \E a \in Action, decision \in Decision : StartReview(r, a, decision)
  BY <1>2, <1>6 DEF StartReview
<1>7. ASSUME NEW u \in Violation, StartPay(r, u)
      PROVE  /\ ~Voids(req'[r], v)
             /\ Pays(req'[r], v) => MayPay(fine[v])
  BY <1>1, <1>7 DEF StartPay, Pays, Voids
<1>8. ASSUME NEW u \in Violation, StartVoid(r, u)
      PROVE  /\ ~Pays(req'[r], v)
             /\ Voids(req'[r], v) => MayCancel(fine[v])
  BY <1>1, <1>8 DEF StartVoid, Pays, Voids
<1>. QED
  BY <1>3, <1>4, <1>5, <1>6, <1>7, <1>8 DEF StartStep

(* A call starts, or its reference is the one it had, or it no longer pays  *)
(* or voids anything.                                                       *)
LEMMA RequestsKept ==
  ASSUME Shape, [Next]_vars, NEW r \in Request
  PROVE  \/ req'[r] = req[r]
         \/ req'[r].op \notin {"pay", "void"}
         \/ StartStep(r) /\ UNCHANGED fine
<1>1. ASSUME NEW s \in Request, StartStep(s)
      PROVE  req'[r] = req[r] \/ (StartStep(r) /\ UNCHANGED fine)
  <2>1. PICK q \in ReqState : Begin(s, q)
    BY <1>1, StartStepShape
  <2>2. \A t \in Request \ {s} : req'[t] = req[t]
    BY <2>1, BeginShape DEF Shape
  <2>. QED
    BY <1>1, <2>2, StartStepShape
<1>2. ASSUME NEW s \in Request, LaterStep(s)
      PROVE  req'[r] = req[r] \/ req'[r].op \notin {"pay", "void"}
  BY <1>2, LaterReq DEF Shape
<1>. QED
  BY <1>1, <1>2, NextSteps DEF CreateViolation, DeadlinePasses, BulkMarkOverdue, vars

LEMMA StillOpenStep == Uncontended /\ Shape /\ StillOpen /\ [Next]_vars => StillOpen'
<1>. SUFFICES ASSUME Uncontended, Shape, StillOpen, [Next]_vars,
                     NEW r \in Request, NEW v \in Violation
              PROVE  /\ Pays(req'[r], v) => fine'[v].status # "CANCELLED"
                     /\ Voids(req'[r], v) => fine'[v].status # "PAID"
  BY DEF StillOpen, Pays, Voids
<1>1. CASE req'[r] = req[r]
  <2>1. /\ Pays(req[r], v) => fine[v].status # "CANCELLED"
        /\ Voids(req[r], v) => fine[v].status # "PAID"
        /\ \A s \in Request : ~(Pays(req[r], v) /\ Voids(req[s], v))
        /\ \A s \in Request : ~(Pays(req[r], v) /\ AnnulsWith(req[s], v))
        /\ \A s \in Request : ~(Voids(req[r], v) /\ Pays(req[s], v))
        /\ \A s \in Request : ~(Voids(req[r], v) /\ Settles(req[s], v))
    BY DEF StillOpen, Uncontended, Contended
  <2>. QED
    BY <1>1, <2>1, StatusMoves DEF StatusMove, Still, Turns
<1>2. CASE StartStep(r) /\ UNCHANGED fine
  BY <1>2, HoldGuards DEF Shape, MayPay, MayCancel
<1>3. CASE req'[r].op \notin {"pay", "void"}
  BY <1>3 DEF Pays, Voids
<1>. QED
  BY <1>1, <1>2, <1>3, RequestsKept

LEMMA LedgerStep == Shape /\ StillOpen /\ [Next]_vars => [Ledger!Next]_LedgerView
<1>. SUFFICES ASSUME Shape, StillOpen, [Next]_vars
              PROVE  Ledger!Next \/ UNCHANGED LedgerView
  OBVIOUS
<1>. DEFINE Goal == Ledger!Next \/ UNCHANGED LedgerView
<1>1. CASE Still
  BY <1>1, SeenAs, LedgerStutter DEF Still, Payable
<1>2. ASSUME NEW v \in Violation, fine[v].status = "unborn", Turns(v, "PENDING")
      PROVE  Goal
  <2>1. Ledger!Issue(v)
    BY <1>2, SeenAs, LedgerMove DEF Turns, Payable
  <2>. QED
    BY <2>1 DEF Ledger!Next
<1>3. ASSUME NEW v \in Violation, fine[v].status \in Payable, Turns(v, "PAID")
      PROVE  Goal
  <2>1. Seen(fine[v]) \in {"open"} /\ Seen(fine'[v]) = "settled"
    BY <1>3, SeenAs DEF Turns
  <2>2. Ledger!Settle(v)
    BY <1>3, <2>1, LedgerMove
  <2>. QED
    BY <2>2 DEF Ledger!Next
<1>4. ASSUME NEW v \in Violation, fine[v].status \in Payable, Turns(v, "CANCELLED")
      PROVE  Goal
  <2>1. Seen(fine[v]) \in {"open"} /\ Seen(fine'[v]) = "void"
    BY <1>4, SeenAs DEF Turns
  <2>2. Ledger!Void({v})
    BY <1>4, <2>1, LedgerMove
  <2>. QED
    BY <2>2 DEF Ledger!Next
<1>5. ASSUME NEW v \in Violation, Exists(fine[v]), Turns(v, "deleted")
      PROVE  Goal
  <2>1. Seen(fine[v]) \in {"open", "settled", "void"} /\ Seen(fine'[v]) = "gone"
    BY <1>5, SeenAs DEF Turns, Exists, Payable
  <2>2. Ledger!Delete(v)
    BY <1>5, <2>1, LedgerMove
  <2>. QED
    BY <2>2 DEF Ledger!Next
<1>6. ASSUME NEW r \in Request, NEW v \in Violation, Exists(fine[v]),
             Pays(req[r], v), Turns(v, "PAID")
      PROVE  Goal
  <2>1. fine[v].status # "CANCELLED"
    BY <1>6 DEF StillOpen
  <2>2. CASE fine[v].status = "PAID"
    BY <1>6, <2>2, LedgerStutter DEF Turns
  <2>. QED
    BY <1>3, <1>6, <2>1, <2>2 DEF Exists, Payable
<1>7. ASSUME NEW r \in Request, NEW v \in Violation, Exists(fine[v]),
             Voids(req[r], v), Turns(v, "CANCELLED")
      PROVE  Goal
  <2>1. fine[v].status # "PAID"
    BY <1>7 DEF StillOpen
  <2>2. CASE fine[v].status = "CANCELLED"
    BY <1>7, <2>2, LedgerStutter DEF Turns
  <2>. QED
    BY <1>4, <1>7, <2>1, <2>2 DEF Exists, Payable
<1>. QED
  BY <1>1, <1>2, <1>3, <1>4, <1>5, <1>6, <1>7, StatusMoves DEF StatusMove

(* As long as no fine is voided while it is being paid or settled, or paid  *)
(* while its violation is being annulled, the fines go through the          *)
(* lifecycle that InvoiceLedger promises, whichever other handlers overlap. *)
THEOREM UncontendedRefinement == Spec /\ []Uncontended => KeepsLedger
<1>1. Init => StillOpen
  BY DEF Init, StillOpen, Idle, Pays, Voids
<1>2. Init => Ledger!Init
  BY SeenAs DEF Init, Ledger!Init, LedgerView
<1>3. Spec /\ []Uncontended => Ledger!Spec
  BY <1>1, <1>2, StillOpenStep, ShapeInit, ShapeStep, LedgerStep, PTL
     DEF Spec, Ledger!Spec
<1>. QED
  BY <1>3 DEF KeepsLedger

(* What the ledger promises of one fine, in the terms of its column: no     *)
(* call voids what is settled or pays what is void.                         *)
FinalStatus ==
  \A v \in Violation :
    /\ fine[v].status = "PAID" => fine'[v].status \in {"PAID", "deleted"}
    /\ fine[v].status = "CANCELLED" => fine'[v].status \in {"CANCELLED", "deleted"}

LEMMA LedgerFinal ==
  ASSUME TypeOK, TypeOK', [Ledger!Next]_LedgerView
  PROVE  FinalStatus
<1>. SUFFICES ASSUME NEW v \in Violation, fine[v].status \in {"PAID", "CANCELLED"}
              PROVE  fine'[v].status \in {fine[v].status, "deleted"}
  BY DEF FinalStatus
<1>1. LedgerView[v] = Seen(fine[v]) /\ LedgerView'[v] = Seen(fine'[v])
  BY DEF LedgerView
<1>2. LedgerView[v] \in {"settled", "void"}
  BY <1>1, SeenAs
<1>3. LedgerView'[v] \in {LedgerView[v], "gone", "overrun"}
  BY <1>2 DEF Ledger!Next, Ledger!Issue, Ledger!Settle, Ledger!Void, Ledger!Delete,
              Ledger!Overrun, Ledger!Move
<1>4. fine'[v].status \in RowStatus
  BY DEF TypeOK, InvoiceRow
<1>. QED
  BY <1>1, <1>2, <1>3, <1>4, SeenAs DEF RowStatus, InvoiceStatus, Payable

(* "Paid invoices cannot be cancelled", "Cancelled invoices cannot be       *)
(* paid": so it is, whatever else is served at the same time, unless a      *)
(* payment meets a cancellation of the same fine.                           *)
THEOREM PaidOrVoidIsFinal == Spec /\ []Uncontended => [][FinalStatus]_vars
<1>1. Init => StillOpen
  BY DEF Init, StillOpen, Idle, Pays, Voids
<1>2. ASSUME Shape, Shape', StillOpen, [Next]_vars
      PROVE  FinalStatus
  BY <1>2, LedgerStep, LedgerFinal DEF Shape
<1>3. Shape /\ Shape' /\ StillOpen /\ [Next]_vars => [FinalStatus]_vars
  BY <1>2
<1>. QED
  BY <1>1, <1>3, StillOpenStep, ShapeInit, ShapeStep, PTL DEF Spec
=============================================================================
