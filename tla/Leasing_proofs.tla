----------------------------- MODULE Leasing_proofs -----------------------------
(***************************************************************************)
(* Theorems about Leasing, for any sets of tenants, calls and rent requests *)
(* and any number of leases, periods and calls.                             *)
(***************************************************************************)
EXTENDS Leasing, TLAPS

USE DEF LeaseStatus, EndStatus, RentRequestStatus, Lease, Period, Someone
USE TenantAssumption, BoundAssumption

LTable == [Lease -> LeaseRow \cup {Unborn, Deleted}]
ATable == [RentRequest -> AskRow \cup {Unborn}]
UTable == [Tenant -> {"none", "ACTIVE", "INACTIVE"}]
Hist == [loose : SUBSET Lease, rivalled : SUBSET Lease, edited : SUBSET Lease,
         unsettled : SUBSET Someone, late : SUBSET Request]

Stored(a) == ask[a].status \in RentRequestStatus

HasUser(t) == t \in Tenant => user[t] # "none"

(* A call refers to rent requests that are stored and to tenants who have   *)
(* an account, a lease to a tenant with an account and to the one it        *)
(* renewed, and a rent request is inserted by one call.                     *)
HeldOk(q) ==
  /\ q.op \in {"refuse", "approve"} => Stored(q.ask)
  /\ q.op = "ask" => ask[q.ask] = Unborn
  /\ q.op = "create" /\ ~q.fresh => HasUser(q.tenant)
  /\ q.op = "approve" /\ ~q.fresh => HasUser(ask[q.ask].tenant)
  /\ q.op \in {"renew", "patch", "remove", "terminate", "revoke", "count", "deactivate"} =>
       HasUser(q.tenant)

RefsOk ==
  /\ \A r \in Request : HeldOk(req[r])
  /\ \A r, s \in Request : req[r].op = "ask" /\ req[s].op = "ask" /\ r # s =>
       req[r].ask # req[s].ask
  /\ \A l \in Lease : Exists(l) =>
       HasUser(lease[l].tenant) /\ (lease[l].from # 0 => lease[lease[l].from] # Unborn)

Shape == TypeOK /\ RefsOk

-----------------------------------------------------------------------------
(* Shapes *)

LEMMA TypeFacts ==
  ASSUME TypeOK
  PROVE  /\ lease \in LTable /\ ask \in ATable /\ user \in UTable
         /\ access \subseteq Tenant /\ resident \subseteq Tenant
         /\ req \in [Request -> ReqState] /\ hist \in Hist /\ calls \in 0 .. MaxCall
         /\ \A l \in Lease : Exists(l) => lease[l] \in LeaseRow
         /\ \A a \in RentRequest : Stored(a) => ask[a] \in AskRow
BY DEF TypeOK, LTable, ATable, UTable, Hist, Exists, Stored, Unborn, Deleted

(* What a handler holds, by what it is doing. *)
LEMMA StateOfRequest ==
  ASSUME NEW q \in ReqState
  PROVE  /\ q.op = "create" => q.tenant \in Tenant /\ q.period \in Period /\ q.fresh \in BOOLEAN
         /\ q.op = "ask" => q.ask \in RentRequest /\ q.tenant \in Tenant
         /\ q.op = "refuse" => q.ask \in RentRequest
         /\ q.op = "approve" =>
              q.ask \in RentRequest /\ q.fresh \in BOOLEAN /\ q.had \in BOOLEAN
         /\ q.op = "renew" => q.lease \in Lease /\ q.tenant \in Someone /\ q.period \in Period
         /\ q.op = "add" => q.lease \in Lease /\ q.tenant \in Tenant
         /\ q.op \in {"patch", "remove", "terminate", "revoke"} =>
              q.lease \in Lease /\ q.tenant \in Someone
         /\ q.op \in {"count", "deactivate"} => q.tenant \in Tenant
BY DEF ReqState, Idle

LEMMA RequestShapes ==
  /\ Idle \in ReqState
  /\ \A t \in Tenant, p \in Period, b \in BOOLEAN :
       [op |-> "create", tenant |-> t, period |-> p, fresh |-> b] \in ReqState
  /\ \A a \in RentRequest, t \in Tenant : [op |-> "ask", ask |-> a, tenant |-> t] \in ReqState
  /\ \A a \in RentRequest : [op |-> "refuse", ask |-> a] \in ReqState
  /\ \A a \in RentRequest, b \in BOOLEAN, c \in BOOLEAN :
       [op |-> "approve", ask |-> a, fresh |-> b, had |-> c] \in ReqState
  /\ \A l \in Lease, t \in Someone, p \in Period :
       [op |-> "renew", lease |-> l, tenant |-> t, period |-> p] \in ReqState
  /\ \A l \in Lease, t \in Tenant : [op |-> "add", lease |-> l, tenant |-> t] \in ReqState
  /\ \A l \in Lease, t \in Someone, o \in {"patch", "remove", "terminate", "revoke"} :
       [op |-> o, lease |-> l, tenant |-> t] \in ReqState
  /\ \A t \in Tenant, o \in {"count", "deactivate"} : [op |-> o, tenant |-> t] \in ReqState
BY DEF ReqState

LEMMA BeginShape ==
  ASSUME TypeOK, NEW r \in Request, NEW q \in ReqState, Begin(r, q)
  PROVE  /\ UNCHANGED <<lease, access, resident, user, ask>>
         /\ calls' \in 0 .. MaxCall
         /\ req' \in [Request -> ReqState]
         /\ req[r] = Idle
         /\ req'[r] = q
         /\ \A s \in Request \ {r} : req'[s] = req[s]
         /\ hist' \in Hist
         /\ hist'.loose = hist.loose /\ hist'.rivalled = hist.rivalled
         /\ hist'.edited = hist.edited /\ hist'.unsettled = hist.unsettled
         /\ hist'.late = hist.late \ {r}
<1>1. /\ req \in [Request -> ReqState] /\ hist \in Hist /\ calls \in 0 .. MaxCall
  BY DEF TypeOK, Hist
<1>2. /\ req[r] = Idle /\ calls < MaxCall /\ calls' = calls + 1
      /\ req' = [req EXCEPT ![r] = q]
      /\ UNCHANGED <<lease, access, resident, user, ask>>
  BY DEF Begin, rows
<1>3. hist' = [hist EXCEPT !.late = @ \ {r}]
  BY DEF Begin
<1>4. /\ hist' \in Hist
      /\ hist'.loose = hist.loose /\ hist'.rivalled = hist.rivalled
      /\ hist'.edited = hist.edited /\ hist'.unsettled = hist.unsettled
      /\ hist'.late = hist.late \ {r}
  BY <1>1, <1>3 DEF Hist
<1>. QED
  BY <1>1, <1>2, <1>4

LEMMA FinishShape ==
  ASSUME TypeOK, NEW r \in Request, Finish(r)
  PROVE  /\ req' \in [Request -> ReqState]
         /\ req'[r] = Idle
         /\ \A s \in Request \ {r} : req'[s] = req[s]
         /\ calls' = calls
BY RequestShapes DEF TypeOK, Finish

-----------------------------------------------------------------------------
(* What the steps do *)

(* What is true of a call when it begins.                                   *)
Begun(q) ==
  /\ q.op = "create" => ~Taken(q.period, {})
  /\ q.op = "approve" => ~Rented
  /\ q.op = "renew" => ~Taken(q.period, {q.lease}) /\ Renewable(q.lease)
  /\ q.op = "ask" => \A s \in Request : req[s].op = "ask" => req[s].ask # q.ask
  /\ q.op \in {"refuse", "approve"} => ask[q.ask].status = "PENDING"
  /\ q.op \notin {"count", "deactivate"}

StartStep(r) ==
  \/ \E t \in Tenant, p \in Period : StartCreate(r, t, p)
  \/ \E l \in Lease, t \in Tenant : StartAddTenant(r, l, t)
  \/ \E l \in Lease : \/ StartUpdate(r, l) \/ StartRemove(r, l)
                      \/ StartTerminate(r, l) \/ StartRentalTerminate(r, l)
  \/ \E l \in Lease, p \in Period : StartRenew(r, l, p)
  \/ \E a \in RentRequest, t \in Tenant : StartAsk(r, a, t)
  \/ \E a \in RentRequest : StartRefuse(r, a) \/ StartApprove(r, a)

LEMMA StartStepShape ==
  ASSUME Shape, NEW r \in Request, StartStep(r)
  PROVE  \E q \in ReqState : Begin(r, q) /\ HeldOk(q) /\ Begun(q)
<1>t. /\ TypeOK
      /\ \A l \in Lease : Exists(l) => lease[l] \in LeaseRow /\ HasUser(lease[l].tenant)
      /\ \A l \in Lease : Active(l) => Exists(l)
      /\ \A a \in RentRequest : Stored(a) => ask[a] \in AskRow
  BY TypeFacts DEF Shape, RefsOk, Active, Exists
<1>1. CASE \E t \in Tenant, p \in Period : StartCreate(r, t, p)
  <2>1. PICK t \in Tenant, p \in Period : StartCreate(r, t, p)
    BY <1>1
  <2>. DEFINE q == [op |-> "create", tenant |-> t, period |-> p, fresh |-> user[t] = "none"]
  <2>2. q \in ReqState
    BY RequestShapes
  <2>3. HeldOk(q) /\ Begun(q)
    BY <2>1 DEF StartCreate, HeldOk, Begun, HasUser
  <2>4. Begin(r, q)
    BY <2>1 DEF StartCreate
  <2>. QED
    BY <2>2, <2>3, <2>4
<1>2. CASE \E l \in Lease, t \in Tenant : StartAddTenant(r, l, t)
  <2>1. PICK l \in Lease, t \in Tenant : StartAddTenant(r, l, t)
    BY <1>2
  <2>. DEFINE q == [op |-> "add", lease |-> l, tenant |-> t]
  <2>2. q \in ReqState
    BY RequestShapes
  <2>3. HeldOk(q) /\ Begun(q)
    BY <2>1 DEF StartAddTenant, HeldOk, Begun
  <2>4. Begin(r, q)
    BY <2>1 DEF StartAddTenant
  <2>. QED
    BY <2>2, <2>3, <2>4
<1>3. CASE \E l \in Lease : \/ StartUpdate(r, l) \/ StartRemove(r, l)
                            \/ StartTerminate(r, l) \/ StartRentalTerminate(r, l)
  <2>1. PICK l \in Lease, o \in {"patch", "remove", "terminate", "revoke"} :
          Exists(l) /\ Held(r, l, o)
    BY <1>t, <1>3 DEF StartUpdate, StartRemove, StartTerminate, StartRentalTerminate
  <2>. DEFINE q == [op |-> o, lease |-> l, tenant |-> lease[l].tenant]
  <2>2. q \in ReqState
    BY <1>t, <2>1, RequestShapes DEF LeaseRow
  <2>3. HeldOk(q) /\ Begun(q)
    BY <1>t, <2>1 DEF HeldOk, Begun
  <2>4. Begin(r, q)
    BY <2>1 DEF Held
  <2>. QED
    BY <2>2, <2>3, <2>4
<1>4. CASE \E l \in Lease, p \in Period : StartRenew(r, l, p)
  <2>1. PICK l \in Lease, p \in Period : StartRenew(r, l, p)
    BY <1>4
  <2>. DEFINE q == [op |-> "renew", lease |-> l, tenant |-> lease[l].tenant, period |-> p]
  <2>2. Exists(l) /\ Renewable(l) /\ ~Taken(p, {l})
    BY <1>t, <2>1 DEF StartRenew, Renewable
  <2>3. q \in ReqState
    BY <1>t, <2>2, RequestShapes DEF LeaseRow
  <2>4. HeldOk(q) /\ Begun(q)
    BY <1>t, <2>2 DEF HeldOk, Begun
  <2>5. Begin(r, q)
    BY <2>1 DEF StartRenew
  <2>. QED
    BY <2>3, <2>4, <2>5
<1>5. CASE \E a \in RentRequest, t \in Tenant : StartAsk(r, a, t)
  <2>1. PICK a \in RentRequest, t \in Tenant : StartAsk(r, a, t)
    BY <1>5
  <2>. DEFINE q == [op |-> "ask", ask |-> a, tenant |-> t]
  <2>2. q \in ReqState
    BY RequestShapes
  <2>3. HeldOk(q) /\ Begun(q)
    BY <2>1 DEF StartAsk, HeldOk, Begun
  <2>4. Begin(r, q)
    BY <2>1 DEF StartAsk
  <2>. QED
    BY <2>2, <2>3, <2>4
<1>6. CASE \E a \in RentRequest : StartRefuse(r, a)
  <2>1. PICK a \in RentRequest : StartRefuse(r, a)
    BY <1>6
  <2>. DEFINE q == [op |-> "refuse", ask |-> a]
  <2>2. q \in ReqState
    BY RequestShapes
  <2>3. HeldOk(q) /\ Begun(q)
    BY <2>1 DEF StartRefuse, HeldOk, Begun, Stored
  <2>4. Begin(r, q)
    BY <2>1 DEF StartRefuse
  <2>. QED
    BY <2>2, <2>3, <2>4
<1>7. CASE \E a \in RentRequest : StartApprove(r, a)
  <2>1. PICK a \in RentRequest : StartApprove(r, a)
    BY <1>7
  <2>. DEFINE q == [op |-> "approve", ask |-> a, fresh |-> user[ask[a].tenant] = "none",
                    had |-> ask[a].tenant \in access]
  <2>2. q \in ReqState
    <3>. DEFINE b == user[ask[a].tenant] = "none"
                c == ask[a].tenant \in access
    <3>1. b \in BOOLEAN /\ c \in BOOLEAN
      OBVIOUS
    <3>. HIDE DEF b, c
    <3>2. [op |-> "approve", ask |-> a, fresh |-> b, had |-> c] \in ReqState
      BY <3>1, RequestShapes
    <3>. QED
      BY <3>2 DEF b, c
  <2>3. HeldOk(q) /\ Begun(q)
    BY <2>1 DEF StartApprove, HeldOk, Begun, Stored, HasUser
  <2>4. Begin(r, q)
    BY <2>1 DEF StartApprove
  <2>. QED
    BY <2>2, <2>3, <2>4
<1>. QED
  BY <1>1, <1>2, <1>3, <1>4, <1>5, <1>6, <1>7 DEF StartStep

LEMMA NextSteps ==
  ASSUME Next
  PROVE  \E r \in Request :
           \/ StartStep(r)
           \/ CommitCreate(r) \/ CommitApprove(r) \/ CommitRenew(r)
           \/ (\E st \in LeaseStatus : CommitEnd(r, st))
           \/ CommitRemove(r) \/ CommitTerminate(r) \/ CommitRentalTerminate(r)
           \/ CommitAddTenant(r)
           \/ (\E st \in LeaseStatus, t \in Someone, p \in Period : CommitEdit(r, st, t, p))
           \/ Count(r) \/ Deactivate(r) \/ CommitAsk(r)
           \/ (\E st \in RentRequestStatus : CommitRefuse(r, st))
           \/ Fail(r)
BY DEF Next, Call, StartStep

(* The history of a call that stores a lease.                               *)
Noted(r, l, t, p, k, left) ==
  /\ hist' \in Hist
  /\ hist'.edited = hist.edited
  /\ hist'.loose \in {hist.loose, hist.loose \cup {l}}
  /\ (\E s \in Request \ {r} : Tests(s, p)) => l \in hist'.loose
  /\ hist'.rivalled \in {hist.rivalled, hist.rivalled \cup {l}}
  /\ (\E s \in Request \ {r} : Renews(s, k)) => l \in hist'.rivalled
  /\ hist'.unsettled = (hist.unsettled \ {t}) \cup left
  /\ hist'.late = hist.late \cup Deactivating(t) \cup Rivals(r)

LEMMA GainsShape ==
  ASSUME TypeOK, NEW r \in Request, NEW t \in Someone, NEW l \in Lease, NEW p \in Period,
         NEW k \in 0 .. MaxLease, NEW left \in SUBSET Someone,
         Gains(r, l, NewLease(t, p, k), left)
  PROVE  Noted(r, l, t, p, k, left)
<1>. DEFINE S == Deactivating(t) \cup Rivals(r)
            some == \E s \in Request \ {r} : Tests(s, p)
            rival == \E s \in Request \ {r} : Renews(s, k)
<1>1. S \subseteq Request /\ hist \in Hist
  BY DEF TypeOK, Hist, Deactivating, Rivals
<1>2. hist' = [hist EXCEPT
        !.loose = IF some THEN @ \cup {l} ELSE @,
        !.rivalled = IF rival THEN @ \cup {l} ELSE @,
        !.unsettled = (@ \ {t}) \cup left,
        !.late = @ \cup Deactivating(t) \cup Rivals(r)]
  BY DEF Gains, NewLease
<1>3. hist' = [hist EXCEPT
        !.loose = IF some THEN @ \cup {l} ELSE @,
        !.rivalled = IF rival THEN @ \cup {l} ELSE @,
        !.unsettled = (@ \ {t}) \cup left,
        !.late = @ \cup S]
  BY <1>1, <1>2 DEF Hist
<1>. HIDE DEF S, some, rival
<1>4. /\ hist' \in Hist /\ hist'.edited = hist.edited
      /\ hist'.loose = IF some THEN hist.loose \cup {l} ELSE hist.loose
      /\ hist'.rivalled = IF rival THEN hist.rivalled \cup {l} ELSE hist.rivalled
      /\ hist'.unsettled = (hist.unsettled \ {t}) \cup left
      /\ hist'.late = hist.late \cup S
  BY <1>1, <1>3 DEF Hist
<1>5. hist'.late = hist.late \cup Deactivating(t) \cup Rivals(r)
  BY <1>4 DEF S
<1>. QED
  BY <1>4, <1>5 DEF Noted, some, rival

(* A call gives t the new lease l for the period p, and k, if there is one, *)
(* is renewed by it.                                                        *)
Granted(r, l, t, p, k, left) ==
  /\ lease' \in LTable
  /\ lease[l] = Unborn
  /\ lease'[l].status = "ACTIVE" /\ lease'[l].tenant = t /\ lease'[l].period = p
  /\ lease'[l].from = k /\ lease'[l].to = 0
  /\ \A m \in Lease \ {l, k} : lease'[m] = lease[m]
  /\ k # 0 => /\ k \in Lease \ {l} /\ Exists(k)
              /\ lease'[k].status = "EXPIRED" /\ lease'[k].to = l
              /\ lease'[k].tenant = lease[k].tenant
              /\ lease'[k].period = lease[k].period
              /\ lease'[k].from = lease[k].from
  /\ Noted(r, l, t, p, k, left)

LEMMA NewLeaseGranted ==
  ASSUME TypeOK, NEW r \in Request, NEW l \in Lease, Free(l), NEW t \in Tenant,
         NEW p \in Period, lease' = [lease EXCEPT ![l] = NewLease(t, p, 0)],
         NEW left \in SUBSET Someone, Gains(r, l, NewLease(t, p, 0), left)
  PROVE  Granted(r, l, t, p, 0, left)
<1>1. lease \in LTable
  BY TypeFacts
<1>2. NewLease(t, p, 0) \in LeaseRow
  BY DEF NewLease, LeaseRow
<1>3. /\ lease' \in LTable /\ lease'[l] = NewLease(t, p, 0)
      /\ \A m \in Lease \ {l} : lease'[m] = lease[m]
  BY <1>1, <1>2 DEF LTable
<1>4. /\ lease'[l].status = "ACTIVE" /\ lease'[l].tenant = t /\ lease'[l].period = p
      /\ lease'[l].from = 0 /\ lease'[l].to = 0
  BY <1>3 DEF NewLease
<1>5. lease[l] = Unborn
  BY DEF Free
<1>6. t \in Someone /\ 0 \in 0 .. MaxLease
  OBVIOUS
<1>7. Noted(r, l, t, p, 0, left)
  BY <1>6, GainsShape
<1>. QED
  BY <1>3, <1>4, <1>5, <1>7 DEF Granted

LEMMA CreateEffect ==
  ASSUME TypeOK, NEW r \in Request, CommitCreate(r)
  PROVE  LET t == req[r].tenant
         IN  /\ req[r].op = "create" /\ t \in Tenant /\ req[r].period \in Period
             /\ \E l \in Lease : Granted(r, l, t, req[r].period, 0, {})
             /\ access' = access \cup {t}
             /\ resident' \subseteq Tenant
             /\ user' \in UTable
             /\ user'[t] = IF req[r].fresh THEN "ACTIVE" ELSE user[t]
             /\ \A u \in Tenant \ {t} : user'[u] = user[u]
             /\ Finish(r) /\ ask' = ask
<1>. DEFINE t == req[r].tenant
<1>1. /\ req[r].op = "create" /\ t \in Tenant /\ req[r].period \in Period
      /\ user \in UTable /\ resident \subseteq Tenant
  BY TypeFacts, StateOfRequest DEF CommitCreate
<1>2. PICK l \in Lease : /\ Free(l)
                         /\ lease' = [lease EXCEPT ![l] = NewLease(t, req[r].period, 0)]
                         /\ Gains(r, l, NewLease(t, req[r].period, 0), {})
  BY DEF CommitCreate
<1>3. Granted(r, l, t, req[r].period, 0, {})
  BY <1>1, <1>2, NewLeaseGranted
<1>4. /\ access' = access \cup {t}
      /\ resident' = resident \cup {t}
      /\ user' = [user EXCEPT ![t] = IF req[r].fresh THEN "ACTIVE" ELSE @]
      /\ Finish(r) /\ ask' = ask
  BY DEF CommitCreate
<1>. HIDE DEF t
<1>5. /\ user' \in UTable
      /\ user'[t] = IF req[r].fresh THEN "ACTIVE" ELSE user[t]
      /\ \A u \in Tenant \ {t} : user'[u] = user[u]
  BY <1>1, <1>4 DEF UTable
<1>. QED
  BY <1>1, <1>3, <1>4, <1>5 DEF t

LEMMA ApproveEffect ==
  ASSUME Shape, NEW r \in Request, CommitApprove(r)
  PROVE  LET t == ask[req[r].ask].tenant
         IN  /\ req[r].op = "approve" /\ t \in Tenant /\ req[r].ask \in RentRequest
             /\ \E l \in Lease :
                  Granted(r, l, t, Now, 0, IF req[r].had THEN {t} \ access ELSE {})
             /\ access' = IF req[r].had THEN access ELSE access \cup {t}
             /\ resident' = resident
             /\ user' \in UTable
             /\ user'[t] = IF req[r].fresh THEN "ACTIVE" ELSE user[t]
             /\ \A u \in Tenant \ {t} : user'[u] = user[u]
             /\ ask' \in ATable
             /\ ask'[req[r].ask].status = "APPROVED"
             /\ ask'[req[r].ask].tenant = t
             /\ \A a \in RentRequest \ {req[r].ask} : ask'[a] = ask[a]
             /\ Finish(r)
<1>. DEFINE a == req[r].ask
            t == ask[a].tenant
<1>1. /\ TypeOK /\ req[r].op = "approve" /\ a \in RentRequest /\ ask[a] \in AskRow
      /\ user \in UTable /\ ask \in ATable
  BY TypeFacts, StateOfRequest DEF CommitApprove, Shape, RefsOk, HeldOk
<1>2. t \in Tenant
  BY <1>1 DEF AskRow
<1>3. PICK l \in Lease : /\ Free(l)
                         /\ lease' = [lease EXCEPT ![l] = NewLease(t, Now, 0)]
                         /\ ask' = [ask EXCEPT ![a].status = "APPROVED", ![a].approved = l]
                         /\ Gains(r, l, NewLease(t, Now, 0),
                                  IF req[r].had THEN {t} \ access ELSE {})
  BY DEF CommitApprove
<1>4. Granted(r, l, t, Now, 0, IF req[r].had THEN {t} \ access ELSE {})
  <2>. DEFINE left == IF req[r].had THEN {t} \ access ELSE {}
  <2>1. left \in SUBSET Someone
    BY <1>2
  <2>2. Gains(r, l, NewLease(t, Now, 0), left)
    BY <1>3
  <2>. HIDE DEF left
  <2>3. Granted(r, l, t, Now, 0, left)
    BY <1>1, <1>2, <1>3, <2>1, <2>2, NewLeaseGranted
  <2>. QED
    BY <2>3 DEF left
<1>5. /\ access' = IF req[r].had THEN access ELSE access \cup {t}
      /\ resident' = resident
      /\ user' = [user EXCEPT ![t] = IF req[r].fresh THEN "ACTIVE" ELSE @]
      /\ Finish(r)
  BY DEF CommitApprove
<1>6. t = ask[a].tenant
  OBVIOUS
<1>. HIDE DEF t, a
<1>7. /\ user' \in UTable
      /\ user'[t] = IF req[r].fresh THEN "ACTIVE" ELSE user[t]
      /\ \A u \in Tenant \ {t} : user'[u] = user[u]
  BY <1>1, <1>2, <1>5 DEF UTable
<1>8. /\ ask' \in ATable /\ ask'[a].status = "APPROVED" /\ ask'[a].tenant = t
      /\ \A b \in RentRequest \ {a} : ask'[b] = ask[b]
  <2>. DEFINE half == [ask[a] EXCEPT !.status = "APPROVED"]
              row == [half EXCEPT !.approved = l]
  <2>1. half \in AskRow /\ half.tenant = t /\ half.status = "APPROVED"
    BY <1>1, <1>6 DEF AskRow
  <2>2. l \in 0 .. MaxLease
    OBVIOUS
  <2>3. ask' = [ask EXCEPT ![a] = row]
    BY <1>1, <1>3 DEF ATable
  <2>. HIDE DEF half
  <2>4. row \in AskRow /\ row.tenant = t /\ row.status = "APPROVED"
    BY <2>1, <2>2 DEF AskRow
  <2>. HIDE DEF row
  <2>. QED
    BY <1>1, <2>3, <2>4 DEF ATable
<1>. QED
  BY <1>1, <1>2, <1>4, <1>5, <1>7, <1>8 DEF t, a

(* Who loses the lease k when it is renewed for t, and not the access.      *)
LeftByRenewal(k, t) == IF Active(k) THEN {lease[k].tenant} \ {t} ELSE {}

LEMMA RenewEffect ==
  ASSUME TypeOK, NEW r \in Request, CommitRenew(r)
  PROVE  LET t == req[r].tenant
         IN  /\ req[r].op = "renew" /\ t \in Someone /\ req[r].lease \in Lease
             /\ req[r].period \in Period
             /\ \E l \in Lease :
                  Granted(r, l, t, req[r].period, req[r].lease, LeftByRenewal(req[r].lease, t))
             /\ access' = access \cup ({t} \ {NoTenant})
             /\ UNCHANGED <<resident, user, ask>>
             /\ Finish(r)
<1>. DEFINE t == req[r].tenant
            k == req[r].lease
            p == req[r].period
<1>1. /\ req[r].op = "renew" /\ t \in Someone /\ k \in Lease /\ p \in Period
      /\ lease \in LTable
  BY TypeFacts, StateOfRequest DEF CommitRenew
<1>2. Exists(k) /\ lease[k] \in LeaseRow
  BY <1>1, TypeFacts DEF CommitRenew
<1>3. PICK l \in Lease : /\ Free(l)
                         /\ lease' = [lease EXCEPT ![l] = NewLease(t, p, k),
                                                   ![k].status = "EXPIRED", ![k].to = l]
                         /\ Gains(r, l, NewLease(t, p, k), LeftByRenewal(k, t))
  BY DEF CommitRenew, LeftByRenewal
<1>4. /\ access' = access \cup ({t} \ {NoTenant})
      /\ UNCHANGED <<resident, user, ask>>
      /\ Finish(r)
  BY DEF CommitRenew
<1>. HIDE DEF t, k, p
<1>5. lease[l] = Unborn /\ k # l
  BY <1>2, <1>3 DEF Free, Exists, Unborn
<1>6. NewLease(t, p, k) \in LeaseRow
  BY <1>1 DEF NewLease, LeaseRow
<1>. DEFINE half == [lease[k] EXCEPT !.status = "EXPIRED"]
            row == [half EXCEPT !.to = l]
<1>7. row \in LeaseRow /\ row.status = "EXPIRED" /\ row.to = l
      /\ row.tenant = lease[k].tenant /\ row.period = lease[k].period
      /\ row.from = lease[k].from
  <2>1. /\ half \in LeaseRow /\ half.status = "EXPIRED"
        /\ half.tenant = lease[k].tenant /\ half.period = lease[k].period
        /\ half.from = lease[k].from
    BY <1>2 DEF LeaseRow
  <2>2. l \in 0 .. MaxLease
    OBVIOUS
  <2>. HIDE DEF half
  <2>. QED
    BY <2>1, <2>2 DEF LeaseRow
<1>r. lease' = [[lease EXCEPT ![l] = NewLease(t, p, k)] EXCEPT ![k] = row]
  BY <1>1, <1>3, <1>5 DEF LTable
<1>. HIDE DEF half, row
<1>8. /\ lease' \in LTable
      /\ lease'[l] = NewLease(t, p, k)
      /\ lease'[k] = row
      /\ \A m \in Lease \ {l, k} : lease'[m] = lease[m]
  BY <1>1, <1>r, <1>5, <1>6, <1>7 DEF LTable
<1>9. /\ lease'[l].status = "ACTIVE" /\ lease'[l].tenant = t /\ lease'[l].period = p
      /\ lease'[l].from = k /\ lease'[l].to = 0
  BY <1>8 DEF NewLease
<1>10. /\ lease'[k].status = "EXPIRED" /\ lease'[k].to = l
       /\ lease'[k].tenant = lease[k].tenant
       /\ lease'[k].period = lease[k].period
       /\ lease'[k].from = lease[k].from
  BY <1>7, <1>8
<1>g. Noted(r, l, t, p, k, LeftByRenewal(k, t))
  <2>1. LeftByRenewal(k, t) \in SUBSET Someone
    BY <1>2 DEF LeftByRenewal, LeaseRow
  <2>2. k \in 0 .. MaxLease
    BY <1>1
  <2>. QED
    BY <1>1, <1>3, <2>1, <2>2, GainsShape
<1>k. k \in Lease \ {l}
  BY <1>1, <1>5
<1>11. Granted(r, l, t, p, k, LeftByRenewal(k, t))
  BY <1>2, <1>5, <1>8, <1>9, <1>10, <1>g, <1>k DEF Granted
<1>. QED
  BY <1>1, <1>4, <1>11 DEF t, k, p

(* A call ends a lease, and the access of the tenant it had read.           *)
Ended(r, l) ==
  /\ lease' \in LTable /\ hist' \in Hist
  /\ Exists(l)
  /\ lease'[l].status \in EndStatus \cup {"deleted"}
  /\ lease'[l].status # "deleted" =>
       /\ lease'[l].tenant = lease[l].tenant /\ lease'[l].period = lease[l].period
       /\ lease'[l].from = lease[l].from /\ lease'[l].to = lease[l].to
  /\ \A m \in Lease \ {l} : lease'[m] = lease[m]
  /\ hist'.rivalled = hist.rivalled /\ hist'.edited = hist.edited
  /\ hist'.loose = hist.loose /\ hist'.late = hist.late
  /\ hist.unsettled \subseteq hist'.unsettled
  /\ Keeping(req[r].tenant) \ {l} # {} => req[r].tenant \in hist'.unsettled
  /\ Active(l) /\ lease[l].tenant # req[r].tenant => lease[l].tenant \in hist'.unsettled

EndStep(r) ==
  \/ \E st \in LeaseStatus : CommitEnd(r, st)
  \/ CommitRemove(r) \/ CommitTerminate(r) \/ CommitRentalTerminate(r)

LEMMA EndEffect ==
  ASSUME TypeOK, NEW r \in Request, EndStep(r)
  PROVE  /\ req[r].op \in {"patch", "remove", "terminate", "revoke"}
         /\ req[r].lease \in Lease /\ req[r].tenant \in Someone
         /\ Ended(r, req[r].lease)
         /\ access' = access \ {req[r].tenant}
         /\ resident' \subseteq Tenant
         /\ UNCHANGED <<user, ask, calls>>
         /\ req' \in [Request -> ReqState]
         /\ \A s \in Request \ {r} : req'[s] = req[s]
         /\ \/ req'[r] = Idle
            \/ req'[r].op = "count" /\ req'[r].tenant = req[r].tenant
<1>. DEFINE l == req[r].lease
            t == req[r].tenant
<1>1. /\ req[r].op \in {"patch", "remove", "terminate", "revoke"}
      /\ l \in Lease /\ t \in Someone
      /\ lease \in LTable /\ hist \in Hist /\ req \in [Request -> ReqState]
      /\ resident \subseteq Tenant
  BY TypeFacts, StateOfRequest DEF EndStep, CommitEnd, CommitRemove, CommitTerminate,
     CommitRentalTerminate
<1>2. /\ Exists(l) /\ Ends(t, l)
      /\ \/ \E st \in EndStatus : lease' = [lease EXCEPT ![l].status = st]
         \/ lease' = [lease EXCEPT ![l] = Deleted]
      /\ access' = access \ {t}
      /\ resident' \in {resident, resident \ {t}}
      /\ UNCHANGED <<user, ask, calls>>
  BY DEF EndStep, CommitEnd, CommitRemove, CommitTerminate, CommitRentalTerminate,
     Leaves, AccessAfter, Cascade, Finish
<1>3. Cascade(r) \/ Finish(r)
  BY DEF EndStep, CommitEnd, CommitRemove, CommitTerminate, CommitRentalTerminate
<1>4. lease[l] \in LeaseRow
  BY <1>1, <1>2, TypeFacts
<1>5. /\ req' \in [Request -> ReqState]
      /\ \A s \in Request \ {r} : req'[s] = req[s]
      /\ req'[r] = Idle \/ (req'[r].op = "count" /\ req'[r].tenant = t)
  <2>1. CASE Finish(r)
    BY <2>1, FinishShape
  <2>2. CASE Cascade(r) /\ t = NoTenant
    BY <1>1, <2>2, RequestShapes DEF Cascade
  <2>3. CASE Cascade(r) /\ t # NoTenant
    <3>1. [op |-> "count", tenant |-> t] \in ReqState
      BY <1>1, <2>3, RequestShapes
    <3>2. req' = [req EXCEPT ![r] = [op |-> "count", tenant |-> t]]
      BY <2>3 DEF Cascade
    <3>. HIDE DEF t
    <3>. QED
      BY <1>1, <3>1, <3>2
  <2>. QED
    BY <1>3, <2>1, <2>2, <2>3
<1>. HIDE DEF l, t
<1>6. /\ lease' \in LTable
      /\ lease'[l].status \in EndStatus \cup {"deleted"}
      /\ lease'[l].status # "deleted" =>
           /\ lease'[l].tenant = lease[l].tenant /\ lease'[l].period = lease[l].period
           /\ lease'[l].from = lease[l].from /\ lease'[l].to = lease[l].to
      /\ \A m \in Lease \ {l} : lease'[m] = lease[m]
  <2>1. CASE lease' = [lease EXCEPT ![l] = Deleted]
    BY <1>1, <2>1 DEF LTable, Deleted
  <2>2. CASE \E st \in EndStatus : lease' = [lease EXCEPT ![l].status = st]
    <3>1. PICK st \in EndStatus : lease' = [lease EXCEPT ![l].status = st]
      BY <2>2
    <3>2. [lease[l] EXCEPT !.status = st] \in LeaseRow
      BY <1>4 DEF LeaseRow
    <3>. QED
      BY <1>1, <1>4, <3>1, <3>2 DEF LTable, LeaseRow
  <2>. QED
    BY <1>2, <2>1, <2>2
<1>7. /\ hist' \in Hist
      /\ hist'.rivalled = hist.rivalled /\ hist'.edited = hist.edited
      /\ hist'.loose = hist.loose /\ hist'.late = hist.late
      /\ hist.unsettled \subseteq hist'.unsettled
      /\ Keeping(t) \ {l} # {} => t \in hist'.unsettled
      /\ Active(l) /\ lease[l].tenant # t => lease[l].tenant \in hist'.unsettled
  <2>. DEFINE A == IF Keeping(t) \ {l} # {} THEN {t} ELSE {}
              B == IF Active(l) THEN {lease[l].tenant} \ {t} ELSE {}
  <2>1. A \subseteq Someone /\ B \subseteq Someone
    BY <1>1, <1>4 DEF LeaseRow
  <2>2. hist' = [hist EXCEPT !.unsettled = @ \cup A \cup B]
    BY <1>2 DEF Ends
  <2>3. /\ Keeping(t) \ {l} # {} => t \in A
        /\ Active(l) /\ lease[l].tenant # t => lease[l].tenant \in B
    OBVIOUS
  <2>. HIDE DEF A, B
  <2>4. /\ hist' \in Hist
        /\ hist'.rivalled = hist.rivalled /\ hist'.edited = hist.edited
        /\ hist'.loose = hist.loose /\ hist'.late = hist.late
        /\ hist'.unsettled = hist.unsettled \cup A \cup B
    BY <1>1, <2>1, <2>2 DEF Hist
  <2>. QED
    BY <2>3, <2>4
<1>8. Ended(r, l)
  BY <1>2, <1>6, <1>7 DEF Ended, t
<1>. QED
  BY <1>1, <1>2, <1>5, <1>8 DEF l, t

(* The lease l is rewritten in place.                                       *)
Rewritten(l, st, t, p) ==
  /\ lease' \in LTable
  /\ lease'[l].status = st /\ lease'[l].tenant = t /\ lease'[l].period = p
  /\ lease'[l].from = lease[l].from /\ lease'[l].to = lease[l].to
  /\ \A m \in Lease \ {l} : lease'[m] = lease[m]

LEMMA AddEffect ==
  ASSUME TypeOK, NEW r \in Request, CommitAddTenant(r)
  PROVE  LET l == req[r].lease
             t == req[r].tenant
         IN  /\ req[r].op = "add" /\ l \in Lease /\ t \in Tenant /\ user[t] = "none"
             /\ Exists(l) /\ lease[l] \in LeaseRow
             /\ Rewritten(l, lease[l].status, t, lease[l].period)
             /\ access' = access \cup {t}
             /\ resident' \subseteq Tenant
             /\ user' \in UTable /\ user'[t] = "ACTIVE"
             /\ \A u \in Tenant \ {t} : user'[u] = user[u]
             /\ hist' \in Hist
             /\ hist'.rivalled = hist.rivalled /\ hist'.edited = hist.edited
             /\ hist'.loose = hist.loose /\ hist'.late = hist.late
             /\ hist'.unsettled =
                  (hist.unsettled \ {t}) \cup {IF Active(l) THEN lease[l].tenant ELSE t}
             /\ Finish(r) /\ ask' = ask
<1>. DEFINE l == req[r].lease
            t == req[r].tenant
<1>1. /\ req[r].op = "add" /\ l \in Lease /\ t \in Tenant
      /\ lease \in LTable /\ user \in UTable /\ hist \in Hist /\ resident \subseteq Tenant
  BY TypeFacts, StateOfRequest DEF CommitAddTenant
<1>2. /\ Exists(l) /\ user[t] = "none"
      /\ lease' = [lease EXCEPT ![l].tenant = t]
      /\ access' = access \cup {t}
      /\ resident' = resident \cup {t}
      /\ user' = [user EXCEPT ![t] = "ACTIVE"]
      /\ hist' = [hist EXCEPT !.unsettled =
           (@ \ {t}) \cup {IF Active(l) THEN lease[l].tenant ELSE t}]
      /\ Finish(r) /\ ask' = ask
  BY DEF CommitAddTenant
<1>3. lease[l] \in LeaseRow
  BY <1>1, <1>2, TypeFacts
<1>. HIDE DEF l, t
<1>. DEFINE row == [lease[l] EXCEPT !.tenant = t]
<1>4. /\ row \in LeaseRow /\ row.tenant = t /\ row.status = lease[l].status
      /\ row.period = lease[l].period /\ row.from = lease[l].from /\ row.to = lease[l].to
  BY <1>1, <1>3 DEF LeaseRow
<1>5. lease' = [lease EXCEPT ![l] = row]
  BY <1>1, <1>2 DEF LTable
<1>. HIDE DEF row
<1>6. Rewritten(l, lease[l].status, t, lease[l].period)
  BY <1>1, <1>4, <1>5 DEF LTable, Rewritten
<1>7. /\ user' \in UTable /\ user'[t] = "ACTIVE"
      /\ \A u \in Tenant \ {t} : user'[u] = user[u]
  BY <1>1, <1>2 DEF UTable
<1>8. lease[l].tenant \in Someone
  BY <1>3 DEF LeaseRow
<1>. DEFINE U == (hist.unsettled \ {t}) \cup {IF Active(l) THEN lease[l].tenant ELSE t}
<1>9. U \in SUBSET Someone
  BY <1>1, <1>8 DEF Hist
<1>10. hist' = [hist EXCEPT !.unsettled = U]
  BY <1>2
<1>. HIDE DEF U
<1>11. /\ hist' \in Hist
       /\ hist'.rivalled = hist.rivalled /\ hist'.edited = hist.edited
       /\ hist'.loose = hist.loose /\ hist'.late = hist.late
       /\ hist'.unsettled = U
  BY <1>1, <1>9, <1>10 DEF Hist
<1>. QED
  BY <1>1, <1>2, <1>3, <1>6, <1>7, <1>11 DEF l, t, U

EditStep(r) == \E st \in LeaseStatus, t \in Someone, p \in Period : CommitEdit(r, st, t, p)

LEMMA EditEffect ==
  ASSUME TypeOK, NEW r \in Request, EditStep(r)
  PROVE  LET l == req[r].lease
         IN  /\ req[r].op = "patch" /\ l \in Lease
             /\ Exists(l) /\ lease[l] \in LeaseRow
             /\ \E st \in LeaseStatus, t \in Someone, p \in Period :
                  /\ Rewritten(l, st, t, p)
                  /\ HasUser(t)
                  /\ hist.unsettled \subseteq hist'.unsettled
                  /\ \/ st = lease[l].status /\ t = lease[l].tenant
                     \/ {t, lease[l].tenant} \subseteq hist'.unsettled
                  /\ hist'.late = hist.late \cup Deactivating(t)
             /\ hist' \in Hist
             /\ hist'.rivalled = hist.rivalled /\ hist'.loose = hist.loose
             /\ hist'.edited = hist.edited \cup {l}
             /\ Finish(r) /\ UNCHANGED <<access, resident, user, ask>>
<1>. DEFINE l == req[r].lease
<1>1. PICK st \in LeaseStatus, t \in Someone, p \in Period : CommitEdit(r, st, t, p)
  BY DEF EditStep
<1>2. /\ req[r].op = "patch" /\ l \in Lease
      /\ lease \in LTable /\ hist \in Hist
  BY <1>1, TypeFacts, StateOfRequest DEF CommitEdit
<1>. DEFINE S == Deactivating(t)
<1>3. /\ Exists(l) /\ HasUser(t)
      /\ lease' = [lease EXCEPT ![l].status = st, ![l].tenant = t, ![l].period = p]
      /\ hist' = [hist EXCEPT
              !.edited = @ \cup {l},
              !.unsettled = IF st = lease[l].status /\ t = lease[l].tenant THEN @
                            ELSE @ \cup {t, lease[l].tenant},
              !.late = @ \cup S]
      /\ Finish(r) /\ UNCHANGED <<access, resident, user, ask>>
  BY <1>1 DEF CommitEdit, HasUser
<1>4. lease[l] \in LeaseRow
  BY <1>2, <1>3, TypeFacts
<1>5. S \subseteq Request
  BY DEF Deactivating
<1>. HIDE DEF l, S
<1>. DEFINE one == [lease[l] EXCEPT !.status = st]
            two == [one EXCEPT !.tenant = t]
            row == [two EXCEPT !.period = p]
<1>6. /\ one \in LeaseRow /\ one.status = st
      /\ one.from = lease[l].from /\ one.to = lease[l].to
  BY <1>4 DEF LeaseRow
<1>r. lease' = [lease EXCEPT ![l] = row]
  BY <1>2, <1>3 DEF LTable
<1>. HIDE DEF one
<1>7. /\ two \in LeaseRow /\ two.status = st /\ two.tenant = t
      /\ two.from = lease[l].from /\ two.to = lease[l].to
  BY <1>6 DEF LeaseRow
<1>. HIDE DEF two
<1>8. /\ row \in LeaseRow /\ row.status = st /\ row.tenant = t /\ row.period = p
      /\ row.from = lease[l].from /\ row.to = lease[l].to
  BY <1>7 DEF LeaseRow
<1>. HIDE DEF row
<1>9. Rewritten(l, st, t, p)
  BY <1>2, <1>8, <1>r DEF LTable, Rewritten
<1>10. lease[l].tenant \in Someone
  BY <1>4 DEF LeaseRow
<1>. DEFINE same == st = lease[l].status /\ t = lease[l].tenant
            U == IF same THEN {} ELSE {t, lease[l].tenant}
<1>11. U \subseteq Someone /\ (same \/ {t, lease[l].tenant} \subseteq U)
  BY <1>10
<1>12. hist' = [hist EXCEPT
              !.edited = @ \cup {l},
              !.unsettled = @ \cup U,
              !.late = @ \cup S]
  <2>1. CASE same
    BY <1>2, <1>3, <2>1 DEF Hist
  <2>2. CASE ~same
    BY <1>3, <2>2
  <2>. QED
    BY <2>1, <2>2
<1>. HIDE DEF U
<1>13. /\ hist' \in Hist
       /\ hist'.rivalled = hist.rivalled /\ hist'.loose = hist.loose
       /\ hist'.edited = hist.edited \cup {l}
       /\ hist'.unsettled = hist.unsettled \cup U
       /\ hist'.late = hist.late \cup S
  BY <1>2, <1>5, <1>11, <1>12 DEF Hist
<1>. QED
  BY <1>2, <1>3, <1>4, <1>9, <1>13 DEF l, S, U

(* Steps that leave the leases and the access alone.                        *)
QuietStep(r) ==
  \/ Count(r) \/ Deactivate(r) \/ CommitAsk(r)
  \/ \E st \in RentRequestStatus : CommitRefuse(r, st)
  \/ Fail(r)

LEMMA QuietEffect ==
  ASSUME Shape, NEW r \in Request, QuietStep(r)
  PROVE  /\ UNCHANGED <<lease, access, resident, calls>>
         /\ hist' \in Hist
         /\ hist'.loose = hist.loose /\ hist'.rivalled = hist.rivalled
         /\ hist'.edited = hist.edited /\ hist'.unsettled = hist.unsettled
         /\ hist'.late \in {hist.late, hist.late \cup Rivals(r)}
         /\ (\E st \in RentRequestStatus : CommitRefuse(r, st)) =>
              hist'.late = hist.late \cup Rivals(r)
         /\ req[r] # Idle
         /\ req' \in [Request -> ReqState]
         /\ \A s \in Request \ {r} : req'[s] = req[s]
         /\ \/ req'[r] = Idle
            \/ /\ req'[r].op = "deactivate" /\ req[r].op = "count"
               /\ req'[r].tenant = req[r].tenant
               /\ Keeping(req[r].tenant) = {}
         /\ ask' \in ATable
         /\ \A a \in RentRequest :
              /\ Stored(a) => Stored(a)' /\ ask'[a].tenant = ask[a].tenant
              /\ ask'[a] = ask[a] \/ (req[r].op \in {"ask", "refuse"} /\ a = req[r].ask)
         /\ user' \in UTable
         /\ \A u \in Tenant : user'[u] = user[u] \/ (user'[u] = "INACTIVE" /\ Deactivate(r)
                                                     /\ u = req[r].tenant)
<1>t. /\ TypeOK /\ req \in [Request -> ReqState] /\ user \in UTable /\ ask \in ATable
      /\ \A a \in RentRequest : Stored(a) => ask[a] \in AskRow
  BY TypeFacts DEF Shape
<1>h. /\ hist' \in Hist
      /\ hist'.loose = hist.loose /\ hist'.rivalled = hist.rivalled
      /\ hist'.edited = hist.edited /\ hist'.unsettled = hist.unsettled
      /\ hist'.late \in {hist.late, hist.late \cup Rivals(r)}
      /\ (\E st \in RentRequestStatus : CommitRefuse(r, st)) =>
           hist'.late = hist.late \cup Rivals(r)
  <2>1. hist \in Hist /\ Rivals(r) \subseteq Request
    BY <1>t DEF TypeOK, Hist, Rivals
  <2>2. CASE \E st \in RentRequestStatus : CommitRefuse(r, st)
    <3>1. hist' = [hist EXCEPT !.late = @ \cup Rivals(r)]
      BY <2>2 DEF CommitRefuse
    <3>. QED
      BY <2>1, <3>1 DEF Hist
  <2>3. CASE ~\E st \in RentRequestStatus : CommitRefuse(r, st)
    <3>1. hist' = hist
      BY <2>3 DEF QuietStep, Count, Deactivate, CommitAsk, Fail, rows
    <3>. QED
      BY <2>1, <2>3, <3>1
  <2>. QED
    BY <2>2, <2>3
<1>1. CASE Count(r)
  <2>1. /\ req[r].op = "count" /\ req[r].tenant \in Tenant
        /\ UNCHANGED <<lease, access, resident, user, ask, calls, hist>>
    BY <1>t, <1>1, StateOfRequest DEF Count, rows
  <2>2. \/ req' = [req EXCEPT ![r] = Idle]
        \/ /\ req' = [req EXCEPT ![r] = [@ EXCEPT !.op = "deactivate"]]
           /\ Keeping(req[r].tenant) = {}
    BY <1>1 DEF Count, Counted
  <2>3. req[r] = [op |-> "count", tenant |-> req[r].tenant]
    <3>1. req[r] \in ReqState
      BY <1>t
    <3>. QED
      BY <2>1, <3>1 DEF ReqState, Idle
  <2>4. CASE req' = [req EXCEPT ![r] = Idle]
    BY <1>t, <1>h, <2>1, <2>4, RequestShapes DEF Idle, Stored
  <2>5. CASE /\ req' = [req EXCEPT ![r] = [@ EXCEPT !.op = "deactivate"]]
             /\ Keeping(req[r].tenant) = {}
    <3>. DEFINE q == [op |-> "deactivate", tenant |-> req[r].tenant]
    <3>1. q \in ReqState
      BY <2>1, RequestShapes
    <3>2. [req[r] EXCEPT !.op = "deactivate"] = q
      BY <2>3
    <3>3. req' = [req EXCEPT ![r] = q]
      BY <2>5, <3>2
    <3>4. q.op = "deactivate" /\ q.tenant = req[r].tenant
      OBVIOUS
    <3>. HIDE DEF q
    <3>5. /\ req' \in [Request -> ReqState] /\ req'[r] = q
          /\ \A s \in Request \ {r} : req'[s] = req[s]
      BY <1>t, <3>1, <3>3
    <3>. QED
      BY <1>t, <1>h, <2>1, <2>5, <3>4, <3>5 DEF Idle, Stored
  <2>. QED
    BY <2>2, <2>4, <2>5
<1>2. CASE Finish(r) /\ UNCHANGED <<lease, access, resident, hist, ask>> /\ Deactivate(r)
  <2>1. req[r].op = "deactivate" /\ req[r].tenant \in Tenant
    BY <1>t, <1>2, StateOfRequest DEF Deactivate
  <2>2. user' = [user EXCEPT ![req[r].tenant] = "INACTIVE"]
    BY <1>2 DEF Deactivate
  <2>. DEFINE t == req[r].tenant
  <2>3. t \in Tenant /\ user' = [user EXCEPT ![t] = "INACTIVE"]
    BY <2>1, <2>2
  <2>. HIDE DEF t
  <2>4. user' \in UTable /\ user'[t] = "INACTIVE" /\ \A u \in Tenant \ {t} : user'[u] = user[u]
    BY <1>t, <2>3 DEF UTable
  <2>. QED
    BY <1>t, <1>h, <1>2, <2>1, <2>4, FinishShape DEF Idle, t, Stored
<1>3. CASE CommitAsk(r)
  <2>1. /\ req[r].op = "ask" /\ req[r].ask \in RentRequest /\ req[r].tenant \in Tenant
    BY <1>t, <1>3, StateOfRequest DEF CommitAsk
  <2>. DEFINE a == req[r].ask
              row == [status |-> "PENDING", tenant |-> req[r].tenant, approved |-> 0]
  <2>2. ask[a] = Unborn
    BY <2>1 DEF Shape, RefsOk, HeldOk
  <2>3. row \in AskRow
    BY <2>1 DEF AskRow
  <2>4. /\ ask' = [ask EXCEPT ![a] = row]
        /\ Finish(r) /\ UNCHANGED <<lease, access, resident, user, hist>>
    BY <1>3 DEF CommitAsk
  <2>. HIDE DEF row
  <2>5. a \in RentRequest
    BY <2>1
  <2>. HIDE DEF a
  <2>6. ask' \in ATable /\ \A b \in RentRequest \ {a} : ask'[b] = ask[b]
    BY <1>t, <2>3, <2>4, <2>5 DEF ATable
  <2>7. ~Stored(a)
    BY <2>2 DEF Stored, Unborn
  <2>8. \A b \in RentRequest : Stored(b) => Stored(b)' /\ ask'[b].tenant = ask[b].tenant
    BY <2>6, <2>7 DEF Stored
  <2>. QED
    BY <1>t, <1>h, <2>1, <2>4, <2>6, <2>8, FinishShape DEF Idle, a
<1>4. CASE \E st \in RentRequestStatus : CommitRefuse(r, st)
  <2>1. PICK st \in RentRequestStatus : CommitRefuse(r, st)
    BY <1>4
  <2>. DEFINE a == req[r].ask
              row == [ask[a] EXCEPT !.status = st]
  <2>2. /\ req[r].op = "refuse" /\ a \in RentRequest /\ Stored(a) /\ ask[a] \in AskRow
    BY <1>t, <2>1, StateOfRequest DEF CommitRefuse, Shape, RefsOk, HeldOk
  <2>3. row \in AskRow /\ row.tenant = ask[a].tenant /\ row.status = st
    BY <2>2 DEF AskRow
  <2>4. /\ ask' = [ask EXCEPT ![a] = row]
        /\ Finish(r) /\ UNCHANGED <<lease, access, resident, user>>
    BY <2>1 DEF CommitRefuse
  <2>. HIDE DEF row, a
  <2>6. ask' \in ATable /\ ask'[a] = row /\ \A b \in RentRequest \ {a} : ask'[b] = ask[b]
    BY <1>t, <2>2, <2>3, <2>4 DEF ATable
  <2>8. \A b \in RentRequest : Stored(b) => Stored(b)' /\ ask'[b].tenant = ask[b].tenant
    BY <2>3, <2>6 DEF Stored
  <2>. QED
    BY <1>t, <1>h, <2>2, <2>4, <2>6, <2>8, FinishShape DEF Idle, a
<1>5. CASE Fail(r)
  BY <1>t, <1>h, <1>5, FinishShape DEF Fail, rows, Stored
<1>. QED
  BY <1>1, <1>2, <1>3, <1>4, <1>5 DEF QuietStep, Deactivate


-----------------------------------------------------------------------------
(* Type correctness *)

(* References stay good if accounts, rent requests and leases are not lost. *)
LEMMA RefsKept ==
  ASSUME Shape, NEW r \in Request,
         \A u \in Tenant : user[u] # "none" => user'[u] # "none",
         \A a \in RentRequest :
           /\ Stored(a) => Stored(a)' /\ ask'[a].tenant = ask[a].tenant
           /\ \/ ask'[a] = ask[a]
              \/ req[r].op \in {"ask", "refuse", "approve"} /\ a = req[r].ask,
         \A s \in Request \ {r} : req'[s] = req[s],
         HeldOk(req[r])',
         req'[r].op # "ask",
         \A l \in Lease : lease[l] # Unborn => lease'[l] # Unborn,
         \A l \in Lease : Exists(l)' =>
           \/ Exists(l) /\ lease'[l].tenant = lease[l].tenant /\ lease'[l].from = lease[l].from
           \/ /\ HasUser(lease[l].tenant)'
              /\ \/ Exists(l) /\ lease'[l].from = lease[l].from
                 \/ lease'[l].from # 0 =>
                      lease'[l].from \in Lease /\ lease'[lease'[l].from] # Unborn
  PROVE  RefsOk'
<1>1. ASSUME NEW s \in Request \ {r}
      PROVE  HeldOk(req[s])'
  <2>1. HeldOk(req[s]) /\ req'[s] = req[s] /\ req[s] \in ReqState /\ req[r] \in ReqState
    BY <1>1 DEF Shape, RefsOk, TypeOK
  <2>2. req[s].op = "ask" => ask'[req[s].ask] = Unborn
    <3>. SUFFICES ASSUME req[s].op = "ask" PROVE ask'[req[s].ask] = Unborn
      OBVIOUS
    <3>1. ask[req[s].ask] = Unborn /\ req[s].ask \in RentRequest
      BY <2>1, StateOfRequest DEF HeldOk
    <3>2. ~Stored(req[s].ask)
      BY <3>1 DEF Stored, Unborn
    <3>3. req[r].op \in {"refuse", "approve"} => Stored(req[r].ask)
      BY DEF Shape, RefsOk, HeldOk
    <3>4. req[r].op = "ask" => req[r].ask # req[s].ask
      BY DEF Shape, RefsOk
    <3>. QED
      BY <3>1, <3>2, <3>3, <3>4
  <2>. QED
    BY <2>1, <2>2, StateOfRequest DEF HeldOk, HasUser
<1>2. \A p, q \in Request : req'[p].op = "ask" /\ req'[q].op = "ask" /\ p # q =>
        req'[p].ask # req'[q].ask
  BY DEF Shape, RefsOk
<1>3. ASSUME NEW l \in Lease, Exists(l)'
      PROVE  HasUser(lease[l].tenant)' /\ (lease'[l].from # 0 => lease'[lease'[l].from] # Unborn)
  <2>1. Exists(l) => /\ lease[l] \in LeaseRow /\ HasUser(lease[l].tenant)
                     /\ lease[l].from # 0 => lease[lease[l].from] # Unborn
    BY TypeFacts DEF Shape, RefsOk
  <2>2. Exists(l) /\ lease[l].from # 0 => lease[l].from \in Lease
    BY <2>1 DEF LeaseRow
  <2>. QED
    BY <1>3, <2>1, <2>2 DEF HasUser
<1>. QED
  BY <1>1, <1>2, <1>3 DEF RefsOk

WorkStep(r) ==
  \/ CommitCreate(r) \/ CommitApprove(r) \/ CommitRenew(r)
  \/ EndStep(r) \/ CommitAddTenant(r) \/ EditStep(r) \/ QuietStep(r)

LEMMA EveryStep ==
  ASSUME Next
  PROVE  \E r \in Request : StartStep(r) \/ WorkStep(r)
BY NextSteps DEF WorkStep, EndStep, EditStep, QuietStep

(* The tables of leases: what a step may do to a lease that was there.      *)
LEMMA GrantedRefs ==
  ASSUME NEW r \in Request, NEW l \in Lease, NEW t \in Someone, NEW p \in Period,
         NEW k \in 0 .. MaxLease, NEW left, Granted(r, l, t, p, k, left), HasUser(t)'
  PROVE  /\ \A m \in Lease : lease[m] # Unborn => lease'[m] # Unborn
         /\ \A m \in Lease : Exists(m)' =>
              \/ Exists(m) /\ lease'[m].tenant = lease[m].tenant /\ lease'[m].from = lease[m].from
              \/ /\ HasUser(lease[m].tenant)'
                 /\ \/ Exists(m) /\ lease'[m].from = lease[m].from
                    \/ lease'[m].from # 0 =>
                         lease'[m].from \in Lease /\ lease'[lease'[m].from] # Unborn
<1>1. k # 0 => k \in Lease \ {l} /\ Exists(k) /\ lease'[k] # Unborn
  BY DEF Granted, Unborn
<1>2. ASSUME NEW m \in Lease \ {l, k}
      PROVE  lease'[m] = lease[m]
  BY DEF Granted
<1>3. lease[l] = Unborn /\ lease'[l] # Unborn /\ lease'[l].tenant = t /\ lease'[l].from = k
  BY DEF Granted, Unborn
<1>4. k # 0 => lease'[k].tenant = lease[k].tenant /\ lease'[k].from = lease[k].from
  BY DEF Granted
<1>. QED
  BY <1>1, <1>2, <1>3, <1>4 DEF Exists

LEMMA ShapeInit == Init => Shape
<1>. SUFFICES ASSUME Init PROVE Shape
  OBVIOUS
<1>1. TypeOK
  BY DEF Init, TypeOK, ReqState, Idle
<1>2. RefsOk
  BY DEF Init, RefsOk, HeldOk, Exists, Idle, Unborn
<1>. QED
  BY <1>1, <1>2 DEF Shape

LEMMA ShapeKept ==
  ASSUME Shape, [Next]_vars
  PROVE  Shape'
<1>t. /\ TypeOK /\ req \in [Request -> ReqState] /\ calls \in 0 .. MaxCall
      /\ access \subseteq Tenant /\ resident \subseteq Tenant
      /\ lease \in LTable /\ ask \in ATable /\ user \in UTable /\ hist \in Hist
  BY TypeFacts DEF Shape
<1>h. \A r \in Request : HeldOk(req[r])
  BY DEF Shape, RefsOk
<1>k. \A l \in Lease : Exists(l) => lease[l] \in LeaseRow /\ HasUser(lease[l].tenant)
  BY TypeFacts DEF Shape, RefsOk
<1>i. \A r \in Request : req'[r] = Idle => HeldOk(req[r])'
  BY DEF HeldOk, Idle
<1>1. ASSUME NEW r \in Request, StartStep(r)
      PROVE  Shape'
  <2>1. PICK q \in ReqState : Begin(r, q) /\ HeldOk(q) /\ Begun(q)
    BY <1>1, StartStepShape
  <2>2. /\ UNCHANGED <<lease, access, resident, user, ask>>
        /\ calls' \in 0 .. MaxCall
        /\ req' \in [Request -> ReqState]
        /\ req'[r] = q
        /\ \A s \in Request \ {r} : req'[s] = req[s]
        /\ hist' \in Hist
    BY <1>t, <2>1, BeginShape
  <2>3. TypeOK'
    BY <1>t, <2>2 DEF TypeOK, LTable, ATable, UTable, Hist
  <2>4. \A s \in Request : HeldOk(req[s])'
    BY <1>h, <2>1, <2>2 DEF HeldOk, HasUser, Stored
  <2>5. \A p, s \in Request : req'[p].op = "ask" /\ req'[s].op = "ask" /\ p # s =>
          req'[p].ask # req'[s].ask
    BY <2>1, <2>2 DEF Begun, Shape, RefsOk, Idle
  <2>6. \A l \in Lease : Exists(l)' =>
          HasUser(lease[l].tenant)' /\ (lease'[l].from # 0 => lease'[lease'[l].from] # Unborn)
    BY <2>2 DEF Shape, RefsOk, Exists, HasUser
  <2>. QED
    BY <2>3, <2>4, <2>5, <2>6 DEF Shape, RefsOk
<1>2. ASSUME NEW r \in Request, CommitCreate(r)
      PROVE  Shape'
  <2>0. PICK t \in Tenant, p \in Period : t = req[r].tenant /\ p = req[r].period
    BY <1>t, <1>2, CreateEffect
  <2>1. /\ req[r].op = "create" /\ t \in Tenant /\ p \in Period
        /\ access' = access \cup {t} /\ resident' \subseteq Tenant /\ user' \in UTable
        /\ user'[t] = IF req[r].fresh THEN "ACTIVE" ELSE user[t]
        /\ \A u \in Tenant \ {t} : user'[u] = user[u]
        /\ Finish(r) /\ ask' = ask
    BY <1>t, <1>2, <2>0, CreateEffect
  <2>2. PICK l \in Lease : Granted(r, l, t, p, 0, {})
    BY <1>t, <1>2, <2>0, CreateEffect
  <2>3. ~req[r].fresh => user[t] # "none"
    BY <1>h, <2>0, <2>1 DEF HeldOk, HasUser
  <2>4. /\ req' \in [Request -> ReqState] /\ req'[r] = Idle /\ calls' = calls
        /\ \A s \in Request \ {r} : req'[s] = req[s]
    BY <1>t, <2>1, FinishShape
  <2>5. TypeOK'
    BY <1>t, <2>1, <2>2, <2>4 DEF Granted, Noted, TypeOK, LTable, ATable, UTable, Hist
  <2>6. HasUser(t)' /\ \A u \in Tenant : user[u] # "none" => user'[u] # "none"
    BY <2>1, <2>3 DEF HasUser
  <2>7. RefsOk'
    <3>1. \A a \in RentRequest : /\ Stored(a) => Stored(a)' /\ ask'[a].tenant = ask[a].tenant
                                 /\ ask'[a] = ask[a]
      BY <2>1 DEF Stored
    <3>2. HeldOk(req[r])' /\ req'[r].op # "ask"
      BY <1>i, <2>4 DEF Idle
    <3>3. t \in Someone /\ 0 \in 0 .. MaxLease
      BY <2>1
    <3>4. /\ \A m \in Lease : lease[m] # Unborn => lease'[m] # Unborn
          /\ \A m \in Lease : Exists(m)' =>
              \/ Exists(m) /\ lease'[m].tenant = lease[m].tenant /\ lease'[m].from = lease[m].from
              \/ /\ HasUser(lease[m].tenant)'
                 /\ \/ Exists(m) /\ lease'[m].from = lease[m].from
                    \/ lease'[m].from # 0 =>
                         lease'[m].from \in Lease /\ lease'[lease'[m].from] # Unborn
      BY <2>1, <2>2, <2>6, <3>3, GrantedRefs
    <3>. QED
      BY <2>4, <2>6, <3>1, <3>2, <3>4, RefsKept
  <2>. QED
    BY <2>5, <2>7 DEF Shape
<1>3. ASSUME NEW r \in Request, CommitApprove(r)
      PROVE  Shape'
  <2>0. PICK t \in Tenant, a \in RentRequest : t = ask[a].tenant /\ a = req[r].ask
    BY <1>3, ApproveEffect
  <2>1. /\ req[r].op = "approve" /\ t \in Tenant /\ a \in RentRequest
        /\ access' = IF req[r].had THEN access ELSE access \cup {t}
        /\ resident' = resident /\ user' \in UTable
        /\ user'[t] = IF req[r].fresh THEN "ACTIVE" ELSE user[t]
        /\ \A u \in Tenant \ {t} : user'[u] = user[u]
        /\ ask' \in ATable /\ ask'[a].status = "APPROVED" /\ ask'[a].tenant = t
        /\ \A b \in RentRequest \ {a} : ask'[b] = ask[b]
        /\ Finish(r)
    BY <1>3, <2>0, ApproveEffect
  <2>2. PICK l \in Lease, left \in SUBSET Tenant : Granted(r, l, t, Now, 0, left)
    <3>1. (IF req[r].had THEN {t} \ access ELSE {}) \in SUBSET Tenant
      OBVIOUS
    <3>. QED
      BY <1>3, <2>0, <3>1, ApproveEffect
  <2>3. ~req[r].fresh => user[t] # "none"
    BY <1>h, <2>0, <2>1 DEF HeldOk, HasUser
  <2>4. /\ req' \in [Request -> ReqState] /\ req'[r] = Idle /\ calls' = calls
        /\ \A s \in Request \ {r} : req'[s] = req[s]
    BY <1>t, <2>1, FinishShape
  <2>5. TypeOK'
    BY <1>t, <2>1, <2>2, <2>4 DEF Granted, Noted, TypeOK, LTable, ATable, UTable, Hist
  <2>6. HasUser(t)' /\ \A u \in Tenant : user[u] # "none" => user'[u] # "none"
    <3>1. user'[t] # "none"
      BY <2>1, <2>3
    <3>2. \A u \in Tenant : user[u] # "none" => user'[u] # "none"
      BY <2>1, <3>1
    <3>. QED
      BY <3>1, <3>2 DEF HasUser
  <2>7. RefsOk'
    <3>1. \A b \in RentRequest : /\ Stored(b) => Stored(b)' /\ ask'[b].tenant = ask[b].tenant
                                 /\ ask'[b] = ask[b] \/ b = a
      BY <2>0, <2>1 DEF Stored
    <3>2. HeldOk(req[r])' /\ req'[r].op # "ask"
      BY <1>i, <2>4 DEF Idle
    <3>3. t \in Someone /\ 0 \in 0 .. MaxLease /\ Now \in Period
      BY <2>1
    <3>4. /\ \A m \in Lease : lease[m] # Unborn => lease'[m] # Unborn
          /\ \A m \in Lease : Exists(m)' =>
              \/ Exists(m) /\ lease'[m].tenant = lease[m].tenant /\ lease'[m].from = lease[m].from
              \/ /\ HasUser(lease[m].tenant)'
                 /\ \/ Exists(m) /\ lease'[m].from = lease[m].from
                    \/ lease'[m].from # 0 =>
                         lease'[m].from \in Lease /\ lease'[lease'[m].from] # Unborn
      BY <2>1, <2>2, <2>6, <3>3, GrantedRefs
    <3>. QED
      BY <2>0, <2>1, <2>4, <2>6, <3>1, <3>2, <3>4, RefsKept
  <2>. QED
    BY <2>5, <2>7 DEF Shape
<1>4. ASSUME NEW r \in Request, CommitRenew(r)
      PROVE  Shape'
  <2>0. PICK t \in Someone, p \in Period, k \in Lease :
          t = req[r].tenant /\ p = req[r].period /\ k = req[r].lease
    BY <1>t, <1>4, RenewEffect
  <2>1. /\ req[r].op = "renew" /\ t \in Someone /\ k \in Lease /\ p \in Period
        /\ access' = access \cup ({t} \ {NoTenant})
        /\ UNCHANGED <<resident, user, ask>>
        /\ Finish(r)
    BY <1>t, <1>4, <2>0, RenewEffect
  <2>2. PICK l \in Lease : Granted(r, l, t, p, k, LeftByRenewal(k, t))
    BY <1>t, <1>4, <2>0, RenewEffect
  <2>4. /\ req' \in [Request -> ReqState] /\ req'[r] = Idle /\ calls' = calls
        /\ \A s \in Request \ {r} : req'[s] = req[s]
    BY <1>t, <2>1, FinishShape
  <2>5. TypeOK'
    BY <1>t, <2>1, <2>2, <2>4 DEF Granted, Noted, TypeOK, LTable, ATable, UTable, Hist
  <2>6. HasUser(t)
    BY <1>h, <2>0, <2>1 DEF HeldOk
  <2>7. HasUser(t)'
    BY <2>1, <2>6 DEF HasUser
  <2>8. RefsOk'
    <3>1. \A a \in RentRequest : /\ Stored(a) => Stored(a)' /\ ask'[a].tenant = ask[a].tenant
                                 /\ ask'[a] = ask[a]
      BY <2>1 DEF Stored
    <3>2. HeldOk(req[r])' /\ req'[r].op # "ask"
      BY <1>i, <2>4 DEF Idle
    <3>3. k \in 0 .. MaxLease
      BY <2>1
    <3>4. /\ \A m \in Lease : lease[m] # Unborn => lease'[m] # Unborn
          /\ \A m \in Lease : Exists(m)' =>
              \/ Exists(m) /\ lease'[m].tenant = lease[m].tenant /\ lease'[m].from = lease[m].from
              \/ /\ HasUser(lease[m].tenant)'
                 /\ \/ Exists(m) /\ lease'[m].from = lease[m].from
                    \/ lease'[m].from # 0 =>
                         lease'[m].from \in Lease /\ lease'[lease'[m].from] # Unborn
      BY <2>1, <2>2, <2>7, <3>3, GrantedRefs
    <3>. QED
      BY <2>1, <2>4, <3>1, <3>2, <3>4, RefsKept
  <2>. QED
    BY <2>5, <2>8 DEF Shape
<1>5. ASSUME NEW r \in Request, EndStep(r)
      PROVE  Shape'
  <2>0. PICK l \in Lease : l = req[r].lease
    BY <1>t, <1>5, EndEffect
  <2>1. /\ req[r].op \in {"patch", "remove", "terminate", "revoke"}
        /\ l \in Lease /\ Ended(r, l)
        /\ access' = access \ {req[r].tenant} /\ resident' \subseteq Tenant
        /\ UNCHANGED <<user, ask, calls>>
        /\ req' \in [Request -> ReqState]
        /\ \A s \in Request \ {r} : req'[s] = req[s]
        /\ \/ req'[r] = Idle
           \/ req'[r].op = "count" /\ req'[r].tenant = req[r].tenant
    BY <1>t, <1>5, <2>0, EndEffect
  <2>2. TypeOK'
    BY <1>t, <2>1 DEF Ended, TypeOK, LTable, ATable, UTable, Hist
  <2>3. HasUser(req[r].tenant)
    BY <1>h, <2>1 DEF HeldOk
  <2>4. HeldOk(req[r])' /\ req'[r].op # "ask"
    BY <2>1, <2>3 DEF HeldOk, HasUser, Idle
  <2>5. \A a \in RentRequest : /\ Stored(a) => Stored(a)' /\ ask'[a].tenant = ask[a].tenant
                               /\ ask'[a] = ask[a]
    BY <2>1 DEF Stored
  <2>6. /\ lease'[l] # Unborn
        /\ Exists(l)' => lease'[l].tenant = lease[l].tenant /\ lease'[l].from = lease[l].from
        /\ Exists(l)
        /\ \A m \in Lease \ {l} : lease'[m] = lease[m]
    BY <2>1 DEF Ended, Exists, Unborn
  <2>7. RefsOk'
    <3>1. \A m \in Lease : lease[m] # Unborn => lease'[m] # Unborn
      BY <2>6
    <3>2. \A m \in Lease : Exists(m)' =>
            Exists(m) /\ lease'[m].tenant = lease[m].tenant /\ lease'[m].from = lease[m].from
      BY <2>1, <2>6 DEF Exists
    <3>3. \A u \in Tenant : user[u] # "none" => user'[u] # "none"
      BY <2>1
    <3>. QED
      BY <2>1, <2>4, <2>5, <3>1, <3>2, <3>3, RefsKept
  <2>. QED
    BY <2>2, <2>7 DEF Shape
<1>6. ASSUME NEW r \in Request, CommitAddTenant(r)
      PROVE  Shape'
  <2>0. PICK l \in Lease, t \in Tenant : l = req[r].lease /\ t = req[r].tenant
    BY <1>t, <1>6, AddEffect
  <2>1. /\ req[r].op = "add" /\ l \in Lease /\ t \in Tenant /\ Exists(l)
        /\ Rewritten(l, lease[l].status, t, lease[l].period)
        /\ access' = access \cup {t} /\ resident' \subseteq Tenant
        /\ user' \in UTable /\ user'[t] = "ACTIVE"
        /\ \A u \in Tenant \ {t} : user'[u] = user[u]
        /\ hist' \in Hist /\ Finish(r) /\ ask' = ask
    BY <1>t, <1>6, <2>0, AddEffect
  <2>2. /\ req' \in [Request -> ReqState] /\ req'[r] = Idle /\ calls' = calls
        /\ \A s \in Request \ {r} : req'[s] = req[s]
    BY <1>t, <2>1, FinishShape
  <2>3. TypeOK'
    BY <1>t, <2>1, <2>2 DEF Rewritten, TypeOK, LTable, ATable, UTable, Hist
  <2>4. HeldOk(req[r])' /\ req'[r].op # "ask"
    BY <1>i, <2>2 DEF Idle
  <2>5. \A a \in RentRequest : /\ Stored(a) => Stored(a)' /\ ask'[a].tenant = ask[a].tenant
                               /\ ask'[a] = ask[a]
    BY <2>1 DEF Stored
  <2>6. /\ lease'[l] # Unborn /\ lease'[l].tenant = t /\ lease'[l].from = lease[l].from
        /\ \A m \in Lease \ {l} : lease'[m] = lease[m]
    BY <2>1 DEF Rewritten, Exists, Unborn
  <2>7. RefsOk'
    <3>1. \A m \in Lease : lease[m] # Unborn => lease'[m] # Unborn
      BY <2>6
    <3>2. HasUser(t)' /\ \A u \in Tenant : user[u] # "none" => user'[u] # "none"
      BY <2>1 DEF HasUser
    <3>3. \A m \in Lease : Exists(m)' =>
              \/ Exists(m) /\ lease'[m].tenant = lease[m].tenant /\ lease'[m].from = lease[m].from
              \/ /\ HasUser(lease[m].tenant)'
                 /\ Exists(m) /\ lease'[m].from = lease[m].from
      BY <2>1, <2>6, <3>2 DEF Exists
    <3>. QED
      BY <2>1, <2>2, <2>4, <2>5, <3>1, <3>2, <3>3, RefsKept
  <2>. QED
    BY <2>3, <2>7 DEF Shape
<1>7. ASSUME NEW r \in Request, EditStep(r)
      PROVE  Shape'
  <2>0. PICK l \in Lease : l = req[r].lease
    BY <1>t, <1>7, EditEffect
  <2>1. /\ req[r].op = "patch" /\ l \in Lease /\ Exists(l)
        /\ hist' \in Hist /\ Finish(r) /\ UNCHANGED <<access, resident, user, ask>>
    BY <1>t, <1>7, <2>0, EditEffect
  <2>p. PICK st \in LeaseStatus, t \in Someone, p \in Period : Rewritten(l, st, t, p) /\ HasUser(t)
    BY <1>t, <1>7, <2>0, EditEffect
  <2>2. /\ req' \in [Request -> ReqState] /\ req'[r] = Idle /\ calls' = calls
        /\ \A s \in Request \ {r} : req'[s] = req[s]
    BY <1>t, <2>1, FinishShape
  <2>3. TypeOK'
    BY <1>t, <2>1, <2>2, <2>p DEF Rewritten, TypeOK, LTable, ATable, UTable, Hist
  <2>4. HeldOk(req[r])' /\ req'[r].op # "ask"
    BY <1>i, <2>2 DEF Idle
  <2>5. \A a \in RentRequest : /\ Stored(a) => Stored(a)' /\ ask'[a].tenant = ask[a].tenant
                               /\ ask'[a] = ask[a]
    BY <2>1 DEF Stored
  <2>6. /\ lease'[l] # Unborn /\ lease'[l].tenant = t /\ lease'[l].from = lease[l].from
        /\ \A m \in Lease \ {l} : lease'[m] = lease[m]
    BY <2>p, <2>1 DEF Rewritten, Exists, Unborn
  <2>7. RefsOk'
    <3>1. \A m \in Lease : lease[m] # Unborn => lease'[m] # Unborn
      BY <2>6
    <3>2. HasUser(t)' /\ \A u \in Tenant : user[u] # "none" => user'[u] # "none"
      BY <2>1, <2>p DEF HasUser
    <3>3. \A m \in Lease : Exists(m)' =>
              \/ Exists(m) /\ lease'[m].tenant = lease[m].tenant /\ lease'[m].from = lease[m].from
              \/ /\ HasUser(lease[m].tenant)'
                 /\ Exists(m) /\ lease'[m].from = lease[m].from
      BY <2>1, <2>6, <3>2 DEF Exists
    <3>. QED
      BY <2>1, <2>2, <2>4, <2>5, <3>1, <3>2, <3>3, RefsKept
  <2>. QED
    BY <2>3, <2>7 DEF Shape
<1>8. ASSUME NEW r \in Request, QuietStep(r)
      PROVE  Shape'
  <2>1. /\ UNCHANGED <<lease, access, resident, calls>> /\ hist' \in Hist
        /\ req' \in [Request -> ReqState]
        /\ \A s \in Request \ {r} : req'[s] = req[s]
        /\ \/ req'[r] = Idle
           \/ /\ req'[r].op = "deactivate" /\ req[r].op = "count"
              /\ req'[r].tenant = req[r].tenant
        /\ ask' \in ATable
        /\ \A a \in RentRequest :
              /\ Stored(a) => Stored(a)' /\ ask'[a].tenant = ask[a].tenant
              /\ ask'[a] = ask[a] \/ (req[r].op \in {"ask", "refuse"} /\ a = req[r].ask)
        /\ user' \in UTable
        /\ \A u \in Tenant : user'[u] = user[u] \/ user'[u] = "INACTIVE"
    BY <1>8, QuietEffect
  <2>2. TypeOK'
    BY <1>t, <2>1 DEF TypeOK, LTable, ATable, UTable, Hist
  <2>3. \A u \in Tenant : user[u] # "none" => user'[u] # "none"
    BY <2>1
  <2>4. HeldOk(req[r])' /\ req'[r].op # "ask"
    BY <1>h, <2>1, <2>3 DEF HeldOk, HasUser, Idle
  <2>5. RefsOk'
    <3>1. \A m \in Lease : Exists(m)' =>
            Exists(m) /\ lease'[m].tenant = lease[m].tenant /\ lease'[m].from = lease[m].from
      BY <2>1 DEF Exists
    <3>2. \A m \in Lease : lease[m] # Unborn => lease'[m] # Unborn
      BY <2>1
    <3>. QED
      BY <2>1, <2>3, <2>4, <3>1, <3>2, RefsKept
  <2>. QED
    BY <2>2, <2>5 DEF Shape
<1>9. ASSUME UNCHANGED vars
      PROVE  Shape'
  BY <1>9 DEF vars, Shape, TypeOK, RefsOk, HeldOk, HasUser, Stored, Exists
<1>. QED
  BY <1>1, <1>2, <1>3, <1>4, <1>5, <1>6, <1>7, <1>8, <1>9, EveryStep DEF WorkStep

(* Every variable stays in its type, for any number of leases and calls.    *)
THEOREM TypeCorrect == Spec => []TypeOK
<1>1. Spec => []Shape
  BY ShapeInit, ShapeKept, PTL DEF Spec
<1>2. Shape => TypeOK
  BY DEF Shape
<1>. QED
  BY <1>1, <1>2, PTL

-----------------------------------------------------------------------------
(* Steps by what they do to the leases *)

(* Every step but a start grants a lease, ends one, gives one another       *)
(* tenant, rewrites one, or leaves all of them as they are.                 *)
GrantStep(r) == CommitCreate(r) \/ CommitApprove(r) \/ CommitRenew(r)

LEMMA GrantEffect ==
  ASSUME Shape, NEW r \in Request, GrantStep(r)
  PROVE  \E l \in Lease, t \in Someone, p \in Period, k \in 0 .. MaxLease,
            left \in SUBSET Someone :
           /\ Granted(r, l, t, p, k, left)
           /\ Tests(r, p)
           /\ \A u \in Tenant \ {t} : u \in access' <=> u \in access
           /\ t \in Tenant => t \in access' \cup left
           /\ k # 0 => /\ Renews(r, k)
                       /\ Active(k) => lease[k].tenant \in left \cup {t}
           /\ k = 0 => req[r].op # "renew"
           /\ Finish(r)
           /\ \A u \in Tenant : user'[u] = user[u] \/ user'[u] = "ACTIVE"
<1>t. TypeOK
  BY DEF Shape
<1>1. CASE CommitCreate(r)
  <2>0. PICK t \in Tenant, p \in Period : t = req[r].tenant /\ p = req[r].period
    BY <1>t, <1>1, CreateEffect
  <2>1. PICK l \in Lease : Granted(r, l, t, p, 0, {})
    BY <1>t, <1>1, <2>0, CreateEffect
  <2>2. /\ req[r].op = "create" /\ access' = access \cup {t} /\ Finish(r)
        /\ user'[t] = IF req[r].fresh THEN "ACTIVE" ELSE user[t]
        /\ \A u \in Tenant \ {t} : user'[u] = user[u]
    BY <1>t, <1>1, <2>0, CreateEffect
  <2>3. Tests(r, p)
    BY <2>0, <2>2 DEF Tests
  <2>4. 0 \in 0 .. MaxLease /\ t \in Someone /\ {} \in SUBSET Someone
    OBVIOUS
  <2>. QED
    BY <2>1, <2>2, <2>3, <2>4
<1>2. CASE CommitApprove(r)
  <2>0. PICK t \in Tenant : t = ask[req[r].ask].tenant
    BY <1>2, ApproveEffect
  <2>. DEFINE left == IF req[r].had THEN {t} \ access ELSE {}
  <2>1. PICK l \in Lease : Granted(r, l, t, Now, 0, left)
    BY <1>2, <2>0, ApproveEffect
  <2>2. /\ req[r].op = "approve" /\ Finish(r)
        /\ access' = IF req[r].had THEN access ELSE access \cup {t}
        /\ user'[t] = IF req[r].fresh THEN "ACTIVE" ELSE user[t]
        /\ \A u \in Tenant \ {t} : user'[u] = user[u]
    BY <1>2, <2>0, ApproveEffect
  <2>3. Tests(r, Now)
    BY <2>2 DEF Tests
  <2>4. t \in access' \cup left
    BY <2>2
  <2>5. 0 \in 0 .. MaxLease /\ t \in Someone /\ Now \in Period /\ left \in SUBSET Someone
    OBVIOUS
  <2>6. \A u \in Tenant \ {t} : u \in access' <=> u \in access
    BY <2>2
  <2>7. \A u \in Tenant : user'[u] = user[u] \/ user'[u] = "ACTIVE"
    BY <2>2
  <2>. HIDE DEF left
  <2>. QED
    BY <2>1, <2>2, <2>3, <2>4, <2>5, <2>6, <2>7
<1>3. CASE CommitRenew(r)
  <2>0. PICK t \in Someone, p \in Period, k \in Lease :
          t = req[r].tenant /\ p = req[r].period /\ k = req[r].lease
    BY <1>t, <1>3, RenewEffect
  <2>1. PICK l \in Lease : Granted(r, l, t, p, k, LeftByRenewal(k, t))
    BY <1>t, <1>3, <2>0, RenewEffect
  <2>2. /\ req[r].op = "renew" /\ access' = access \cup ({t} \ {NoTenant}) /\ Finish(r)
        /\ user' = user
    BY <1>t, <1>3, <2>0, RenewEffect
  <2>3. Tests(r, p) /\ Renews(r, k)
    BY <2>0, <2>2 DEF Tests, Renews
  <2>4. k \in 0 .. MaxLease /\ k # 0
    OBVIOUS
  <2>5. Active(k) => lease[k].tenant \in LeftByRenewal(k, t) \cup {t}
    BY DEF LeftByRenewal
  <2>6. LeftByRenewal(k, t) \in SUBSET Someone
    <3>1. Active(k) => lease[k] \in LeaseRow
      BY <1>t, TypeFacts DEF Active, Exists
    <3>. QED
      BY <3>1 DEF LeftByRenewal, LeaseRow
  <2>7. /\ \A u \in Tenant \ {t} : u \in access' <=> u \in access
        /\ t \in Tenant => t \in access'
    BY <2>2
  <2>8. \A u \in Tenant : user'[u] = user[u] \/ user'[u] = "ACTIVE"
    BY <2>2
  <2>. QED
    BY <2>1, <2>2, <2>3, <2>4, <2>5, <2>6, <2>7, <2>8
<1>. QED
  BY <1>1, <1>2, <1>3 DEF GrantStep

(* The other calls go on as they were.                                      *)
LEMMA OthersStay ==
  ASSUME Shape, NEW r \in Request, WorkStep(r)
  PROVE  /\ req' \in [Request -> ReqState]
         /\ \A s \in Request \ {r} : req'[s] = req[s]
         /\ req'[r] = Idle \/ req'[r].op \in {"count", "deactivate"}
<1>t. TypeOK
  BY DEF Shape
<1>1. CASE GrantStep(r)
  <2>1. Finish(r)
    BY <1>1, GrantEffect
  <2>. QED
    BY <1>t, <2>1, FinishShape
<1>2. CASE EndStep(r)
  BY <1>t, <1>2, EndEffect
<1>3. CASE CommitAddTenant(r) \/ EditStep(r)
  <2>1. Finish(r)
    BY <1>t, <1>3, AddEffect, EditEffect
  <2>. QED
    BY <1>t, <2>1, FinishShape
<1>4. CASE QuietStep(r)
  BY <1>4, QuietEffect
<1>. QED
  BY <1>1, <1>2, <1>3, <1>4 DEF WorkStep, GrantStep

(* So what an open call has tested was tested before the step.              *)
LEMMA TestedBefore ==
  ASSUME Shape, NEW r \in Request, WorkStep(r), NEW s \in Request
  PROVE  /\ \A p \in Period : Tests(s, p)' => s # r /\ Tests(s, p) /\ req'[s] = req[s]
         /\ \A k \in Lease : Renews(s, k)' => s # r /\ Renews(s, k)
         /\ Reviewing(s)' => s # r /\ Reviewing(s) /\ req'[s] = req[s]
<1>1. CASE s = r
  <2>1. req'[s].op \notin {"create", "renew", "approve", "refuse"}
    BY <1>1, OthersStay DEF Idle
  <2>. QED
    BY <2>1 DEF Tests, Renews, Reviewing
<1>2. CASE s # r
  BY <1>2, OthersStay DEF Tests, Renews, Reviewing
<1>. QED
  BY <1>1, <1>2

-----------------------------------------------------------------------------
(* Overlapping leases *)

(* A call that has looked for a period finds it taken, by a lease other     *)
(* than the one it renews, only if the history knows of that lease.         *)
TestHolds ==
  \A s \in Request, l \in Lease :
    Tests(s, lease[l].period) /\ Active(l) /\ ~Renews(s, l) =>
      l \in hist.loose \cup hist.edited

Apart == OverlapOnlyByRace /\ TestHolds

(* It is enough that a lease that becomes ACTIVE or moves is in the history. *)
LEMMA ApartCarried ==
  ASSUME Shape, Apart, NEW r \in Request, WorkStep(r),
         hist.loose \subseteq hist'.loose, hist.edited \subseteq hist'.edited,
         \A l \in Lease : Active(l)' =>
           \/ Active(l) /\ lease'[l].period = lease[l].period
           \/ l \in hist'.loose \cup hist'.edited
  PROVE  Apart'
<1>1. OverlapOnlyByRace'
  BY DEF Apart, OverlapOnlyByRace, Active
<1>2. ASSUME NEW s \in Request, NEW l \in Lease, Tests(s, lease[l].period)', Active(l)',
             ~Renews(s, l)'
      PROVE  l \in hist'.loose \cup hist'.edited
  <2>1. CASE l \in hist'.loose \cup hist'.edited
    BY <2>1
  <2>2. CASE Active(l) /\ lease'[l].period = lease[l].period
    <3>1. lease[l].period \in Period
      BY <2>2, TypeFacts DEF Shape, Active, Exists, LeaseRow
    <3>2. \A p \in Period : Tests(s, p)' => Tests(s, p) /\ req'[s] = req[s]
      BY TestedBefore
    <3>4. Tests(s, lease[l].period) /\ req'[s] = req[s]
      BY <1>2, <2>2, <3>1, <3>2 DEF Tests
    <3>5. ~Renews(s, l)
      BY <1>2, <3>4 DEF Renews
    <3>. QED
      BY <2>2, <3>4, <3>5 DEF Apart, TestHolds
  <2>. QED
    BY <1>2, <2>1, <2>2
<1>. QED
  BY <1>1, <1>2 DEF Apart, TestHolds

LEMMA ApartKept ==
  ASSUME Shape, Apart, [Next]_vars
  PROVE  Apart'
<1>t. TypeOK
  BY DEF Shape
<1>1. ASSUME NEW r \in Request, StartStep(r)
      PROVE  Apart'
  <2>1. PICK q \in ReqState : Begin(r, q) /\ Begun(q)
    BY <1>1, StartStepShape
  <2>2. /\ lease' = lease /\ hist'.loose = hist.loose /\ hist'.edited = hist.edited
        /\ req'[r] = q /\ \A s \in Request \ {r} : req'[s] = req[s]
    BY <1>t, <2>1, BeginShape
  <2>3. OverlapOnlyByRace'
    BY <2>2 DEF Apart, OverlapOnlyByRace, Active
  <2>4. ASSUME NEW l \in Lease, Tests(r, lease[l].period)', Active(l)
        PROVE  Renews(r, l)'
    <3>1. \/ q.op \in {"create", "renew"} /\ q.period = lease[l].period
          \/ q.op = "approve" /\ lease[l].period = Now
      BY <2>2, <2>4 DEF Tests
    <3>2. ~(q.op = "create")
      BY <2>1, <2>4, <3>1 DEF Begun, Taken
    <3>3. ~(q.op = "approve")
      BY <2>1, <2>4, <3>1 DEF Begun, Rented
    <3>4. q.op = "renew" /\ q.lease = l
      BY <2>1, <2>4, <3>1, <3>2, <3>3 DEF Begun, Taken
    <3>. QED
      BY <2>2, <3>4 DEF Renews
  <2>5. ASSUME NEW s \in Request \ {r}, NEW l \in Lease, Tests(s, lease[l].period)', Active(l),
               ~Renews(s, l)'
        PROVE  l \in hist.loose \cup hist.edited
    BY <2>2, <2>5 DEF Apart, TestHolds, Tests, Renews
  <2>6. TestHolds'
    BY <2>2, <2>4, <2>5 DEF TestHolds, Active
  <2>. QED
    BY <2>3, <2>6 DEF Apart
<1>2. ASSUME NEW r \in Request, GrantStep(r)
      PROVE  Apart'
  <2>w. WorkStep(r)
    BY <1>2 DEF WorkStep, GrantStep
  <2>1. PICK l \in Lease, t \in Someone, p \in Period, k \in 0 .. MaxLease,
             left \in SUBSET Someone :
          /\ Granted(r, l, t, p, k, left)
          /\ Tests(r, p)
          /\ k # 0 => Renews(r, k)
          /\ k = 0 => req[r].op # "renew"
    BY <1>2, GrantEffect
  <2>2. /\ \A m \in Lease \ {l, k} : lease'[m] = lease[m]
        /\ k # 0 => lease'[k].status = "EXPIRED"
        /\ lease'[l].period = p
        /\ hist.loose \subseteq hist'.loose /\ hist'.edited = hist.edited
        /\ (\E s \in Request \ {r} : Tests(s, p)) => l \in hist'.loose
    BY <2>1 DEF Granted, Noted
  <2>3. ASSUME NEW m \in Lease \ {l}, Active(m)'
        PROVE  Active(m) /\ lease'[m].period = lease[m].period /\ m # k
    BY <2>2, <2>3 DEF Active
(* Every other ACTIVE lease of the period is known: r had looked.           *)
  <2>4. ASSUME NEW m \in Lease \ {l}, Active(m)', lease'[m].period = p
        PROVE  m \in hist'.loose \cup hist'.edited
    <3>1. Active(m) /\ lease[m].period = p /\ m # k
      BY <2>3, <2>4
    <3>2. ~Renews(r, m)
      BY <2>1, <3>1 DEF Renews
    <3>. QED
      BY <2>1, <2>2, <3>1, <3>2 DEF Apart, TestHolds
  <2>5. OverlapOnlyByRace'
    <3>. SUFFICES ASSUME NEW m \in Lease, NEW n \in Lease, m # n, Active(m)', Active(n)',
                         lease'[m].period = lease'[n].period
                  PROVE  {m, n} \cap (hist'.loose \cup hist'.edited) # {}
      BY DEF OverlapOnlyByRace
    <3>1. CASE m = l
      BY <2>2, <2>4, <3>1
    <3>2. CASE n = l
      BY <2>2, <2>4, <3>2
    <3>3. CASE m # l /\ n # l
      BY <2>2, <2>3, <3>3 DEF Apart, OverlapOnlyByRace
    <3>. QED
      BY <3>1, <3>2, <3>3
  <2>6. TestHolds'
    <3>. SUFFICES ASSUME NEW s \in Request, NEW m \in Lease, Tests(s, lease[m].period)',
                         Active(m)', ~Renews(s, m)'
                  PROVE  m \in hist'.loose \cup hist'.edited
      BY DEF TestHolds
    <3>1. CASE m = l
      <4>1. Tests(s, p)'
        BY <2>2, <3>1 DEF Tests
      <4>2. s # r /\ Tests(s, p)
        BY <2>w, <4>1, TestedBefore
      <4>. QED
        BY <2>2, <3>1, <4>2
    <3>2. CASE m # l
      <4>1. Active(m) /\ lease'[m].period = lease[m].period
        BY <2>3, <3>2
      <4>2. lease[m].period \in Period
        BY <4>1, TypeFacts DEF Shape, Active, Exists, LeaseRow
      <4>3. Tests(s, lease[m].period) /\ req'[s] = req[s]
        BY <2>w, <4>1, <4>2, TestedBefore DEF Tests
      <4>4. ~Renews(s, m)
        BY <4>3 DEF Renews
      <4>. QED
        BY <2>2, <4>1, <4>3, <4>4 DEF Apart, TestHolds
    <3>. QED
      BY <3>1, <3>2
  <2>. QED
    BY <2>5, <2>6 DEF Apart
<1>3. ASSUME NEW r \in Request, EndStep(r)
      PROVE  Apart'
  <2>1. PICK l \in Lease : Ended(r, l)
    BY <1>t, <1>3, EndEffect
  <2>2. /\ lease'[l].status \in EndStatus \cup {"deleted"}
        /\ \A m \in Lease \ {l} : lease'[m] = lease[m]
        /\ hist'.loose = hist.loose /\ hist'.edited = hist.edited
    BY <2>1 DEF Ended
  <2>3. \A m \in Lease : Active(m)' => Active(m) /\ lease'[m].period = lease[m].period
    BY <2>2 DEF Active
  <2>4. WorkStep(r)
    BY <1>3 DEF WorkStep
  <2>. QED
    BY <2>2, <2>3, <2>4, ApartCarried
<1>4. ASSUME NEW r \in Request, CommitAddTenant(r)
      PROVE  Apart'
  <2>0. PICK l \in Lease, t \in Tenant : l = req[r].lease /\ t = req[r].tenant
    BY <1>t, <1>4, AddEffect
  <2>1. /\ Rewritten(l, lease[l].status, t, lease[l].period)
        /\ hist'.loose = hist.loose /\ hist'.edited = hist.edited
    BY <1>t, <1>4, <2>0, AddEffect
  <2>2. /\ lease'[l].status = lease[l].status /\ lease'[l].period = lease[l].period
        /\ \A m \in Lease \ {l} : lease'[m] = lease[m]
    BY <2>1 DEF Rewritten
  <2>3. \A m \in Lease : Active(m)' => Active(m) /\ lease'[m].period = lease[m].period
    BY <2>2 DEF Active
  <2>4. WorkStep(r)
    BY <1>4 DEF WorkStep
  <2>. QED
    BY <2>1, <2>3, <2>4, ApartCarried
<1>5. ASSUME NEW r \in Request, EditStep(r)
      PROVE  Apart'
  <2>0. PICK l \in Lease : l = req[r].lease
    BY <1>t, <1>5, EditEffect
  <2>1. /\ hist'.loose = hist.loose /\ hist'.edited = hist.edited \cup {l}
        /\ \A m \in Lease \ {l} : lease'[m] = lease[m]
    BY <1>t, <1>5, <2>0, EditEffect DEF Rewritten
  <2>2. \A m \in Lease : Active(m)' =>
          (Active(m) /\ lease'[m].period = lease[m].period) \/ m \in hist'.edited
    BY <2>1 DEF Active
  <2>3. WorkStep(r)
    BY <1>5 DEF WorkStep
  <2>. QED
    BY <2>1, <2>2, <2>3, ApartCarried
<1>6. ASSUME NEW r \in Request, QuietStep(r)
      PROVE  Apart'
  <2>1. lease' = lease /\ hist'.loose = hist.loose /\ hist'.edited = hist.edited
    BY <1>6, QuietEffect
  <2>2. WorkStep(r)
    BY <1>6 DEF WorkStep
  <2>. QED
    BY <2>1, <2>2, ApartCarried DEF Active
<1>7. ASSUME UNCHANGED vars
      PROVE  Apart'
  BY <1>7 DEF vars, Apart, OverlapOnlyByRace, TestHolds, Tests, Renews, Active
<1>. QED
  BY <1>1, <1>2, <1>3, <1>4, <1>5, <1>6, <1>7, EveryStep DEF WorkStep, GrantStep

(* Whatever overlaps, two ACTIVE leases of one period come only from a      *)
(* write while another call that had looked for the period was open, or     *)
(* from a PATCH.                                                            *)
THEOREM OverlapNeedsARace == Spec => []OverlapOnlyByRace
<1>1. Init => Apart
  BY DEF Init, Apart, OverlapOnlyByRace, TestHolds, Active, Unborn
<1>2. Spec => [](Shape /\ Apart)
  BY <1>1, ShapeInit, ShapeKept, ApartKept, PTL DEF Spec
<1>3. Apart => OverlapOnlyByRace
  BY DEF Apart
<1>. QED
  BY <1>2, <1>3, PTL

-----------------------------------------------------------------------------
(* Renewal chains *)

(* A lease that a call is about to renew has been renewed only by calls     *)
(* that the history knows had a rival.                                      *)
RenewOnce ==
  \A r \in Request, m \in Lease :
    Exists(m) /\ lease[m].from # 0 /\ Renews(r, lease[m].from) => m \in hist.rivalled

Linear == ChainLinear /\ RenewOnce

(* It is enough that the chains and the history only grow.                  *)
LEMMA LinearCarried ==
  ASSUME Shape, Linear, NEW r \in Request, WorkStep(r),
         hist.rivalled \subseteq hist'.rivalled, hist.edited \subseteq hist'.edited,
         \A l \in Lease : Exists(l)' => /\ Exists(l)
                                        /\ lease'[l].from = lease[l].from
                                        /\ lease'[l].to = lease[l].to
                                        /\ Active(l)' => Active(l) \/ l \in hist'.edited
  PROVE  Linear'
<1>1. ASSUME NEW l \in Lease, Exists(l)', lease'[l].from # 0
      PROVE  lease'[l].from \in Lease
  <2>1. lease[l] \in LeaseRow
    BY <1>1, TypeFacts DEF Shape
  <2>. QED
    BY <1>1, <2>1 DEF LeaseRow
<1>2. ChainLinear'
  BY <1>1 DEF Linear, ChainLinear
<1>3. RenewOnce'
  <2>. SUFFICES ASSUME NEW s \in Request, NEW m \in Lease, Exists(m)', lease'[m].from # 0,
                       Renews(s, lease[m].from)'
                PROVE  m \in hist'.rivalled
    BY DEF RenewOnce
  <2>1. lease'[m].from \in Lease /\ Exists(m) /\ lease'[m].from = lease[m].from
    BY <1>1
  <2>2. \A k \in Lease : Renews(s, k)' => Renews(s, k)
    BY TestedBefore
  <2>3. Renews(s, lease[m].from)
    BY <2>1, <2>2 DEF Renews
  <2>. QED
    BY <2>1, <2>3 DEF Linear, RenewOnce
<1>. QED
  BY <1>2, <1>3 DEF Linear

LEMMA LinearKept ==
  ASSUME Shape, Linear, [Next]_vars
  PROVE  Linear'
<1>t. /\ TypeOK
      /\ \A l \in Lease : Exists(l) => lease[l] \in LeaseRow
  BY TypeFacts DEF Shape
<1>f. \A l \in Lease : Exists(l) /\ lease[l].from # 0 =>
        lease[l].from \in Lease /\ lease[lease[l].from] # Unborn
  BY <1>t DEF Shape, RefsOk, LeaseRow
<1>1. ASSUME NEW r \in Request, StartStep(r)
      PROVE  Linear'
  <2>1. PICK q \in ReqState : Begin(r, q) /\ Begun(q)
    BY <1>1, StartStepShape
  <2>2. /\ lease' = lease /\ hist'.rivalled = hist.rivalled /\ hist'.edited = hist.edited
        /\ req'[r] = q /\ \A s \in Request \ {r} : req'[s] = req[s]
    BY <1>t, <2>1, BeginShape
  <2>3. ChainLinear'
    BY <2>2 DEF Linear, ChainLinear, Exists, Active
  <2>4. ASSUME NEW m \in Lease, q.op = "renew", Exists(m), lease[m].from = q.lease
        PROVE  m \in hist.rivalled
    <3>1. Active(q.lease) /\ lease[q.lease].to = 0 /\ q.lease \in Lease
      BY <2>1, <2>4, StateOfRequest DEF Begun, Renewable
    <3>2. Exists(q.lease) /\ q.lease # 0 /\ m # 0
      BY <3>1 DEF Active, Exists
    <3>. QED
      BY <2>4, <3>1, <3>2 DEF Linear, ChainLinear
  <2>5. RenewOnce'
    BY <2>2, <2>4 DEF Linear, RenewOnce, Renews, Exists
  <2>. QED
    BY <2>3, <2>5 DEF Linear
<1>2. ASSUME NEW r \in Request, GrantStep(r)
      PROVE  Linear'
  <2>w. WorkStep(r)
    BY <1>2 DEF WorkStep, GrantStep
  <2>1. PICK l \in Lease, t \in Someone, p \in Period, k \in 0 .. MaxLease,
             left \in SUBSET Someone :
          /\ Granted(r, l, t, p, k, left)
          /\ k # 0 => Renews(r, k)
    BY <1>2, GrantEffect
  <2>2. /\ \A m \in Lease \ {l, k} : lease'[m] = lease[m]
        /\ k # 0 => /\ k \in Lease \ {l} /\ Exists(k)
                    /\ lease'[k].status = "EXPIRED" /\ lease'[k].to = l
                    /\ lease'[k].from = lease[k].from
        /\ lease[l] = Unborn /\ lease'[l].from = k
        /\ hist.rivalled \subseteq hist'.rivalled /\ hist'.edited = hist.edited
        /\ (\E s \in Request \ {r} : Renews(s, k)) => l \in hist'.rivalled
    BY <2>1 DEF Granted, Noted
  <2>5. \A m \in Lease \ {l} : Exists(m)' => Exists(m) /\ lease'[m].from = lease[m].from
    BY <2>2 DEF Exists
  <2>6. \A m \in Lease \ {l} : Exists(m)' => lease'[m].from # l
    <3>1. l # 0
      OBVIOUS
    <3>. QED
      BY <1>f, <2>2, <2>5, <3>1
  <2>7. \A m \in Lease \ {l} : Active(m)' => Active(m) /\ m # k
    BY <2>2 DEF Active
  <2>8. ASSUME NEW m \in Lease, NEW j \in Lease, Exists(m)', lease'[m].from = j, Exists(j)'
        PROVE  /\ lease'[j].to = m \/ m \in hist'.rivalled
               /\ Active(j)' => j \in hist'.edited
    <3>1. CASE m = l
      <4>1. j = k /\ j # l /\ k # 0
        BY <2>2, <2>8, <3>1
      <4>. QED
        BY <2>2, <2>7, <3>1, <4>1
    <3>2. CASE m # l /\ j = k
      <4>1. k # 0 /\ k # l /\ Exists(m) /\ lease[m].from = k
        BY <2>2, <2>5, <2>8, <3>2
      <4>2. m \in hist.rivalled
        BY <2>1, <4>1 DEF Linear, RenewOnce
      <4>. QED
        BY <2>2, <2>7, <3>2, <4>1, <4>2
    <3>3. CASE m # l /\ j # k
      <4>1. Exists(m) /\ lease[m].from = j /\ j # 0
        BY <2>5, <2>8, <3>3
      <4>2. j # l
        BY <2>6, <2>8, <3>3
      <4>3. lease'[j] = lease[j] /\ Exists(j)
        BY <2>2, <2>8, <3>3, <4>2 DEF Exists
      <4>4. (lease[j].to = m \/ m \in hist.rivalled) /\ (Active(j) => j \in hist.edited)
        BY <4>1, <4>3 DEF Linear, ChainLinear
      <4>. QED
        BY <2>2, <4>3, <4>4 DEF Active
    <3>. QED
      BY <3>1, <3>2, <3>3
  <2>s. ASSUME NEW m \in Lease, Exists(m)', lease'[m].from # 0
        PROVE  lease'[m].from \in Lease
    BY <1>f, <2>2, <2>5, <2>s
  <2>9. ChainLinear'
    BY <2>8, <2>s DEF ChainLinear
  <2>10. ASSUME NEW s \in Request, NEW m \in Lease, Exists(m)', lease'[m].from # 0,
                Renews(s, lease[m].from)'
         PROVE  m \in hist'.rivalled
    <3>. DEFINE j == lease'[m].from
    <3>1. j \in Lease
      BY <2>10, <2>s
    <3>2. \A i \in Lease : Renews(s, i)' => s # r /\ Renews(s, i)
      BY <2>w, TestedBefore
    <3>3. s # r /\ Renews(s, j)
      BY <2>10, <3>1, <3>2 DEF Renews
    <3>4. CASE m = l
      BY <2>2, <3>3, <3>4
    <3>5. CASE m # l
      BY <2>2, <2>5, <2>10, <3>3, <3>5 DEF Linear, RenewOnce
    <3>. QED
      BY <3>4, <3>5
  <2>11. RenewOnce'
    BY <2>10 DEF RenewOnce
  <2>. QED
    BY <2>9, <2>11 DEF Linear
<1>3. ASSUME NEW r \in Request, EndStep(r)
      PROVE  Linear'
  <2>1. PICK l \in Lease : Ended(r, l)
    BY <1>t, <1>3, EndEffect
  <2>2. /\ lease'[l].status \in EndStatus \cup {"deleted"}
        /\ lease'[l].status # "deleted" =>
             lease'[l].from = lease[l].from /\ lease'[l].to = lease[l].to
        /\ \A m \in Lease \ {l} : lease'[m] = lease[m]
        /\ hist'.rivalled = hist.rivalled /\ hist'.edited = hist.edited
        /\ Exists(l)
    BY <2>1 DEF Ended
  <2>3. \A m \in Lease : Exists(m)' => /\ Exists(m)
                                       /\ lease'[m].from = lease[m].from
                                       /\ lease'[m].to = lease[m].to
                                       /\ Active(m)' => Active(m)
    BY <2>2 DEF Exists, Active
  <2>4. WorkStep(r)
    BY <1>3 DEF WorkStep
  <2>. QED
    BY <2>2, <2>3, <2>4, LinearCarried
<1>4. ASSUME NEW r \in Request, CommitAddTenant(r)
      PROVE  Linear'
  <2>0. PICK l \in Lease, t \in Tenant : l = req[r].lease /\ t = req[r].tenant
    BY <1>t, <1>4, AddEffect
  <2>1. /\ Rewritten(l, lease[l].status, t, lease[l].period) /\ Exists(l)
        /\ hist'.rivalled = hist.rivalled /\ hist'.edited = hist.edited
    BY <1>t, <1>4, <2>0, AddEffect
  <2>2. \A m \in Lease : Exists(m)' => /\ Exists(m)
                                       /\ lease'[m].from = lease[m].from
                                       /\ lease'[m].to = lease[m].to
                                       /\ Active(m)' => Active(m)
    BY <2>1 DEF Rewritten, Exists, Active
  <2>3. WorkStep(r)
    BY <1>4 DEF WorkStep
  <2>. QED
    BY <2>1, <2>2, <2>3, LinearCarried
<1>5. ASSUME NEW r \in Request, EditStep(r)
      PROVE  Linear'
  <2>0. PICK l \in Lease : l = req[r].lease
    BY <1>t, <1>5, EditEffect
  <2>1. /\ hist'.rivalled = hist.rivalled /\ hist'.edited = hist.edited \cup {l}
        /\ Exists(l)
    BY <1>t, <1>5, <2>0, EditEffect
  <2>2. PICK st \in LeaseStatus, t \in Someone, p \in Period : Rewritten(l, st, t, p)
    BY <1>t, <1>5, <2>0, EditEffect
  <2>3. \A m \in Lease : Exists(m)' => /\ Exists(m)
                                       /\ lease'[m].from = lease[m].from
                                       /\ lease'[m].to = lease[m].to
                                       /\ Active(m)' => Active(m) \/ m \in hist'.edited
    BY <2>1, <2>2 DEF Rewritten, Exists, Active
  <2>4. WorkStep(r)
    BY <1>5 DEF WorkStep
  <2>. QED
    BY <2>1, <2>3, <2>4, LinearCarried
<1>6. ASSUME NEW r \in Request, QuietStep(r)
      PROVE  Linear'
  <2>1. lease' = lease /\ hist'.rivalled = hist.rivalled /\ hist'.edited = hist.edited
    BY <1>6, QuietEffect
  <2>2. WorkStep(r)
    BY <1>6 DEF WorkStep
  <2>. QED
    BY <2>1, <2>2, LinearCarried DEF Exists, Active
<1>7. ASSUME UNCHANGED vars
      PROVE  Linear'
  BY <1>7 DEF vars, Linear, ChainLinear, RenewOnce, Renews, Exists, Active
<1>. QED
  BY <1>1, <1>2, <1>3, <1>4, <1>5, <1>6, <1>7, EveryStep DEF WorkStep, GrantStep

(* A renewed lease is ended and points to its one successor, unless another *)
(* renewal of it was open when the successor was stored or the lease was    *)
(* PATCHed to ACTIVE.                                                       *)
THEOREM ChainsAreLinear == Spec => []ChainLinear
<1>1. Init => Linear
  BY DEF Init, Linear, ChainLinear, RenewOnce, Exists, Unborn
<1>2. Spec => [](Shape /\ Linear)
  BY <1>1, ShapeInit, ShapeKept, LinearKept, PTL DEF Spec
<1>3. Linear => ChainLinear
  BY DEF Linear
<1>. QED
  BY <1>2, <1>3, PTL

-----------------------------------------------------------------------------
(* Access and leases *)

(* It is enough to look at the tenants whose leases or access change.       *)
LEMMA AccessCarried ==
  ASSUME AccessFollowsLease,
         \A u \in Tenant \ hist'.unsettled :
           \/ /\ u \notin hist.unsettled
              /\ u \in access' <=> u \in access
              /\ Keeping(u)' = Keeping(u)
           \/ u \in access' <=> Keeping(u)' # {}
  PROVE  AccessFollowsLease'
BY DEF AccessFollowsLease

LEMMA AccessKept ==
  ASSUME Shape, AccessFollowsLease, [Next]_vars
  PROVE  AccessFollowsLease'
<1>t. TypeOK
  BY DEF Shape
<1>1. ASSUME NEW r \in Request, StartStep(r)
      PROVE  AccessFollowsLease'
  <2>1. lease' = lease /\ access' = access /\ hist'.unsettled = hist.unsettled
    BY <1>t, <1>1, StartStepShape, BeginShape
  <2>. QED
    BY <2>1 DEF AccessFollowsLease, Keeping, Active
<1>2. ASSUME NEW r \in Request, GrantStep(r)
      PROVE  AccessFollowsLease'
  <2>1. PICK l \in Lease, t \in Someone, p \in Period, k \in 0 .. MaxLease,
             left \in SUBSET Someone :
          /\ Granted(r, l, t, p, k, left)
          /\ \A u \in Tenant \ {t} : u \in access' <=> u \in access
          /\ t \in Tenant => t \in access' \cup left
          /\ k # 0 /\ Active(k) => lease[k].tenant \in left \cup {t}
    BY <1>2, GrantEffect
  <2>2. /\ \A m \in Lease \ {l, k} : lease'[m] = lease[m]
        /\ k # 0 => /\ k \in Lease \ {l}
                    /\ lease'[k].status = "EXPIRED" /\ lease'[k].tenant = lease[k].tenant
        /\ lease[l] = Unborn /\ lease'[l].tenant = t /\ lease'[l].status = "ACTIVE"
        /\ hist'.unsettled = (hist.unsettled \ {t}) \cup left
    BY <2>1 DEF Granted, Noted
  <2>5. ASSUME NEW u \in Tenant \ hist'.unsettled
        PROVE  \/ /\ u \notin hist.unsettled
                  /\ u \in access' <=> u \in access
                  /\ Keeping(u)' = Keeping(u)
               \/ u \in access' <=> Keeping(u)' # {}
    <3>1. CASE u = t
      <4>1. t \in access'
        BY <2>1, <2>2, <2>5, <3>1
      <4>2. l \in Keeping(t)'
        BY <2>2 DEF Keeping, Active
      <4>. QED
        BY <3>1, <4>1, <4>2
    <3>2. CASE u # t
      <4>1. u \notin left /\ u \notin hist.unsettled
        BY <2>2, <2>5, <3>2
      <4>2. k # 0 /\ Active(k) => lease[k].tenant # u
        BY <2>1, <3>2, <4>1
      <4>3. \A m \in Lease : (Active(m)' /\ lease'[m].tenant = u) <=> (Active(m) /\ lease[m].tenant = u)
        BY <2>2, <3>2, <4>2 DEF Active, Unborn
      <4>. QED
        BY <2>1, <3>2, <4>1, <4>3 DEF Keeping
    <3>. QED
      BY <3>1, <3>2
  <2>. QED
    BY <2>5, AccessCarried
<1>3. ASSUME NEW r \in Request, EndStep(r)
      PROVE  AccessFollowsLease'
  <2>0. PICK l \in Lease, t \in Someone : l = req[r].lease /\ t = req[r].tenant
    BY <1>t, <1>3, EndEffect
  <2>1. /\ Ended(r, l) /\ access' = access \ {t}
    BY <1>t, <1>3, <2>0, EndEffect
  <2>2. /\ lease'[l].status \in EndStatus \cup {"deleted"}
        /\ lease'[l].status # "deleted" => lease'[l].tenant = lease[l].tenant
        /\ \A m \in Lease \ {l} : lease'[m] = lease[m]
        /\ hist.unsettled \subseteq hist'.unsettled
        /\ Keeping(t) \ {l} # {} => t \in hist'.unsettled
        /\ Active(l) /\ lease[l].tenant # t => lease[l].tenant \in hist'.unsettled
    BY <2>0, <2>1 DEF Ended
  <2>3. \A u \in Tenant : Keeping(u)' = Keeping(u) \ {l}
    BY <2>2 DEF Keeping, Active
  <2>4. ASSUME NEW u \in Tenant \ hist'.unsettled
        PROVE  \/ /\ u \notin hist.unsettled
                  /\ u \in access' <=> u \in access
                  /\ Keeping(u)' = Keeping(u)
               \/ u \in access' <=> Keeping(u)' # {}
    <3>1. CASE u = t
      BY <2>1, <2>2, <2>3, <2>4, <3>1
    <3>2. CASE u # t /\ l \notin Keeping(u)
      BY <2>1, <2>2, <2>3, <2>4, <3>2
    <3>3. CASE u # t /\ l \in Keeping(u)
      BY <2>2, <2>4, <3>3 DEF Keeping
    <3>. QED
      BY <3>1, <3>2, <3>3
  <2>. QED
    BY <2>4, AccessCarried
<1>4. ASSUME NEW r \in Request, CommitAddTenant(r)
      PROVE  AccessFollowsLease'
  <2>0. PICK l \in Lease, t \in Tenant : l = req[r].lease /\ t = req[r].tenant
    BY <1>t, <1>4, AddEffect
  <2>1. /\ Rewritten(l, lease[l].status, t, lease[l].period)
        /\ access' = access \cup {t}
        /\ hist'.unsettled =
             (hist.unsettled \ {t}) \cup {IF Active(l) THEN lease[l].tenant ELSE t}
    BY <1>t, <1>4, <2>0, AddEffect
  <2>2. /\ lease'[l].status = lease[l].status /\ lease'[l].tenant = t
        /\ \A m \in Lease \ {l} : lease'[m] = lease[m]
    BY <2>1 DEF Rewritten
  <2>3. ASSUME NEW u \in Tenant \ hist'.unsettled
        PROVE  \/ /\ u \notin hist.unsettled
                  /\ u \in access' <=> u \in access
                  /\ Keeping(u)' = Keeping(u)
               \/ u \in access' <=> Keeping(u)' # {}
    <3>1. CASE u = t
      <4>1. Active(l)
        BY <2>1, <2>3, <3>1
      <4>2. l \in Keeping(t)'
        BY <2>2, <4>1 DEF Keeping, Active
      <4>. QED
        BY <2>1, <3>1, <4>2
    <3>2. CASE u # t
      <4>1. Active(l) => u # lease[l].tenant
        BY <2>1, <2>3
      <4>2. Keeping(u)' = Keeping(u)
        BY <2>2, <3>2, <4>1 DEF Keeping, Active
      <4>3. u \notin hist.unsettled
        BY <2>1, <2>3, <3>2
      <4>. QED
        BY <2>1, <3>2, <4>2, <4>3
    <3>. QED
      BY <3>1, <3>2
  <2>. QED
    BY <2>3, AccessCarried
<1>5. ASSUME NEW r \in Request, EditStep(r)
      PROVE  AccessFollowsLease'
  <2>0. PICK l \in Lease : l = req[r].lease
    BY <1>t, <1>5, EditEffect
  <2>1. access' = access
    BY <1>t, <1>5, <2>0, EditEffect
  <2>p. PICK st \in LeaseStatus, t \in Someone, p \in Period :
          /\ Rewritten(l, st, t, p)
          /\ hist.unsettled \subseteq hist'.unsettled
          /\ \/ st = lease[l].status /\ t = lease[l].tenant
             \/ {t, lease[l].tenant} \subseteq hist'.unsettled
    BY <1>t, <1>5, <2>0, EditEffect
  <2>2. /\ lease'[l].tenant = t /\ lease'[l].status = st
        /\ \A m \in Lease \ {l} : lease'[m] = lease[m]
    BY <2>p DEF Rewritten
  <2>3. ASSUME NEW u \in Tenant \ hist'.unsettled
        PROVE  u \notin hist.unsettled /\ Keeping(u)' = Keeping(u)
    <3>1. CASE st = lease[l].status /\ t = lease[l].tenant
      BY <2>p, <2>2, <2>3, <3>1 DEF Keeping, Active
    <3>2. CASE {t, lease[l].tenant} \subseteq hist'.unsettled
      <4>1. u # t /\ u # lease[l].tenant
        BY <2>3, <3>2
      <4>. QED
        BY <2>p, <2>2, <2>3, <4>1 DEF Keeping, Active
    <3>. QED
      BY <2>p, <3>1, <3>2
  <2>. QED
    BY <2>1, <2>3, AccessCarried
<1>6. ASSUME NEW r \in Request, QuietStep(r)
      PROVE  AccessFollowsLease'
  <2>1. lease' = lease /\ access' = access /\ hist'.unsettled = hist.unsettled
    BY <1>6, QuietEffect
  <2>. QED
    BY <2>1 DEF AccessFollowsLease, Keeping, Active
<1>7. ASSUME UNCHANGED vars
      PROVE  AccessFollowsLease'
  BY <1>7 DEF vars, AccessFollowsLease, Keeping, Active
<1>. QED
  BY <1>1, <1>2, <1>3, <1>4, <1>5, <1>6, <1>7, EveryStep DEF WorkStep, GrantStep

(* Whatever overlaps, a tenant has access exactly while a lease of theirs   *)
(* is ACTIVE, but for the writes that the history lists.                    *)
THEOREM AccessIsLeased == Spec => []AccessFollowsLease
<1>1. Init => AccessFollowsLease
  BY DEF Init, AccessFollowsLease, Keeping, Active, Unborn
<1>. QED
  BY <1>1, ShapeInit, ShapeKept, AccessKept, PTL DEF Spec

-----------------------------------------------------------------------------
(* Accounts and leases *)

(* A call about to deactivate a tenant with an ACTIVE lease is late.        *)
CountedLate ==
  \A r \in Request : req[r].op = "deactivate" /\ Keeping(req[r].tenant) # {} => r \in hist.late

(* It is enough that calls about to deactivate a tenant who gets a lease    *)
(* are noted.                                                               *)
LEMMA CountedLateCarried ==
  ASSUME TypeOK, CountedLate,
         \A r \in Request : req'[r].op = "deactivate" =>
           \/ req'[r] = req[r]
           \/ Keeping(req'[r].tenant) = {},
         \A u \in Tenant : Keeping(u)' \subseteq Keeping(u) \/
           \A r \in Request : req'[r].op = "deactivate" /\ req'[r].tenant = u => r \in hist'.late,
         \A r \in Request : req'[r].op = "deactivate" /\ r \in hist.late => r \in hist'.late,
         req' \in [Request -> ReqState]
  PROVE  CountedLate'
<1>. SUFFICES ASSUME NEW r \in Request, req'[r].op = "deactivate",
                     Keeping(req[r].tenant)' # {}
              PROVE  r \in hist'.late
  BY DEF CountedLate
<1>0. PICK u \in Tenant : u = req'[r].tenant
  BY StateOfRequest
<1>1. Keeping(u)' # {}
  BY <1>0
<1>2. CASE Keeping(u)' \subseteq Keeping(u)
  BY <1>0, <1>1, <1>2 DEF CountedLate
<1>. QED
  BY <1>0, <1>2

LEMMA LateKept ==
  ASSUME Shape, CountedLate, [Next]_vars
  PROVE  CountedLate'
<1>t. /\ TypeOK
      /\ \A r \in Request : HeldOk(req[r])
  BY DEF Shape, RefsOk
<1>q. req' \in [Request -> ReqState]
  BY ShapeKept DEF Shape, TypeOK
<1>1. ASSUME NEW r \in Request, StartStep(r)
      PROVE  CountedLate'
  <2>1. PICK q \in ReqState : Begin(r, q) /\ Begun(q)
    BY <1>1, StartStepShape
  <2>2. /\ lease' = lease /\ hist'.late = hist.late \ {r}
        /\ req'[r] = q /\ \A s \in Request \ {r} : req'[s] = req[s]
    BY <1>t, <2>1, BeginShape
  <2>3. q.op # "deactivate"
    BY <2>1 DEF Begun
  <2>. QED
    BY <1>q, <1>t, <2>2, <2>3, CountedLateCarried DEF Keeping, Active
<1>2. ASSUME NEW r \in Request, GrantStep(r)
      PROVE  CountedLate'
  <2>1. PICK l \in Lease, t \in Someone, p \in Period, k \in 0 .. MaxLease,
             left \in SUBSET Someone : Granted(r, l, t, p, k, left) /\ Finish(r)
    BY <1>2, GrantEffect
  <2>2. /\ \A m \in Lease \ {l, k} : lease'[m] = lease[m]
        /\ k # 0 => k \in Lease \ {l} /\ lease'[k].status = "EXPIRED"
        /\ lease'[l].tenant = t
        /\ hist'.late = hist.late \cup Deactivating(t) \cup Rivals(r)
    BY <2>1 DEF Granted, Noted
  <2>3. /\ req'[r] = Idle /\ \A s \in Request \ {r} : req'[s] = req[s]
    BY <1>t, <2>1, FinishShape
  <2>4. \A u \in Tenant : u # t => Keeping(u)' \subseteq Keeping(u)
    BY <2>2 DEF Keeping, Active
  <2>5. \A s \in Request : req'[s].op = "deactivate" => req'[s] = req[s]
    BY <2>3 DEF Idle
  <2>. QED
    BY <1>q, <1>t, <2>2, <2>4, <2>5, CountedLateCarried DEF Deactivating
<1>3. ASSUME NEW r \in Request, EndStep(r)
      PROVE  CountedLate'
  <2>1. PICK l \in Lease : Ended(r, l)
    BY <1>t, <1>3, EndEffect
  <2>2. /\ lease'[l].status \in EndStatus \cup {"deleted"}
        /\ \A m \in Lease \ {l} : lease'[m] = lease[m]
        /\ hist'.late = hist.late
    BY <2>1 DEF Ended
  <2>3. \A u \in Tenant : Keeping(u)' \subseteq Keeping(u)
    BY <2>2 DEF Keeping, Active
  <2>4. \A s \in Request : req'[s].op = "deactivate" => req'[s] = req[s]
    BY <1>t, <1>3, EndEffect DEF Idle
  <2>. QED
    BY <1>q, <1>t, <2>2, <2>3, <2>4, CountedLateCarried
<1>4. ASSUME NEW r \in Request, CommitAddTenant(r)
      PROVE  CountedLate'
  <2>0. PICK l \in Lease, t \in Tenant : l = req[r].lease /\ t = req[r].tenant
    BY <1>t, <1>4, AddEffect
  <2>1. /\ Rewritten(l, lease[l].status, t, lease[l].period) /\ user[t] = "none"
        /\ hist'.late = hist.late /\ Finish(r)
    BY <1>t, <1>4, <2>0, AddEffect
  <2>2. /\ lease'[l].tenant = t
        /\ \A m \in Lease \ {l} : lease'[m] = lease[m]
    BY <2>1 DEF Rewritten
  <2>3. /\ req'[r] = Idle /\ \A s \in Request \ {r} : req'[s] = req[s]
    BY <1>t, <2>1, FinishShape
  <2>4. \A u \in Tenant : u # t => Keeping(u)' \subseteq Keeping(u)
    BY <2>2 DEF Keeping, Active
  <2>5. \A s \in Request : req'[s].op = "deactivate" => req'[s] = req[s]
    BY <2>3 DEF Idle
  <2>6. \A s \in Request : ~(req[s].op = "deactivate" /\ req[s].tenant = t)
    BY <1>t, <2>1 DEF HeldOk, HasUser
  <2>7. \A u \in Tenant : Keeping(u)' \subseteq Keeping(u) \/
           \A s \in Request : req'[s].op = "deactivate" /\ req'[s].tenant = u => s \in hist'.late
    BY <2>4, <2>5, <2>6
  <2>. QED
    BY <1>q, <1>t, <2>1, <2>5, <2>7, CountedLateCarried
<1>5. ASSUME NEW r \in Request, EditStep(r)
      PROVE  CountedLate'
  <2>0. PICK l \in Lease : l = req[r].lease
    BY <1>t, <1>5, EditEffect
  <2>p. PICK st \in LeaseStatus, t \in Someone, p \in Period :
          /\ Rewritten(l, st, t, p)
          /\ hist'.late = hist.late \cup Deactivating(t)
    BY <1>t, <1>5, <2>0, EditEffect
  <2>2. /\ lease'[l].tenant = t
        /\ \A m \in Lease \ {l} : lease'[m] = lease[m]
    BY <2>p DEF Rewritten
  <2>3. /\ req'[r] = Idle /\ \A s \in Request \ {r} : req'[s] = req[s]
    BY <1>t, <1>5, EditEffect, FinishShape
  <2>4. \A u \in Tenant : u # t => Keeping(u)' \subseteq Keeping(u)
    BY <2>2 DEF Keeping, Active
  <2>5. \A s \in Request : req'[s].op = "deactivate" => req'[s] = req[s]
    BY <2>3 DEF Idle
  <2>. QED
    BY <1>q, <1>t, <2>p, <2>4, <2>5, CountedLateCarried DEF Deactivating
<1>6. ASSUME NEW r \in Request, QuietStep(r)
      PROVE  CountedLate'
  <2>1. /\ lease' = lease /\ hist.late \subseteq hist'.late
        /\ \A s \in Request \ {r} : req'[s] = req[s]
        /\ \/ req'[r] = Idle
           \/ req'[r].tenant = req[r].tenant /\ Keeping(req[r].tenant) = {}
    BY <1>6, QuietEffect
  <2>. QED
    BY <1>q, <1>t, <2>1, CountedLateCarried DEF Keeping, Active, Idle
<1>7. ASSUME UNCHANGED vars
      PROVE  CountedLate'
  BY <1>7 DEF vars, CountedLate, Keeping, Active
<1>. QED
  BY <1>1, <1>2, <1>3, <1>4, <1>5, <1>6, <1>7, EveryStep DEF WorkStep, GrantStep

LEMMA DeactivatedStep ==
  ASSUME Shape, CountedLate, Next, NEW t \in Tenant,
         user[t] # "INACTIVE", user'[t] = "INACTIVE", Keeping(t) # {}
  PROVE  \E r \in hist.late : Deactivate(r)
<1>t. TypeOK
  BY DEF Shape
<1>1. ASSUME NEW r \in Request, StartStep(r)
      PROVE  FALSE
  BY <1>t, <1>1, StartStepShape, BeginShape
<1>2. ASSUME NEW r \in Request, GrantStep(r)
      PROVE  FALSE
  <2>1. user'[t] = user[t] \/ user'[t] = "ACTIVE"
    BY <1>2, GrantEffect
  <2>. QED
    BY <2>1
<1>3. ASSUME NEW r \in Request, EndStep(r)
      PROVE  FALSE
  BY <1>t, <1>3, EndEffect
<1>4. ASSUME NEW r \in Request, CommitAddTenant(r)
      PROVE  FALSE
  <2>1. PICK u \in Tenant : user'[u] = "ACTIVE" /\ \A v \in Tenant \ {u} : user'[v] = user[v]
    BY <1>t, <1>4, AddEffect
  <2>. QED
    BY <2>1
<1>5. ASSUME NEW r \in Request, EditStep(r)
      PROVE  FALSE
  BY <1>t, <1>5, EditEffect
<1>6. ASSUME NEW r \in Request, QuietStep(r)
      PROVE  \E s \in hist.late : Deactivate(s)
  <2>1. Deactivate(r) /\ t = req[r].tenant
    BY <1>6, QuietEffect
  <2>2. r \in hist.late
    BY <2>1 DEF CountedLate, Deactivate
  <2>. QED
    BY <2>1, <2>2
<1>. QED
  BY <1>1, <1>2, <1>3, <1>4, <1>5, <1>6, EveryStep DEF WorkStep, GrantStep

(* A tenant with an ACTIVE lease is deactivated only by a call that counted *)
(* their leases before they got it.                                         *)
THEOREM LateDeactivation == Spec => DeactivatedOnlyLate
<1>1. Init => CountedLate
  BY DEF Init, CountedLate, Idle
<1>2. Shape /\ CountedLate /\ [Next]_vars =>
        [\A t \in Tenant :
           user[t] # "INACTIVE" /\ user'[t] = "INACTIVE" /\ Keeping(t) # {} =>
             \E r \in hist.late : Deactivate(r)]_vars
  BY DeactivatedStep
<1>. QED
  BY <1>1, <1>2, ShapeInit, ShapeKept, LateKept, PTL DEF Spec, DeactivatedOnlyLate

-----------------------------------------------------------------------------
(* Decisions on rent requests *)

Decided(a) == ask[a].status \in RentRequestStatus \ {"PENDING"}

Reviews(r) == CommitApprove(r) \/ \E st \in RentRequestStatus : CommitRefuse(r, st)

(* A rent request is written when it is filed and when it is reviewed.      *)
LEMMA AskEffect ==
  ASSUME Shape, NEW r \in Request, WorkStep(r), NEW a \in RentRequest, Stored(a),
         ask'[a] # ask[a]
  PROVE  Reviews(r) /\ Reviewing(r) /\ req[r].ask = a
<1>t. TypeOK
  BY DEF Shape
<1>1. ~CommitCreate(r) /\ ~CommitRenew(r)
  BY DEF CommitCreate, CommitRenew
<1>2. ~EndStep(r) /\ ~CommitAddTenant(r) /\ ~EditStep(r)
  BY DEF EndStep, CommitEnd, CommitRemove, CommitTerminate, CommitRentalTerminate,
     CommitAddTenant, EditStep, CommitEdit
<1>3. CASE CommitApprove(r)
  BY <1>3, ApproveEffect DEF Reviews, Reviewing
<1>4. CASE QuietStep(r)
  <2>1. req[r].op \in {"ask", "refuse"} /\ a = req[r].ask
    BY <1>4, QuietEffect
  <2>2. req[r].op # "ask"
    BY <1>t, <2>1 DEF Shape, RefsOk, HeldOk, Stored, Unborn
  <2>3. ~Count(r) /\ ~Deactivate(r) /\ ~CommitAsk(r) /\ ~Fail(r)
    BY <2>2 DEF Count, Deactivate, CommitAsk, Fail, rows
  <2>. QED
    BY <1>4, <2>1, <2>2, <2>3 DEF QuietStep, Reviews, Reviewing
<1>. QED
  BY <1>1, <1>2, <1>3, <1>4 DEF WorkStep

(* A review of a decided request is late: it began while it was PENDING.    *)
ReviewedLate ==
  \A s \in Request : Reviewing(s) /\ Decided(req[s].ask) => s \in hist.late

(* The calls that are late stay so, and the rivals of a review become so.   *)
LEMMA LateGrows ==
  ASSUME Shape, NEW r \in Request, WorkStep(r)
  PROVE  /\ hist.late \subseteq hist'.late
         /\ Reviews(r) => Rivals(r) \subseteq hist'.late
<1>t. TypeOK
  BY DEF Shape
<1>1. CASE GrantStep(r)
  <2>1. PICK l \in Lease, t \in Someone, p \in Period, k \in 0 .. MaxLease,
             left \in SUBSET Someone : Granted(r, l, t, p, k, left)
    BY <1>1, GrantEffect
  <2>2. hist'.late = hist.late \cup Deactivating(t) \cup Rivals(r)
    BY <2>1 DEF Granted, Noted
  <2>. QED
    BY <2>2
<1>2. CASE EndStep(r)
  <2>1. ~Reviews(r)
    BY <1>2 DEF EndStep, CommitEnd, CommitRemove, CommitTerminate, CommitRentalTerminate,
       Reviews, CommitApprove, CommitRefuse
  <2>. QED
    BY <1>t, <1>2, <2>1, EndEffect DEF Ended
<1>3. CASE CommitAddTenant(r)
  <2>1. ~Reviews(r)
    BY <1>3 DEF CommitAddTenant, Reviews, CommitApprove, CommitRefuse
  <2>. QED
    BY <1>t, <1>3, <2>1, AddEffect
<1>4. CASE EditStep(r)
  <2>1. ~Reviews(r)
    BY <1>4 DEF EditStep, CommitEdit, Reviews, CommitApprove, CommitRefuse
  <2>2. PICK t \in Someone : hist'.late = hist.late \cup Deactivating(t)
    BY <1>t, <1>4, EditEffect
  <2>. QED
    BY <2>1, <2>2
<1>5. CASE QuietStep(r)
  <2>1. /\ hist'.late \in {hist.late, hist.late \cup Rivals(r)}
        /\ (\E st \in RentRequestStatus : CommitRefuse(r, st)) =>
              hist'.late = hist.late \cup Rivals(r)
    BY <1>5, QuietEffect
  <2>2. ~CommitApprove(r)
    <3>1. lease' = lease
      BY <1>5, QuietEffect
    <3>2. CommitApprove(r) => \E l \in Lease : lease[l] = Unborn /\ lease'[l].status = "ACTIVE"
      BY ApproveEffect DEF Granted
    <3>. QED
      BY <3>1, <3>2 DEF Unborn
  <2>. QED
    BY <2>1, <2>2 DEF Reviews
<1>. QED
  BY <1>1, <1>2, <1>3, <1>4, <1>5 DEF WorkStep, GrantStep

LEMMA ReviewedLateKept ==
  ASSUME Shape, ReviewedLate, [Next]_vars
  PROVE  ReviewedLate'
<1>t. TypeOK
  BY DEF Shape
<1>1. ASSUME NEW r \in Request, StartStep(r)
      PROVE  ReviewedLate'
  <2>1. PICK q \in ReqState : Begin(r, q) /\ Begun(q)
    BY <1>1, StartStepShape
  <2>2. /\ ask' = ask /\ hist'.late = hist.late \ {r}
        /\ req'[r] = q /\ \A s \in Request \ {r} : req'[s] = req[s]
    BY <1>t, <2>1, BeginShape
  <2>3. q.op \in {"refuse", "approve"} => ask[q.ask].status = "PENDING"
    BY <2>1 DEF Begun
  <2>. QED
    BY <2>2, <2>3 DEF ReviewedLate, Reviewing, Decided
<1>2. ASSUME NEW r \in Request, WorkStep(r)
      PROVE  ReviewedLate'
  <2>. SUFFICES ASSUME NEW s \in Request, Reviewing(s)', Decided(req[s].ask)'
                PROVE  s \in hist'.late
    BY DEF ReviewedLate
  <2>1. s # r /\ Reviewing(s) /\ req'[s] = req[s]
    BY <1>2, TestedBefore
  <2>2. PICK a \in RentRequest : a = req[s].ask
    BY <1>t, <2>1, StateOfRequest DEF Reviewing, TypeOK
  <2>3. Stored(a)
    BY <2>1, <2>2 DEF Shape, RefsOk, HeldOk, Reviewing
  <2>4. CASE ask'[a] = ask[a]
    BY <1>2, <2>1, <2>2, <2>4, LateGrows DEF ReviewedLate, Decided
  <2>5. CASE ask'[a] # ask[a]
    <3>1. Reviews(r) /\ Reviewing(r) /\ req[r].ask = a
      BY <1>2, <2>3, <2>5, AskEffect
    <3>2. s \in Rivals(r)
      BY <2>1, <2>2, <3>1 DEF Rivals
    <3>. QED
      BY <1>2, <3>1, <3>2, LateGrows
  <2>. QED
    BY <2>4, <2>5
<1>3. ASSUME UNCHANGED vars
      PROVE  ReviewedLate'
  BY <1>3 DEF vars, ReviewedLate, Reviewing, Decided
<1>. QED
  BY <1>1, <1>2, <1>3, EveryStep

(* A rent request that has been decided is decided again only by a review   *)
(* that had found it PENDING: review tests PENDING, once more inside its    *)
(* transaction, but the write does not depend on the test.                  *)
THEOREM DecisionUndoneOnlyLate == Spec => DecisionStands
<1>. DEFINE A == \A a \in RentRequest :
                   ask[a].status \in RentRequestStatus \ {"PENDING"} /\ ask'[a] # ask[a] =>
                     \E r \in hist.late : Reviewing(r) /\ req[r].ask = a
<1>1. ASSUME Shape, ReviewedLate, [Next]_vars, NEW a \in RentRequest, Decided(a),
             ask'[a] # ask[a]
      PROVE  \E r \in hist.late : Reviewing(r) /\ req[r].ask = a
  <2>t. TypeOK
    BY <1>1 DEF Shape
  <2>1. ASSUME NEW r \in Request, StartStep(r)
        PROVE  ask' = ask
    BY <1>1, <2>t, <2>1, StartStepShape, BeginShape
  <2>2. PICK r \in Request : WorkStep(r)
    BY <1>1, <2>1, EveryStep DEF vars
  <2>3. Reviewing(r) /\ req[r].ask = a
    BY <1>1, <2>2, AskEffect DEF Decided, Stored
  <2>. QED
    BY <1>1, <2>3 DEF ReviewedLate
<1>2. Shape /\ ReviewedLate /\ [Next]_vars => [A]_vars
  BY <1>1 DEF Decided
<1>3. Init => ReviewedLate
  BY DEF Init, ReviewedLate, Reviewing, Idle
<1>. HIDE DEF A
<1>4. Spec => [][A]_vars
  BY <1>2, <1>3, ShapeInit, ShapeKept, ReviewedLateKept, PTL DEF Spec
<1>. QED
  BY <1>4 DEF A, DecisionStands
=============================================================================
