-------------------------------- MODULE Leasing --------------------------------
(***************************************************************************)
(* The leases of one unit: rent requests and their review, leases created   *)
(* by hand, renewal, a tenant added later, the two ways to terminate, PATCH *)
(* and DELETE, and what they do to the tenant's access to the unit and to   *)
(* the tenant's user account.                                               *)
(*                                                                          *)
(* A handler reads and tests in its Start step and writes in its Commit     *)
(* step, whether it reads before its transaction or inside it: at READ      *)
(* COMMITTED a row read in a transaction may change before it commits.  A   *)
(* lease row that is gone by then makes the transaction fail (Fail).        *)
(* Periods do not overlap each other; a lease is for one of them.           *)
(***************************************************************************)
EXTENDS Integers, FiniteSets

CONSTANTS
  Tenant,      \* people, by their email
  NoTenant,    \* tenantId is null
  Request,     \* HTTP requests being served at the same time
  RentRequest, \* RentRequest ids
  MaxLease,    \* bound: leases ever created
  MaxPeriod,   \* periods a lease can be for
  Now,         \* the period that is running; those before it are over
  MaxCall      \* bound: calls ever started

ASSUME TenantAssumption == NoTenant \notin Tenant
ASSUME BoundAssumption ==
  MaxLease \in Nat /\ MaxPeriod \in Nat /\ MaxCall \in Nat /\ Now \in 1 .. MaxPeriod

VARIABLES
  lease,     \* 1..MaxLease -> Lease row
  access,    \* tenants with an ACTIVE TENANT row in UnitAccess
  resident,  \* tenants with a ResidentUnit row
  user,      \* Tenant -> userStatus
  ask,       \* RentRequest -> RentRequest row
  req,       \* Request -> what the handler has read
  calls,     \* how many calls were started
  hist       \* history, read by no action

rows == <<lease, access, resident, user, ask>>
vars == <<lease, access, resident, user, ask, req, calls, hist>>

-----------------------------------------------------------------------------
(* Rows and handler states *)

Lease == 1 .. MaxLease
Period == 1 .. MaxPeriod
Someone == Tenant \cup {NoTenant}

LeaseStatus == {"ACTIVE", "EXPIRING_SOON", "EXPIRED", "TERMINATED"}
EndStatus == {"EXPIRED", "TERMINATED"}

(* from, to: renewedFromId and renewedToId, 0 if null. *)
LeaseRow ==
  [status : LeaseStatus, tenant : Someone, period : Period,
   from : 0 .. MaxLease, to : 0 .. MaxLease]

Unborn == [status |-> "unborn"]
Deleted == [status |-> "deleted"]

RentRequestStatus == {"PENDING", "APPROVED", "REJECTED", "CANCELLED"}
AskRow == [status : RentRequestStatus, tenant : Tenant, approved : 0 .. MaxLease]

Idle == [op |-> "idle"]

(* fresh: no user had the email; had: ACTIVE access was found. *)
ReqState ==
  {Idle}
  \cup [op : {"create"}, tenant : Tenant, period : Period, fresh : BOOLEAN]
  \cup [op : {"ask"}, ask : RentRequest, tenant : Tenant]
  \cup [op : {"refuse"}, ask : RentRequest]
  \cup [op : {"approve"}, ask : RentRequest, fresh : BOOLEAN, had : BOOLEAN]
  \cup [op : {"renew"}, lease : Lease, tenant : Someone, period : Period]
  \cup [op : {"add"}, lease : Lease, tenant : Tenant]
  \cup [op : {"patch", "remove", "terminate", "revoke"}, lease : Lease, tenant : Someone]
  \cup [op : {"count", "deactivate"}, tenant : Tenant]

Exists(l) == lease[l].status \in LeaseStatus

Active(l) == lease[l].status = "ACTIVE"

Keeping(t) == {l \in Lease : Active(l) /\ lease[l].tenant = t}

(* updateTenantUserStatus: the leases that keep a tenant's account in use. *)
CountedRunning(t) == {l \in Keeping(t) : lease[l].period = Now}  \* mutated form
Counted(t) == Keeping(t)

(* create, renewLease: another ACTIVE lease overlaps the period. *)
TakenIgnored(p, but) == FALSE                                \* mutated form
Taken(p, but) == \E l \in Lease \ but : Active(l) /\ lease[l].period = p

(* Rent requests: an ACTIVE lease that is not over. *)
Rented == \E l \in Lease : Active(l) /\ lease[l].period >= Now

RenewableAgain(l) == Active(l)                               \* mutated form
Renewable(l) == Active(l) /\ lease[l].to = 0

NewLeasePending(t, p, k) ==                                  \* mutated form
  [status |-> "PENDING", tenant |-> t, period |-> p, from |-> k, to |-> 0]
NewLease(t, p, k) ==
  [status |-> "ACTIVE", tenant |-> t, period |-> p, from |-> k, to |-> 0]

(* Who still has access once a lease of t has ended. *)
AccessAfterNothing(t) == access                              \* mutated form
AccessAfter(t) == access \ {t}

-----------------------------------------------------------------------------
Init ==
  /\ lease = [l \in Lease |-> Unborn]
  /\ access = {}
  /\ resident = {}
  /\ user \in [Tenant -> {"none", "ACTIVE"}]
  /\ ask = [a \in RentRequest |-> Unborn]
  /\ req = [r \in Request |-> Idle]
  /\ calls = 0
  /\ hist = [loose |-> {}, rivalled |-> {}, edited |-> {}, unsettled |-> {}, late |-> {}]

Begin(r, state) ==
  /\ req[r] = Idle
  /\ calls < MaxCall
  /\ calls' = calls + 1
  /\ req' = [req EXCEPT ![r] = state]
  /\ hist' = [hist EXCEPT !.late = @ \ {r}]
  /\ UNCHANGED rows

Finish(r) == req' = [req EXCEPT ![r] = Idle] /\ UNCHANGED calls

Free(l) == lease[l] = Unborn /\ \A k \in Lease : k < l => lease[k] # Unborn

(* The calls that have looked for a lease of the period, and the renewals   *)
(* of the lease k, before their commits.                                    *)
Tests(s, p) ==
  \/ req[s].op \in {"create", "renew"} /\ req[s].period = p
  \/ req[s].op = "approve" /\ p = Now
Renews(s, k) == req[s].op = "renew" /\ req[s].lease = k

(* The other reviews of the rent request that r decides. *)
Reviewing(s) == req[s].op \in {"refuse", "approve"}
Rivals(r) ==
  {s \in Request \ {r} : Reviewing(r) /\ Reviewing(s) /\ req[s].ask = req[r].ask}

(* The calls that are about to deactivate t have counted t's leases.        *)
Deactivating(t) == {s \in Request : req[s].op = "deactivate" /\ req[s].tenant = t}

(* History of a call that inserts row as the lease l, and leaves the access *)
(* of the tenants in "left" out of step with their leases.                  *)
Gains(r, l, row, left) ==
  LET others == Request \ {r}
  IN  hist' = [hist EXCEPT
        !.loose = IF \E s \in others : Tests(s, row.period) THEN @ \cup {l} ELSE @,
        !.rivalled = IF \E s \in others : Renews(s, row.from) THEN @ \cup {l} ELSE @,
        !.unsettled = (@ \ {row.tenant}) \cup left,
        !.late = @ \cup Deactivating(row.tenant) \cup Rivals(r)]

(* History of a call that ends the lease l and takes the access of t: of    *)
(* one who has another lease, or who is no longer the tenant of this one.   *)
Ends(t, l) ==
  hist' = [hist EXCEPT !.unsettled = @
    \cup (IF Keeping(t) \ {l} # {} THEN {t} ELSE {})
    \cup (IF Active(l) THEN {lease[l].tenant} \ {t} ELSE {})]

-----------------------------------------------------------------------------
(* leases: create, addTenantToLease *)

StartCreate(r, t, p) ==
  /\ ~Taken(p, {})
  /\ Begin(r, [op |-> "create", tenant |-> t, period |-> p, fresh |-> user[t] = "none"])

(* An inactive account that is reused stays inactive; a second ResidentUnit *)
(* row for the same tenant violates the unique key.                         *)
CommitCreate(r) ==
  /\ req[r].op = "create"
  /\ LET t == req[r].tenant
     IN  /\ req[r].fresh => user[t] = "none"
         /\ t \notin resident
         /\ \E l \in Lease :
              /\ Free(l)
              /\ lease' = [lease EXCEPT ![l] = NewLease(t, req[r].period, 0)]
              /\ Gains(r, l, NewLease(t, req[r].period, 0), {})
         /\ access' = access \cup {t}
         /\ resident' = resident \cup {t}
         /\ user' = [user EXCEPT ![t] = IF req[r].fresh THEN "ACTIVE" ELSE @]
  /\ Finish(r)
  /\ UNCHANGED ask

StartAddTenant(r, l, t) ==
  /\ Active(l)
  /\ user[t] = "none"
  /\ Begin(r, [op |-> "add", lease |-> l, tenant |-> t])

(* The tenant the lease had keeps the access. *)
CommitAddTenant(r) ==
  /\ req[r].op = "add"
  /\ LET l == req[r].lease  t == req[r].tenant
     IN  /\ Exists(l) /\ user[t] = "none"
         /\ lease' = [lease EXCEPT ![l].tenant = t]
         /\ access' = access \cup {t}
         /\ resident' = resident \cup {t}
         /\ user' = [user EXCEPT ![t] = "ACTIVE"]
         /\ hist' = [hist EXCEPT !.unsettled =
              (@ \ {t}) \cup {IF Active(l) THEN lease[l].tenant ELSE t}]
  /\ Finish(r)
  /\ UNCHANGED ask

-----------------------------------------------------------------------------
(* leases: update, remove, terminateLease; rental: terminateLease *)

Held(r, l, op) == Begin(r, [op |-> op, lease |-> l, tenant |-> lease[l].tenant])

StartUpdate(r, l) == Exists(l) /\ Held(r, l, "patch")
StartRemove(r, l) == Exists(l) /\ Held(r, l, "remove")
StartTerminate(r, l) == Active(l) /\ Held(r, l, "terminate")
StartRentalTerminate(r, l) ==
  Exists(l) /\ lease[l].status # "TERMINATED" /\ Held(r, l, "revoke")

(* The cascade that follows a commit, if the lease had a tenant. *)
Cascade(r) ==
  /\ req' = [req EXCEPT ![r] = IF req[r].tenant = NoTenant THEN Idle
                               ELSE [op |-> "count", tenant |-> req[r].tenant]]
  /\ UNCHANGED calls

Leaves(r) ==
  /\ access' = AccessAfter(req[r].tenant)
  /\ resident' = resident \ {req[r].tenant}

(* PATCH with a status that ends the lease.  One that changes the tenant or  *)
(* the dates too is this one followed by another PATCH.                     *)
CommitEnd(r, st) ==
  /\ req[r].op = "patch" /\ st \in EndStatus
  /\ LET l == req[r].lease
     IN  /\ Exists(l)
         /\ lease' = [lease EXCEPT ![l].status = st]
         /\ Ends(req[r].tenant, l)
  /\ Leaves(r)
  /\ Cascade(r)
  /\ UNCHANGED <<user, ask>>

(* PATCH of the tenant, the dates or a status that does not end the lease:  *)
(* no test, and no other row follows.                                       *)
CommitEdit(r, st, t, p) ==
  /\ req[r].op = "patch"
  /\ LET l == req[r].lease
     IN  /\ Exists(l)
         /\ st \in (LeaseStatus \ EndStatus) \cup {lease[l].status}
         /\ t \in Tenant => user[t] # "none"
         /\ lease' = [lease EXCEPT ![l].status = st, ![l].tenant = t, ![l].period = p]
         /\ hist' = [hist EXCEPT
              !.edited = @ \cup {l},
              !.unsettled = IF st = lease[l].status /\ t = lease[l].tenant THEN @
                            ELSE @ \cup {t, lease[l].tenant},
              !.late = @ \cup Deactivating(t)]
  /\ Finish(r)
  /\ UNCHANGED <<access, resident, user, ask>>

CommitRemove(r) ==
  /\ req[r].op = "remove"
  /\ LET l == req[r].lease
     IN  /\ Exists(l)
         /\ lease' = [lease EXCEPT ![l] = Deleted]
         /\ Ends(req[r].tenant, l)
  /\ Leaves(r)
  /\ Cascade(r)
  /\ UNCHANGED <<user, ask>>

CommitTerminate(r) ==
  /\ req[r].op = "terminate"
  /\ LET l == req[r].lease
     IN  /\ Exists(l)
         /\ lease' = [lease EXCEPT ![l].status = "TERMINATED"]
         /\ Ends(req[r].tenant, l)
  /\ Leaves(r)
  /\ Cascade(r)
  /\ UNCHANGED <<user, ask>>

(* No cascade, and the ResidentUnit row stays. *)
CommitRentalTerminate(r) ==
  /\ req[r].op = "revoke"
  /\ LET l == req[r].lease
     IN  /\ Exists(l)
         /\ lease' = [lease EXCEPT ![l].status = "TERMINATED"]
         /\ Ends(req[r].tenant, l)
  /\ access' = AccessAfter(req[r].tenant)
  /\ Finish(r)
  /\ UNCHANGED <<resident, user, ask>>

(* updateTenantUserStatus.  A tenant who owns a unit is left alone: Fail. *)
Count(r) ==
  /\ req[r].op = "count"
  /\ req' = [req EXCEPT ![r] =
       IF Counted(req[r].tenant) = {} /\ user[req[r].tenant] # "INACTIVE"
       THEN [@ EXCEPT !.op = "deactivate"] ELSE Idle]
  /\ UNCHANGED <<rows, calls, hist>>

Deactivate(r) ==
  /\ req[r].op = "deactivate"
  /\ user' = [user EXCEPT ![req[r].tenant] = "INACTIVE"]
  /\ Finish(r)
  /\ UNCHANGED <<lease, access, resident, ask, hist>>

-----------------------------------------------------------------------------
(* rental: renewLease *)

StartRenew(r, l, p) ==
  /\ Renewable(l)
  /\ ~Taken(p, {l})
  /\ Begin(r, [op |-> "renew", lease |-> l, tenant |-> lease[l].tenant, period |-> p])

CommitRenew(r) ==
  /\ req[r].op = "renew"
  /\ LET k == req[r].lease  t == req[r].tenant
     IN  /\ Exists(k)
         /\ \E l \in Lease :
              /\ Free(l)
              /\ lease' = [lease EXCEPT ![l] = NewLease(t, req[r].period, k),
                                        ![k].status = "EXPIRED", ![k].to = l]
              /\ Gains(r, l, NewLease(t, req[r].period, k),
                       IF Active(k) THEN {lease[k].tenant} \ {t} ELSE {})
         /\ access' = access \cup ({t} \ {NoTenant})
  /\ Finish(r)
  /\ UNCHANGED <<resident, user, ask>>

-----------------------------------------------------------------------------
(* rent-requests: create, review *)

StartAsk(r, a, t) ==
  /\ ask[a] = Unborn /\ \A s \in Request : req[s].op = "ask" => req[s].ask # a
  /\ ~Rented
  /\ Begin(r, [op |-> "ask", ask |-> a, tenant |-> t])

CommitAsk(r) ==
  /\ req[r].op = "ask"
  /\ ask' = [ask EXCEPT ![req[r].ask] =
       [status |-> "PENDING", tenant |-> req[r].tenant, approved |-> 0]]
  /\ Finish(r)
  /\ UNCHANGED <<lease, access, resident, user, hist>>

StartRefuseDecided(r, a) ==                                  \* mutated form
  ask[a].status \in RentRequestStatus /\ Begin(r, [op |-> "refuse", ask |-> a])
StartRefuse(r, a) ==
  ask[a].status = "PENDING" /\ Begin(r, [op |-> "refuse", ask |-> a])

CommitRefuse(r, st) ==
  /\ req[r].op = "refuse" /\ st \in {"REJECTED", "CANCELLED"}
  /\ ask' = [ask EXCEPT ![req[r].ask].status = st]
  /\ hist' = [hist EXCEPT !.late = @ \cup Rivals(r)]
  /\ Finish(r)
  /\ UNCHANGED <<lease, access, resident, user>>

(* PENDING is tested before the transaction and again inside: as no request *)
(* becomes PENDING again, the second test decides.                          *)
StartApprove(r, a) ==
  /\ ask[a].status = "PENDING"
  /\ ~Rented
  /\ Begin(r, [op |-> "approve", ask |-> a, fresh |-> user[ask[a].tenant] = "none",
               had |-> ask[a].tenant \in access])

CommitApprove(r) ==
  /\ req[r].op = "approve"
  /\ LET a == req[r].ask  t == ask[a].tenant
     IN  /\ req[r].fresh => user[t] = "none"
         /\ \E l \in Lease :
              /\ Free(l)
              /\ lease' = [lease EXCEPT ![l] = NewLease(t, Now, 0)]
              /\ ask' = [ask EXCEPT ![a].status = "APPROVED", ![a].approved = l]
              /\ Gains(r, l, NewLease(t, Now, 0),
                       IF req[r].had THEN {t} \ access ELSE {})
         /\ access' = IF req[r].had THEN access ELSE access \cup {t}
         /\ user' = [user EXCEPT ![t] = IF req[r].fresh THEN "ACTIVE" ELSE @]
  /\ Finish(r)
  /\ UNCHANGED resident

-----------------------------------------------------------------------------
(* The request ends between two steps: a refusal, an error, a restart. *)
Fail(r) ==
  /\ req[r] # Idle
  /\ Finish(r)
  /\ UNCHANGED <<rows, hist>>

Call(r) ==
  \/ \E t \in Tenant, p \in Period : StartCreate(r, t, p)
  \/ CommitCreate(r)
  \/ \E l \in Lease, t \in Tenant : StartAddTenant(r, l, t)
  \/ CommitAddTenant(r)
  \/ \E l \in Lease : \/ StartUpdate(r, l) \/ StartRemove(r, l)
                      \/ StartTerminate(r, l) \/ StartRentalTerminate(r, l)
  \/ \E st \in LeaseStatus : CommitEnd(r, st)
  \/ \E st \in LeaseStatus, t \in Someone, p \in Period : CommitEdit(r, st, t, p)
  \/ CommitRemove(r) \/ CommitTerminate(r) \/ CommitRentalTerminate(r)
  \/ Count(r) \/ Deactivate(r)
  \/ \E l \in Lease, p \in Period : StartRenew(r, l, p)
  \/ CommitRenew(r)
  \/ \E a \in RentRequest, t \in Tenant : StartAsk(r, a, t)
  \/ CommitAsk(r)
  \/ \E a \in RentRequest : StartRefuse(r, a) \/ StartApprove(r, a)
  \/ \E st \in RentRequestStatus : CommitRefuse(r, st)
  \/ CommitApprove(r)
  \/ Fail(r)

Next == \E r \in Request : Call(r)

Spec == Init /\ [][Next]_vars

-----------------------------------------------------------------------------
(* Properties *)

(* Every variable stays in its type. *)
TypeOK ==
  /\ lease \in [Lease -> LeaseRow \cup {Unborn, Deleted}]
  /\ access \subseteq Tenant
  /\ resident \subseteq Tenant
  /\ user \in [Tenant -> {"none", "ACTIVE", "INACTIVE"}]
  /\ ask \in [RentRequest -> AskRow \cup {Unborn}]
  /\ req \in [Request -> ReqState]
  /\ calls \in 0 .. MaxCall
  /\ hist \in [loose : SUBSET Lease, rivalled : SUBSET Lease, edited : SUBSET Lease,
               unsettled : SUBSET Someone, late : SUBSET Request]

(* Two ACTIVE leases of the unit are for the same period only if one of     *)
(* them was stored while another call that had already looked for leases of *)
(* that period was open, or was PATCHed.                                    *)
OverlapOnlyByRace ==
  \A l, m \in Lease :
    l # m /\ Active(l) /\ Active(m) /\ lease[l].period = lease[m].period =>
      {l, m} \cap (hist.loose \cup hist.edited) # {}

(* Renewals form chains, whatever overlaps: a lease that was renewed is     *)
(* ended, unless a PATCH made it ACTIVE again, and it points to its         *)
(* successor, unless another renewal of the same lease was open when the    *)
(* successor was stored.                                                    *)
ChainLinear ==
  \A l \in Lease : Exists(l) /\ lease[l].from # 0 =>
    LET k == lease[l].from
    IN  Exists(k) => /\ lease[k].to = l \/ l \in hist.rivalled
                     /\ Active(k) => k \in hist.edited

(* A tenant has access to the unit exactly while a lease of theirs is       *)
(* ACTIVE, whatever overlaps, but for a tenant who has not got a lease      *)
(* since one of the writes that part the two: the end of a lease of one who *)
(* has another; a lease that is ended, renewed or given another tenant when *)
(* its tenant is not the one the call had read; a PATCH of the tenant or    *)
(* the status; addTenantToLease to a lease that had ended; an approval that *)
(* had seen access that was then taken.                                     *)
AccessFollowsLease ==
  \A t \in Tenant \ hist.unsettled : t \in access <=> Keeping(t) # {}

(* A tenant with an ACTIVE lease is deactivated only by a call that counted *)
(* their leases before they got it.                                         *)
DeactivatedOnlyLate ==
  [][\A t \in Tenant :
       user[t] # "INACTIVE" /\ user'[t] = "INACTIVE" /\ Keeping(t) # {} =>
         \E r \in hist.late : Deactivate(r)]_vars

(* A rent request that was decided is decided again only by a review that   *)
(* had found it PENDING before: review tests it twice, but its write does   *)
(* not depend on the test.                                                  *)
DecisionStands ==
  [][\A a \in RentRequest :
       ask[a].status \in RentRequestStatus \ {"PENDING"} /\ ask'[a] # ask[a] =>
         \E r \in hist.late : Reviewing(r) /\ req[r].ask = a]_vars
===============================================================================
