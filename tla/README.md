# Verification of the community dashboard backend

TLA+ models, TLC configurations and TLAPS proofs for the backend in `src/src/`
(NestJS, Prisma, PostgreSQL). They are about what the tests of the repository
hardly reach: handlers that read rows, test them, and write later, and other
handlers that come in between.

## 1. The system

`src/src/modules/` holds one directory per component. Each has controllers, a
service with the logic, and its tables in `src/prisma/schema.prisma`. State
lives in PostgreSQL; nothing but a notification duplicate cache is kept in
memory. Components meet in three ways: a service calls another inside its own
transaction (`generateInvoiceTx`), a service writes another's table
(`markAsPaid` sets bookings, violations, service requests, complaints and
incidents), and domain events (`src/src/events/`) that listeners turn into
notifications.

| component | state it keeps | operations that change it | what makes it correct |
|---|---|---|---|
| bookings | Booking rows | create, approve, reject, cancel | no slot twice; a cancelled booking owes nothing; approval means paid or free; a cancellation is final |
| invoices | Invoice, UnitFee, InvoiceCategory | create, generate, pay, cancel, delete, mark overdue, monthly utility run | issued once, settled or voided and never both; a fee invoiced once |
| violations | Violation, ViolationActionRequest, comments | issue, change status, cancel, settle, submit and review appeals and fixes | an annulled fine is not collected; a decision stands; what is paid is resolved |
| notifications | Notification, NotificationLog, device tokens, duplicate cache | send, schedule, tick, deliver, resend, cancel, mark read | delivered once, not after cancellation, never forgotten; totals agree with logs |
| facilities | Facility, slot configurations | create, update, toggle | bookings follow the policy in force when they are approved |
| access-control, gates | AccessQRCode, AccessGrant, gate log; the codes HikCentral issued | generate, approve, reject, scan, check in and out, revoke, expire, overdue cron | a single-use permit is used once; an ended permit stays ended; a visitor inside is reported until he leaves |
| auth | User counters, RefreshToken, one-time codes, reset tokens | sign in, challenge, refresh, sign out, reset | a lock holds; one session per account; a new password ends the old sessions |
| leases, rental, rent-requests | Lease, RentRequest, UnitAccess, ResidentUnit, userStatus | create, renew, change, terminate, delete, review | active leases of a unit do not overlap; access follows the lease; nobody with a lease is deactivated |
| pending-registrations | PendingRegistration | approve, reject, expire | approved at most once (an atomic `updateMany` is the lock) |
| service-request, service, complaints, incidents | request rows, `revenueTotal`, SLA marks | create, assign, change status, SLA scan | revenue counts paid invoices once; what is cancelled stays cancelled |
| ordering | Order | create, advance, cancel | the status moves one way |
| approvals, household, delegates, permits, referrals | review queues | submit, approve, reject | one decision per request |
| users, owners, units, communities, workers, compound-staff, commercial, resident-vehicles | registers | administration | references stay valid |
| reports, dashboard, survey, marketing, news, banners, discover, help-center, hospitality, clubhouse, fire-evacuation, service-field, system-settings, file | content, queries | mostly one row per request | little to check |

What is hard: every handler is an async function on one event loop (several
with replicas), the database runs at its default READ COMMITTED level (no
`isolationLevel`, no row lock, no version column anywhere), and each `await`
outside a `$transaction` is a point where any other handler may run. Crons run
without an overlap guard. Calls can die between two awaits. `PROJECT.json`
lists the hazards at their lines.

## 2. What the models have in common

*Steps.* A handler reads and tests in one step (`Start...`), and writes in a
later one (`Commit...`). What it read is kept in `req[r]` (or `worker[w]`), so
that a write is decided on what was read and lands on what is there. A request
that is refused leaves no trace and has no action. `Fail` ends a request
between two of its steps.

*A transaction is one step.* The callbacks modelled here read nothing the
model keeps (the next invoice number is left out): they update a row by id,
then others. PostgreSQL holds the row lock of the first
update to the end, and re-evaluates the `where` of an `updateMany` that had to
wait. So two callbacks that share rows take effect one after the other, or
deadlock because they lock in opposite orders (payment: invoice, then booking
or violation; cancellation: the other way round), and then one is aborted:
`Fail`. `createInvoice` and the creations insert rows nobody else knows.

Three components need more than that. `access-control.service.ts` and
`auth.service.ts` use no transaction where it matters: in `GateAccess` and
`AuthSessions` every `await` that writes, or that reads what another call may
write, is a step, and a call may break off, or the process restart, between
two of them. The transactions of leases and the monthly utility run read
inside the callback; at READ COMMITTED what they read may change before they
commit, so `Leasing` and `ServiceBilling` give these reads a step of their own
too.

*An include is one read.* Prisma may fetch a relation in a second query. The
row and its relation are read together here; the result can be as old as the
request in either case.

*Rows* are functions from ids to records with the columns the guards test.
`InvoiceRows` has what bookings and violations share. Ids are never reused.
Timestamps, texts, amounts and audit rows are left out unless a guard reads
them. Of the price of a booking only one thing decides anything, whether it is
above zero, and a policy says so for each slot (`Charges`): the floating-point
arithmetic of `calculateTotalAmount` is not modelled.

*History.* `hist` holds what the tables forget and a property needs: who was
paid for, who was revived, and above all the rows and calls that one particular
overlap has touched. No guard reads it, except the counters that a bound of a
run caps.

Operators marked "mutated form" are plausible mistakes in the code they stand
beside. The specification does not use them; each property is known to fail
when the definition below is replaced by one of them (`mutants` in
`PROJECT.json`).

## 3. The modules

**InvoiceRows** - the Invoice table: statuses, the guards of `markAsPaid` and
`cancelInvoice`, inserts and status writes; `Seen` is a row as InvoiceLedger
knows it.

**InvoiceLedger** - the abstract specification: per invoice, absent, open, then
settled or void but never both, then gone. The messages "Invoice is already
paid", "Paid invoices cannot be cancelled" and "Cancelled invoices cannot be
paid" promise it. The code tests for them before it writes, so the
specification has one more state, overrun: an invoice that was settled or
voided, and then written by a call that had read it before. Booking fees
implement it under every overlap (`LedgerView` sends the invoices of
`hist.overrun` there; checked by TLC and proved). Fines and the invoices of
service requests and fees are proved to implement it without that state, as long
as no payment meets a voiding.

**BookingBilling** - `bookings.service.ts`, the invoice handlers bookings are
exposed to, and facility updates. Variables: `facility` (the row the two
guards read), `booking`, `invoice`, `req`, `hist` (bookings that were paid for,
approved without prepayment, revived, or stored beside another creation past
its look; invoices a late call has overrun).

| code | actions |
|---|---|
| `createBooking` | `StartCreate`, `CheckSlot`, `InsertBooking` |
| `approveBooking` | `StartApprove`, `CommitApprove` |
| `rejectBooking` | `StartReject`, `CommitReject` |
| `cancelBooking` | `StartCancel`, `CommitCancel` |
| invoices `markAsPaid`, `cancelInvoice`, `remove` | `StartPay`/`CommitPay`, `StartVoid`/`CommitVoid`, `StartRemove`/`CommitRemove` |
| `bulkMarkOverdue`, `createInvoice` | `BulkMarkOverdue`, `CreateInvoice` |
| `updateFacility`, `toggleFacility` | `UpdateFacility` |

**ViolationBilling** - `violations.service.ts` and the invoice handlers on
fines. Variables: `violation`, `fine`, `action` (the requests of residents),
`req`, `hist`. `submitViolationAction` is four steps: read, look for a
duplicate, insert, note the appeal. `reviewAppeal` and `reviewFixSubmission`
share `StartReview`/`CommitReview` and differ in `Reviewed`. `hist` names the
violations that were annulled, those whose appeal was reviewed before its
submission had noted it, and those with a submission that died before that.
`updateViolation` changes columns the model does not have.

**NotificationDispatch** - `notifications.service.ts`, its scheduler and its
delivery listener. Variables: `note`, `log`, `worker` (calls in flight),
`event` (emitted, not yet handled), `hist` (deliveries; notifications that were
cancelled, dropped by a call that died, or totalled from a stale count; whether
calls have overlapped; failures and resends so far). A worker runs a tick, an immediate
send, the listener's delivery, a resend or a cancellation. The provider
(e-mail, SMS, push) either takes a message or fails. Two failures of the
database are different: a call that dies (`Fail`), and a record of a successful
send that throws inside the loop's `try` and is caught as if the provider had
failed (`RecordThrows`).

**GateAccess** - `access-control.service.ts`, with `generateWorkerQr` of the
workers service. Variables: `permit` (AccessQRCode rows), `grant` (AccessGrant
rows), `codes` (how many codes HikCentral has issued for a permit; HikCentral
is outside the repository and only its answer is modelled), `req`, `scan` (the
runs of the overdue cron, which may overlap: nothing in the code stops a run
from starting while another is at work), `hist` (permits stored unseen by
another creation or by a path that does not look, those a call about which
broke off, those taken out of their end). A creation that fails removes its
grant in a step of its own, and that delete may fail too, since the code ends
it with `.catch(() => undefined)`: the id is then `Orphaned`, and `Cut` if a
restart came between. The AccessProfile is left out. A write that reports an
error is taken not to have happened.

| code | actions |
|---|---|
| `generateQrCode` | `StartGenerate`, `CreateGrant`, `CreateCode`, `InsertPermit`; on an error `GrantRefused`, or `GenerateFails` and then `TakeBackGrant` or `TakeBackFails` |
| `generateWorkerQr` | `StartGenerateWorker`, then as above |
| `approveWorkerQrCode` | `StartApprove`, `IssueCode`, `Activate` |
| `rejectWorkerQrCode`, `revokeQrCode` | `StartReject`/`CommitReject`, `StartRevoke`/`CommitRevoke` |
| `markQrCodeUsed`, `checkInQr`, `checkOutQr` | `StartMark`/`CommitMark`, `StartCheckIn`/`CommitCheckIn`, `StartCheckOut`/`CommitCheckOut` |
| the `updateMany` in `listQrCodes` | `ListQrCodes` |
| `processOverdueExits` | `StartScan`, `NotifyOverdue`, `RearmOverdue`, `ScanFails` |
| time, errors, the process | `TimerElapses`, `ValidityEnds`, `HandlerFails`, `Restart` |

**AuthSessions** - `auth.service.ts`, one account used from several devices.
Variables: `account` (counter, lock, `sessionVersion`, password), `token`
(RefreshToken rows in the order of creation), `code` and `reset` (one-time
codes and reset tokens still usable), `device` (what a client keeps), `req`,
`calls`, `hist` (tokens that crossed with another call or that a reset
overlapped; devices whose call holds an old version or an old password, or had
tested the lock before it was set).

| code | actions |
|---|---|
| `login` | `StartLogin`, `StartWrongLogin`/`CommitWrong`, then one of `ChallengeLogin`, `ChallengeTakeover`, `TakeOver`, `LoginAlone` |
| the challenge | `InvalidateCodes`, `SendCode` |
| `verifyLoginTwoFactor`, `verifySessionTakeover` | `StartVerify`, `SpendCode` |
| `revokeSessionsAndBumpVersion` | `RevokeSessions`, `BumpVersion` |
| `generateTokens`, `markSuccessfulLogin`, the reply | `IssueToken`, `MarkSuccess`, `Reply` |
| `refresh` | `StartRefresh`, `Rotate`, `Reread`, `Refuse` |
| `logout` | `StartLogout`, `CommitLogout` |
| `forgotPassword` | `StartForgot`, `VoidResets`, `CreateReset` |
| `resetPassword` | `StartReset`, `BurnReset`, `SetPassword`, `EndAll` |
| errors and time | `Fail`, `LockExpires`, `TokenExpires`, `CodeExpires`, `ResetExpires` |

**Leasing** - `leases.service.ts`, `rental.service.ts` and
`rent-requests.service.ts`, one unit. Periods stand for date ranges: two of
them overlap exactly if they are equal, and `Now` is the one that is running.
Variables: `lease`, `access` (UnitAccess), `resident` (ResidentUnit), `user`
(userStatus), `ask` (RentRequest rows), `req`, `calls`, `hist` (leases stored
beside a call that had already looked, or beside another renewal, or PATCHed;
tenants whose access a listed write has parted from their leases; calls whose
reading has gone stale).

| code | actions |
|---|---|
| leases `create`, `addTenantToLease` | `StartCreate`/`CommitCreate`, `StartAddTenant`/`CommitAddTenant` |
| leases `update` | `StartUpdate`, then `CommitEnd` (a status that ends the lease) or `CommitEdit` |
| leases `remove` | `StartRemove`/`CommitRemove` |
| leases `terminateLease` | `StartTerminate`/`CommitTerminate` |
| rental `terminateLease` | `StartRentalTerminate`/`CommitRentalTerminate` |
| `updateTenantUserStatus`, after the transaction | `Count`, `Deactivate` |
| leases `renewLease` | `StartRenew`/`CommitRenew` |
| rent-requests `create` | `StartAsk`/`CommitAsk` |
| rent-requests review | `StartRefuse`/`CommitRefuse`, `StartApprove`/`CommitApprove` |
| an error, a rollback | `Fail` |

**ServiceBilling** - `service-request.service.ts` and the invoice handlers on
service requests and on utility fees. Variables: `ticket` (ServiceRequest
rows), `revenue` (what each invoice's payments have added to the service's
`revenueTotal`), `fee` (where a UnitFee is: unborn, open, deleted, or the
invoice it is linked to), `invoice`, `req`, `hist` (calls that hold a fee
another call has put on an invoice since).

In the code as it stands `CommitBill` can hardly succeed:
`invoices.service.ts:943` and `:959` pass `ResidentUnit.residentId`, a Resident
id, as `Invoice.residentId`, whose foreign key is `User.id`
(`src/prisma/schema.prisma:2263`), so the insert is refused (or, without a resident, the group is
skipped at `:953`). The model takes the two ids as one and has `Fail` for the refusal: it
allows more than the code does, and its invariants hold of the code too.

| code | actions |
|---|---|
| creation, `slaHours` | `CreateTicket`, `DeadlinePasses` |
| assignment, status change, cancellation | `StartAssign`/`CommitAssign`, `StartStatus` or `StartCancel`/`CommitStatus` |
| `checkSlaBreaches` | `StartScan`/`CommitScan` |
| `createInvoiceForRequest` | `StartInvoice`/`CommitInvoice` |
| invoices `markAsPaid`, `cancelInvoice`, `remove`, `bulkMarkOverdue` | `StartPay`/`CommitPay`, `StartVoid`/`CommitVoid`, `StartRemove`/`CommitRemove`, `BulkMarkOverdue` |
| `createUnitFee`, `removeUnitFee` | `CreateFee`, `StartRemoveFee`/`CommitRemoveFee` |
| `generateMonthlyUtilityInvoices`, `createGeneratedInvoiceInTx` | `StartRun`, `CheckFees`, `CommitBill` |
| an error | `Fail` |

**MC...** modules hold the slots, policies, constraints and symmetry that TLC
needs. **..._proofs** modules hold the theorems of section 5.

## 4. The runs

| run | instance | what it shows |
|---|---|---|
| `bookings_race` | 2 requests, 1 booking, 2 invoices, 2 policies | `CancelledOwesNothing`, `ApprovedIsPaidOrWaived`, `FeeBound`, `CancellationSettles` |
| `bookings_slots` | 2 requests, 2 bookings, 2 overlapping slots of which one costs something, 1 invoice | `OverlapExplained`: the only two ways to a double booking; `KeepsLedger`: the invoice life cycle, but for what a late call overruns (a refinement) |
| `double_booking` | 1 request, 2 bookings, 2 overlapping slots, 2 invoices | expected violation: reject an approved booking, book its slot, pay the fee of the rejected one |
| `refund_flag` | as `bookings_race` | expected violation: a payment between the read and the write of `cancelBooking` |
| `violations_race` | 2 requests, 1 violation, 2 action requests | `AnnulledFineNotPending`, `PendingBound`, `AppealFlagHonest`, `OutForGood`, `DecisionStands` |
| `paid_violation_cancelled` | 1 request | expected violation: an appeal approved after the fine was paid cancels a paid violation |
| `notifications` | 1 notification, 2 logs, 2 calls, 1 database failure, 1 resend | `NoDuplicateDelivery` while calls do not overlap; `AggregateHonest` and `CancelledStaysUnsent` however they do; what is due is taken (`DueIsTaken`), every log is settled (`LogsSettle`) |
| `gates` | 1 visitor permit, 2 requests, 2 runs of the cron, errors and restarts | `UseBound`, `EndedUndoneOnlyLate`, and the liveness property `VisitorChased` |
| `permits_pair` | 2 worker permits that are never scanned, 2 requests, errors and restarts | `SingleActive` and `PermitBacked` |
| `sessions` | 2 devices, 4 calls, 3 refresh tokens, lock after 2 failures, one code and one reset token at a time | `OneUsableSession`, `RefusedOnlyWhenLost`, `ResetEndsSessions`, `LockLiftedOnlyLate` |
| `leasing` | 2 tenants, 3 leases, 2 periods, 1 rent request, 2 requests, 5 calls | `OverlapOnlyByRace`, `ChainLinear`, `AccessFollowsLease`, `DeactivatedOnlyLate`, `DecisionStands` |
| `service_billing` | 1 service request, 2 fees, 2 invoices, 2 requests | `RevenueHonest`, `RechargedOnlyLate`, `CancelledStays` |

Each passing run also checks the `TypeOK` of its module, once per module. All
these properties but one are about every interleaving. The code has no locks, so
the races in the hazards list do happen, and a property cannot deny them; it
says instead how far they go. There are three forms. A bound (`FeeBound`,
`PendingBound`, `UseBound`, `RevenueHonest`) counts what has gone wrong together
with the calls that may still add to it. A property that names a history set
(`OverlapExplained`, `SingleActive`, `OneUsableSession`, `OverlapOnlyByRace`,
`ChainLinear`, `AccessFollowsLease`, ...) excepts exactly the rows that one
particular overlap has touched, and holds of all others, also while that overlap
goes on. An "...OnlyLate" property (and `OutForGood`, `CancellationSettles`,
`CancelledStays`, the two called `DecisionStands`) speaks of a step: what was
ended, decided or settled is undone only by a call that had read it before.
The exception is `NoDuplicateDelivery`, which holds of the part of a behaviour
before two calls overlap: two ticks that meet, or a resend beside a delivery,
each send the message once more (hazards in `PROJECT.json`).

*Why the bounds are enough.* Every hazard in the modelled handlers is a race of
two; a third request adds nothing that a failed and restarted second one does
not. A booking can be approved, rejected, paid and cancelled repeatedly within
the run: requests are reused without limit, and what is bounded is only the
rows. Two invoices are two fees of racing approvals, or a fee and an invoice
raised by hand; that `FeeBound` holds with more is proved. Two bookings and two
overlapping slots are the smallest double booking. Two action requests are a
duplicate, or an appeal and a fix. Two logs are the log of a dispatch and that
of a second one, which overlaps it or comes after it has died. Only a third
dispatch, beside the second after the first has died, finds no log and stops
there; safety with more logs is proved. A tick over several notifications goes on with the next (`Rest`); the
run has one, and the theorems hold for any number. Symmetry is used where
identities do not matter, and not in the runs with liveness properties.

In `gates` and `permits_pair` scans and codes are counted to 3 (`CountBound`),
one more than the properties allow; a permit goes through its whole life as
often as its requests wish. Two runs of the cron are the one that breaks off or
lags behind and the next. `permits_pair` leaves the gates out (`Scanned` is
empty) because no gate handler makes a permit active. In `sessions` four calls
are a sign-in, a second one that takes over, and a refresh of each device; or a
sign-in, a reset of two calls that breaks off, and the refresh of the session it
left; three tokens are a session, the one that replaces it and a rotation.
`MaxAttempts` is 2 instead of 5, so that a lock, and a failure counted from an
older number, both happen. In `leasing` three leases are a lease, its renewal
and a rival for either, two periods are the running one and a past one, and five
calls are two that make leases, one that ends one and two that race. Both runs
bound the number of calls, since ids are not reused. `service_billing` looks at
histories with service requests or with fees, not both (`OneSide`): the two
share nothing but the table of invoices, and an invoice is for one of them.

*Deadlock* is checked in the runs of bookings and violations, where some
request can always be made. The others may come to rest and do not check it:
everything delivered and the failures used up (`notifications`), every permit
ended (`gates`, `permits_pair`), the bound on calls reached (`sessions`,
`leasing`), every request closed and every invoice settled
(`service_billing`). Nothing in these handlers waits for another handler
except inside the database, which aborts one of two transactions that wait
for each other (`Fail`).

*Fairness.* `NotificationDispatch`: time passes (`BecomeDue`); the cron fires
every minute (`Tick`); a call in flight goes on (`Proceed`, weakly fair per
worker, since the event loop resumes every settled promise); the emitter calls
its listeners (`Listen`). No fairness for administrators (`Schedule`, `SendNow`,
`Resend`, `StartCancel`) nor for failures. Weak fairness is enough
because nothing disables a pending promise. `LogsSettle` assumes that no
database call fails: a call that dies after marking its notification PENDING is
never picked up again, since the tick looks for SCHEDULED and the listener for
SENT.

`GateAccess`: time passes (`TimerElapses`) and the cron fires every five
minutes (`StartScan` of some run), weakly fair: while a visitor is overdue nothing
but the cron makes him not overdue, or the property is already met. `NotifyOverdue` and
`RearmOverdue` are strongly fair: a scan that throws, or a restart, disables
them, but the next scan tries again, and a notification or an update that can
be tried again and again does not fail forever. Nothing is assumed of requests,
so `VisitorChased` holds whether or not anybody ever checks out.

The other modules state safety only: their handlers promise nothing that must
eventually happen, since a request may always break off.

## 5. What is proved

`BookingBilling_proofs`, for every set of bookings, invoices, slots and
policies and any finite number of requests:

| theorem | statement |
|---|---|
| `TypeCorrect` | `Spec => []TypeOK` |
| `NothingOwed` | `Spec => []CancelledOwesNothing` |
| `PaidOrWaived` | `Spec => []ApprovedIsPaidOrWaived` |
| `CancellationIsFinal` | `Spec => CancellationSettles` |
| `FeesBounded` | `Spec => []FeeBound` |
| `FeeRaisedOnce` | `Spec /\ []OneApproval => []AtMostOneFee` |
| `SlotsExplained` | `Spec => []OverlapExplained` |
| `LedgerKept` | `Spec => KeepsLedger`, the refinement of `InvoiceLedger` |
| `PaidOrVoidIsFinal` | `Spec => [][FinalStatus]_vars`: a paid invoice is not cancelled nor a cancelled one paid, but by a call that had read it before |
| `RefundsFlagged` | `Spec /\ []NoPayMeetsCancel => []PaidCancellationIsFlagged` |
| `OverlapIsASharedMinute` | the query of `createBooking` finds the slots that share a minute with the one asked for, and no others |

*Hypotheses.* The code has no lock or unique index that would exclude these
races. Two theorems say what a property lacks by naming the one race that must
be absent: `OneApproval`, that no two approvals of one booking overlap, and
`NoPayMeetsCancel`, that no payment of a fee is in flight beside the
cancellation of its booking (so `RefundsFlagged` is the exact extent of the
finding `refund_flag`). Every other overlap is allowed. They restrict behaviours
and not the constants: with any number of requests most interleavings satisfy
them, and the runs `bookings_race` and `refund_flag` contain both kinds. The
other theorems need no such hypothesis.

*Assumptions.* Slots end after they start (`SlotAssumption`, as `createBooking`
requires), a policy says whether it is active, wants prepayment, and for which
slots something is charged (`PolicyAssumption`; nothing is assumed of prices),
`Request` is finite, and `NoSource` is no booking. TLC evaluates them in every
run.

*Argument.* `TypeOK` is not inductive: a handler's reference could name a row
that does not exist. `RefsOk` adds that a referenced booking is stored, a
referenced invoice was inserted, and an invoice's source is stored. `Shape`
(`TypeOK` and `RefsOk`) is inductive and carries everything else. The steps
that only read (`ReadStep`) change `req` alone and are dealt with once; each
write has a lemma that says what it does to the rows (`ApproveEffect`,
`PayEffect`, ...), and the invariants follow from those. `CancelledOwesNothing`
is inductive over `Shape` because the one handler that cancels a booking voids
its fees in the same transaction, and the one that raises a fee takes the
booking out of CANCELLED in the same transaction. `CancellationSettles` needs
it: without a payable fee no new payment can start. `FeeBound` counts the
fees together with the approvals that will raise one (`FeesCounted`: the sets
are finite). `AtMostOneFee` is inductive: an approval that saw no fee still
finds none. `SlotInv` strengthens `OverlapExplained` by `SlotReserved`: the
slot of a creation that has passed the query is held by nobody but the revived
and those stored unseen. The refinement maps the table through `LedgerView` and
needs that a payment had read its invoice open (`PayersSawOpen`): each write is
then one step of the ledger or a stutter (`LedgerOneRow`, `LedgerStep`), and it
is an overrun exactly when the history says so. `PaidOrVoidIsFinal` reads the
same in terms of the column. `RefundInv` adds to the refund property that a
cancellation in flight knows of every payment of its booking's fees (`sawPaid`).

`ViolationBilling_proofs`, for every set of violations and action requests and
any finite number of requests (`RequestAssumption`):

| theorem | statement |
|---|---|
| `TypeCorrect` | `Spec => []TypeOK` |
| `AnnulledNotPending` | `Spec => []AnnulledFineNotPending` |
| `OutIsForGood` | `Spec => OutForGood` |
| `AppealFlagIsHonest` | `Spec => []AppealFlagHonest` |
| `DecisionsStand` | `Spec => DecisionStands` |
| `PendingIsBounded` | `Spec => []PendingBound` |
| `OnlyUpheldReviewCancels` | a step that cancels a PAID or CLOSED violation is an approved review, or a cancellation tested before the violation was settled |
| `UncontendedRefinement` | `Spec /\ []Uncontended => Ledger!Spec` for the fines |
| `PaidOrVoidIsFinal` | `Spec /\ []Uncontended => [][FinalStatus]_vars` |

`AnnulledNotPending` says no more than its name: a fine that is OVERDUE when its
violation is annulled is neither voided by the annulment nor refused by
`markAsPaid`, and stays payable.

*Argument.* `RefsOk` again: a request refers to issued violations and filed
actions, an action and a fine to an issued violation. The later steps of a call
are of few kinds by what they do to a violation, a fine or an action
(`LaterEffect`, `ActionEffect`, `OtherEffect`). `AnnulInv` needs nothing more:
annulment voids a PENDING fine in its transaction and no handler raises another.
`OutForGood` and `DecisionStands` follow step by step: no call that starts at a
violation out of the process, or at a decided request, is let in, and those that
had tested it before are excepted by name. `AppealFlagHonest` is
inductive violation by violation with the submissions that have filed an appeal
and not yet noted it (`FlagInv`); a review of such an appeal, and a submission
that dies there, are what the history keeps. `PendingCounted` counts the pending
actions together with the requests about to insert one. `OnlyUpheldReviewCancels`
bounds the finding of `paid_violation_cancelled`: the guards of
`updateViolationStatus` and `cancelViolation` keep out every call that starts
later, and the review is the one handler without such a guard. `Uncontended`
says that no payment or settling call of a fine is in flight beside its voiding,
nor a payment beside the annulment of its violation; `StillOpen` is what either
may then rely on.

`Leasing_proofs`, for every set of tenants and requests and all bounds
(`TenantAssumption`: no tenant is the null one; `BoundAssumption`):

| theorem | statement |
|---|---|
| `TypeCorrect` | `Spec => []TypeOK` |
| `OverlapNeedsARace` | `Spec => []OverlapOnlyByRace` |
| `ChainsAreLinear` | `Spec => []ChainLinear` |
| `AccessIsLeased` | `Spec => []AccessFollowsLease` |
| `LateDeactivation` | `Spec => DeactivatedOnlyLate` |
| `DecisionUndoneOnlyLate` | `Spec => DecisionStands` |

*Argument.* `Shape` is `TypeOK` and `RefsOk` (calls refer to stored leases,
rent requests and tenants with an account). The steps fall in five
kinds, by their effect on the leases: they grant one, end one, add a tenant,
edit one, or leave them alone; each kind has its lemma (`Granted`, `Ended`,
`Rewritten`), so that the preservation proofs have five cases and not thirty.
No step assumes that calls do not overlap; what each property adds is a fact
about the calls in flight. `OverlapOnlyByRace` is strengthened by `TestHolds`: a
call that has looked for a period finds there only leases the history knows of.
`ChainLinear` is strengthened by `RenewOnce`: a lease about to be renewed was
renewed before only by calls that had a rival. `AccessFollowsLease` is inductive
because every write that parts a tenant's access from the leases puts the tenant
in `hist.unsettled`, and a lease gained takes the tenant out. `DeactivatedOnlyLate`
rests on `CountedLate` (a call about to deactivate a tenant who has a lease again
is late), `DecisionStands` on `ReviewedLate` (a review of a decided request is).

`GateAccess_proofs`, for every set of permits and runs of the cron, any finite
number of requests and every bound (`PermitAssumption`, `RequestAssumption`,
`BoundAssumption`, `EnforceAssumption`):

| theorem | statement |
|---|---|
| `TypeCorrect` | `Spec => []TypeOK` |
| `UsesBounded` | `Spec => []UseBound` |
| `WellBacked` | `Spec => []PermitBacked` |
| `EndIsFinal` | `Spec => EndedUndoneOnlyLate` |
| `SingleIsActive` | `Spec => []SingleActive` |
| `PermitLife` | a permit changes status only along `LifeMoves`, but by a call whose reading of its status is stale |

*Argument.* `RefsOk` says that a creation works on an id nobody else uses and
every other call, and each scan, on a stored permit. The steps are of a few
kinds (`StepKinds`), and a call's step does one of six things to a given permit
or leaves it alone (`TouchOrLeave`), so that each invariant is a statement
about one permit (`GrantOk`, `CodeOk`, `OnceOk`, `UseOk`) with these cases.
`GrantOk` follows a grant from its creation through the compensation: a grant
that is taken back is gone, one whose delete failed belongs to an `Orphaned` id,
and one a restart came upon to a `Cut` one. `OnceOk` counts codes with the calls
about to issue or use them, `UseOk` scans with those still to be counted; both
sums stay within the number of requests. `SingleActive` speaks of pairs:
`UnseenOk` says that a live permit which a creation in hand cannot have found
was stored unseen. `SawOk` says what a call read when it began; it carries
`EndIsFinal` and `PermitLife`. `LifeMoves` lists what the handlers do to a
permit even without a race: besides the expected moves `markQrCodeUsed` turns a
PENDING or a REVOKED permit into USED, which its guard does not refuse.

`ServiceBilling_proofs`, for every set of fees and all finite sets of service
requests, invoices and requests (`SetAssumption`, which also keeps the ids
apart):

| theorem | statement |
|---|---|
| `TypeCorrect` | `Spec => []TypeOK` |
| `ChargeStands` | `Spec => RechargedOnlyLate` |
| `RevenueIsPaid` | `Spec => []RevenueHonest` |
| `CancellationHolds` | `Spec => CancelledStays` |
| `UncontendedRefinement` | `Spec /\ []Uncontended => Ledger!Spec` |
| `PaidOrVoidIsFinal` | `Spec /\ []Uncontended => [][FinalStatus]_vars` |

*Argument.* `Shape` as before. `HeldLate` says that a call which holds a fee
that is now on an invoice is late: only `CommitBill` puts a fee on an invoice,
and no call takes up one that is. `RevenueInv` is a statement about one invoice
(`RevenueOf`): while it can still be collected nothing was counted, and a payment
in flight turns into a count, so the two together never exceed the calls that
can be in flight. `CancelledStays` follows step by step: no call takes up a
request it finds CANCELLED, so only one that had read it before, or a payment,
writes to it again. `Uncontended` says that no payment of an invoice is beside
its voiding, and `Fresh` what either may then rely on. A monthly run issues one
invoice in a step, however many runs overlap.

`NotificationDispatch_proofs`, for every set of notifications, any finite set
of logs and any number of calls (`BoundAssumption`, `LogAssumption`,
`NoNoteAssumption`, and `WorkerAssumption`: there is at least one):

| theorem | statement |
|---|---|
| `TypeCorrect` | `Spec => []TypeOK` |
| `DeliveredAtMostOnce` | `Spec => []NoDuplicateDelivery` |
| `CancelledIsFinal` | `Spec => CancelledStaysUnsent` |
| `AggregateSumsLogs` | `Spec => []AggregateHonest` |
| `SentStands` | as long as no two calls have overlapped, a log that is SENT is not written again |

*Argument.* Until two calls overlap there is at most one in flight
(`Alone`), and the invariant (`Tidy`) is a statement about that one call and
each notification by itself; a step touches one notification. `Budget` is the
heart of it: the messages delivered, the logs that are not SENT and a dispatch
still to come together never exceed one, plus one for every failure, and a
message whose log is about to be written is counted twice. `Fresh` and `Dropped`
say that nothing is delivered, emitted or even tried of a notification not yet
marked PENDING or cancelled. This carries `DeliveredAtMostOnce` and `SentStands`.
The other two hold under every overlap and have an invariant of their own,
`SumOk`: unless a dying call dropped it, a PENDING notification is in somebody's
hands (`Handed`), so is every PENDING log (`Tended`), and unless it was cancelled
or totalled from a stale count the status is the sum of the logs or somebody
still owes it that sum (`Summed`, `Owing`).

`AuthSessions_proofs`, for every set of devices and all bounds
(`BoundAssumption`, `TakeoverAssumption`):

| theorem | statement |
|---|---|
| `TypeCorrect` | `Spec => []TypeOK` |
| `OneSession` | `Spec => []OneUsableSession` |
| `ResetsEndSessions` | `Spec => []ResetEndsSessions` |
| `RefusalMeansLost` | `Spec => []RefusedOnlyWhenLost` |
| `LocksHold` | `Spec => LockLiftedOnlyLate` |

*Argument.* `RefsOk` says that calls and clients refer to tokens that were
created, in the order of their numbers. The thirty actions of a call are of
eleven kinds (`Kind`), by what they do to the rows. The invariant has one part
for each property, and none assumes that calls do not overlap. `SessionsOk`: a
call that is replacing a session has ended, or is about to end, all but those
that crossed with another call (`Replaces`), and the sessionVersion it has read
is the account's unless another call raised it since (`Version`). `PasswordOk`:
a call hands on a password that is no longer the account's only if a reset
overlapped it or is still at work (`HoldsOld`). `LateOk`: while the account is
locked every call that can lift the lock was in flight when it was set.
`LostOk` (`Knows`): the token in flight is the newest of its device's, and a
device that lost no reply knows every older one; together with the order of
`findFirst` that is why a refused live token was replaced (`RefusedOk`).

Every safety property of a passing run is stated by one of these theorems. Out
of reach of the prover, and left to TLC: liveness under fairness (`DueIsTaken`,
`LogsSettle`, `VisitorChased`), `ENABLED`, and induction over data.

## 6. What is not modelled

*In the modelled services.* Queries, texts, photos, comments, ratings and
attachments; the numbers of invoices and violations; StatusHistory; invoice
categories and `updateUnitFee`; the complaint and incident links of
`markAsPaid`. Deletion of users and
facilities, which cascades to bookings and violations. The gate log, permits of
the types that need no grant, the gates of a unit, and `reviewAccessRequest` for
blue-collar workers. The access of family members, the leasing suspension flag
(while it is set, requests are refused, which the models allow anyway) and the
owners' billing flags.
Account creation and activation, profiles, and the change of telephone or
e-mail. The IN_APP and WhatsApp channels (the second is a TODO in the code),
several recipients, the duplicate cache, templates and device tokens of
notifications.

*Components without a module.*

- complaints, incidents: a life cycle with an SLA scan, read, test and write as
  in service-request, which stands for the pattern.
- ordering: one row and one write per call; its unguarded cancel is read off
  the code and needs no model.
- approvals, household, delegates, permits, referrals, pending-registrations:
  a review queue each, read and then write as the appeals of violations;
  pending-registrations alone takes its row by an atomic `updateMany`.
- users, owners, units, communities, workers, compound-staff, commercial,
  resident-vehicles: large registers, mostly one row per write, whose
  correctness is that of references, which the database enforces.
- reports, dashboard, survey, marketing, news, banners, discover, help-center,
  hospitality, clubhouse, fire-evacuation, service-field, system-settings, file:
  queries and content.
- event listeners: turn a domain event into `sendNotification`, and swallow its
  errors. One hazard is left without a property for this reason:
  `generateInvoiceTx` emits `invoice.created` before its transaction commits.
- the web and mobile clients in `apps/` and the generated and seed code in
  `prisma/`: the larger part of the repository by lines; they keep no state the
  handlers test beyond what arrives with a request.
