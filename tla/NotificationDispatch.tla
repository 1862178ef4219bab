------------------------ MODULE NotificationDispatch ------------------------
(***************************************************************************)
(* Delivery of notifications over one external channel to one recipient.    *)
(*                                                                          *)
(* EMAIL and SMS have the same loop; PUSH has it with a record of the       *)
(* device token where they have the record of the log.  An IN_APP log is    *)
(* born DELIVERED and takes no part in delivery: it is left out.            *)
(*                                                                          *)
(* NotificationsService keeps no lock and no transaction: the cron tick,    *)
(* immediate sends, resends, cancellations and the notification.created     *)
(* listener are async functions that interleave at every await.  A worker   *)
(* is one such call in flight.  The tick fires every minute whether or not  *)
(* the one before has finished, so two workers may both be ticks.           *)
(*                                                                          *)
(* Sends carry no eventKey here, so the in-memory duplicate cache of        *)
(* sendNotification is not consulted.                                       *)
(***************************************************************************)
EXTENDS Integers, FiniteSets

CONSTANTS
  Note,       \* notification ids
  Log,        \* NotificationLog ids
  Worker,     \* calls in flight at the same time
  NoNote,     \* a worker that is between notifications
  MaxFail,    \* bound: database calls that fail
  MaxResend   \* bound: resend requests

ASSUME BoundAssumption == MaxFail \in Nat /\ MaxResend \in Nat
ASSUME LogAssumption == IsFiniteSet(Log)
ASSUME WorkerAssumption == Worker # {}
ASSUME NoNoteAssumption == NoNote \notin Note

VARIABLES
  note,       \* Note -> row
  log,        \* Log -> row
  worker,     \* Worker -> where the call is and what it has read
  event,      \* Note -> notification.created events not yet handled
  hist        \* history (notifications a dying call had in hand, those whose
              \* last total came from a stale count, ...) and bounds

vars == <<note, log, worker, event, hist>>

-----------------------------------------------------------------------------
(* Rows and workers *)

NotificationStatus == {"SCHEDULED", "PENDING", "SENT", "FAILED"}

LogStatus == {"PENDING", "SENT", "FAILED"}

(* due: scheduledAt has passed *)
NoteRow == [status : NotificationStatus, due : BOOLEAN]

LogRow == [note : Note, status : LogStatus]

Unborn == [status |-> "unborn"]

Idle == [pc |-> "idle", note |-> NoNote, todo |-> {}, targets |-> {},
         counts |-> 0, seen |-> {}]

(* todo: what a tick still has to dispatch; targets: the log snapshot       *)
(* still to deliver; counts: aggregate updates left; seen: the log statuses *)
(* the aggregate has read.                                                  *)
WorkerState ==
  [pc : {"idle", "dispatch", "mark", "read", "deliver", "record", "failed",
         "count", "total", "cancel"},
   note : Note \cup {NoNote}, todo : SUBSET Note, targets : SUBSET Log,
   counts : 0..2, seen : SUBSET LogStatus]

Stored(n) == note[n].status \in NotificationStatus

LogsOf(n) == {l \in Log : log[l].status \in LogStatus /\ log[l].note = n}

Statuses(n) == {log[l].status : l \in LogsOf(n)}

(* What a call is dispatching or delivering, or will be. *)
Hands(w) ==
  worker[w].todo
    \cup {n \in Note : worker[w].note = n /\ worker[w].pc # "cancel"}

(* The statuses dispatchScheduled looks for. *)
TakesPending == {"PENDING"}                                 \* mutated form
TakesFailed == {"SCHEDULED", "FAILED"}                      \* mutated form
Takes == {"SCHEDULED"}

DueNotes == {n \in Note : Stored(n) /\ note[n].due /\ note[n].status \in Takes}

(* The logs a delivery run in mode "pending" or "failed" goes through. *)
TargetsSent(n, mode) ==                                     \* mutated form
  {l \in LogsOf(n) : log[l].status \in {mode, "SENT"}}
TargetsFailed(n, mode) ==                                   \* mutated form
  {l \in LogsOf(n) : log[l].status = "FAILED"}
Targets(n, mode) == {l \in LogsOf(n) : log[l].status = mode}

(* The notification status computed from the statuses of its logs.          *)
AggregateDelivered(statuses) ==                             \* mutated form
  IF "SENT" \in statuses THEN "DELIVERED" ELSE "FAILED"
AggregateAttempted(statuses) ==                             \* mutated form
  IF statuses # {} THEN "SENT" ELSE "FAILED"
Aggregate(statuses) ==
  IF statuses \cap {"SENT", "PENDING"} # {} THEN "SENT" ELSE "FAILED"

-----------------------------------------------------------------------------
Init ==
  /\ note = [n \in Note |-> Unborn]
  /\ log = [l \in Log |-> Unborn]
  /\ worker = [w \in Worker |-> Idle]
  /\ event = [n \in Note |-> 0]
  /\ hist = [delivered |-> [n \in Note |-> 0], cancelled |-> {},
             dropped |-> {}, stale |-> {}, raced |-> FALSE,
             fails |-> 0, resends |-> 0]

(* The record of history after a call starts on worker w. *)
Started(w) ==
  [hist EXCEPT !.raced = @ \/ \E u \in Worker \ {w} : worker[u] # Idle]

Begin(w, state) ==
  /\ worker[w] = Idle
  /\ worker' = [worker EXCEPT ![w] = state]

Goto(w, pc) == worker' = [worker EXCEPT ![w].pc = pc]

(* The call goes on with the rest of its tick, or returns. *)
Rest(w) ==
  IF worker[w].todo = {} THEN Idle
  ELSE [Idle EXCEPT !.pc = "dispatch", !.todo = worker[w].todo]

Done(w) == worker' = [worker EXCEPT ![w] = Rest(w)]

SetNote(n, st) == note' = [note EXCEPT ![n].status = st]

SetLog(l, st) == log' = [log EXCEPT ![l].status = st]

(* scheduleNotification, and sendNotification with a date to come: one      *)
(* insert.                                                                  *)
Schedule(n) ==
  /\ note[n] = Unborn
  /\ note' = [note EXCEPT ![n] = [status |-> "SCHEDULED", due |-> FALSE]]
  /\ UNCHANGED <<log, worker, event, hist>>

(* scheduledAt goes by. *)
BecomeDue(n) ==
  /\ Stored(n) /\ ~note[n].due
  /\ note' = [note EXCEPT ![n].due = TRUE]
  /\ UNCHANGED <<log, worker, event, hist>>

(* sendNotification of something due at once: insert, then dispatchNow. *)
SendNow(w, n) ==
  /\ note[n] = Unborn
  /\ note' = [note EXCEPT ![n] = [status |-> "PENDING", due |-> TRUE]]
  /\ Begin(w, [Idle EXCEPT !.pc = "dispatch", !.todo = {n}])
  /\ hist' = Started(w)
  /\ UNCHANGED <<log, event>>

(* dispatchScheduled: read what is due (a tick that finds nothing returns)  *)
Tick(w) ==
  /\ DueNotes # {}
  /\ Begin(w, [Idle EXCEPT !.pc = "dispatch", !.todo = DueNotes])
  /\ hist' = Started(w)
  /\ UNCHANGED <<note, log, event>>

(* and dispatch it one by one.  dispatchNow reads the notification again    *)
(* but turns back only from one that is SCHEDULED and not due, which none   *)
(* that gets here is: a cancelled or dispatched one goes on.                *)
CreateLogs(w, l) ==
  /\ worker[w].pc = "dispatch"
  /\ log[l] = Unborn
  /\ \E n \in worker[w].todo :
       /\ log' = [log EXCEPT ![l] = [note |-> n, status |-> "PENDING"]]
       /\ worker' = [worker EXCEPT ![w].pc = "mark", ![w].note = n,
                                   ![w].todo = @ \ {n}]
  /\ UNCHANGED <<note, event, hist>>

MarkPending(w) ==
  /\ worker[w].pc = "mark"
  /\ SetNote(worker[w].note, "PENDING")
  /\ worker' = [worker EXCEPT ![w].pc = "read", ![w].counts = 2]
  /\ UNCHANGED <<log, event, hist>>

(* deliverPendingChannels *)
ReadLogs(w) ==
  /\ worker[w].pc = "read"
  /\ worker' = [worker EXCEPT ![w].pc = "deliver",
                              ![w].targets = Targets(worker[w].note, "PENDING")]
  /\ UNCHANGED <<note, log, event, hist>>

(* deliverEmail, deliverSms, deliverPush: one log of the snapshot after the *)
(* other, the provider first, the row after.  A provider that is off counts *)
(* as one that fails.                                                       *)
Provider(w) ==
  /\ worker[w].pc = "deliver"
  /\ worker[w].targets # {}
  /\ \/ /\ Goto(w, "record")
        /\ hist' = [hist EXCEPT !.delivered[worker[w].note] = @ + 1]
     \/ /\ Goto(w, "failed")
        /\ UNCHANGED hist
  /\ UNCHANGED <<note, log, event>>

RecordLog(w) ==
  /\ worker[w].pc \in {"record", "failed"}
  /\ \E l \in worker[w].targets :
       /\ SetLog(l, IF worker[w].pc = "record" THEN "SENT" ELSE "FAILED")
       /\ worker' = [worker EXCEPT ![w].pc = "deliver", ![w].targets = @ \ {l}]
  /\ UNCHANGED <<note, event, hist>>

(* The provider took the message but writing SENT throws: the catch block,  *)
(* which is there for the provider, records FAILED.                         *)
RecordThrows(w) ==
  /\ worker[w].pc = "record"
  /\ hist.fails < MaxFail
  /\ Goto(w, "failed")
  /\ hist' = [hist EXCEPT !.fails = @ + 1]
  /\ UNCHANGED <<note, log, event>>

(* updateNotificationAggregateCounts: groupBy, then update. *)
CountLogs(w) ==
  /\ \/ worker[w].pc = "deliver" /\ worker[w].targets = {}
     \/ worker[w].pc = "count"
  /\ worker' = [worker EXCEPT
       ![w].pc = "total",
       ![w].seen = Statuses(worker[w].note)]
  /\ UNCHANGED <<note, log, event, hist>>

(* deliverPendingChannels counts, dispatchNow counts again and then emits   *)
(* notification.created; the other callers count once.                      *)
WriteTotal(w) ==
  /\ worker[w].pc = "total"
  /\ SetNote(worker[w].note, Aggregate(worker[w].seen))
  /\ IF worker[w].counts = 2
     THEN worker' = [worker EXCEPT ![w].pc = "count", ![w].counts = 1, ![w].seen = {}]
     ELSE Done(w)
  /\ event' = [event EXCEPT ![worker[w].note] =
                 IF worker[w].counts = 1 THEN @ + 1 ELSE @]
  /\ hist' = [hist EXCEPT !.stale =
                IF worker[w].seen = Statuses(worker[w].note)
                THEN @ \ {worker[w].note} ELSE @ \cup {worker[w].note}]
  /\ UNCHANGED log

(* handleNotificationCreated: delivers what is still PENDING of a           *)
(* notification that is SENT.                                               *)
Listen(w, n) ==
  /\ event[n] > 0
  /\ event' = [event EXCEPT ![n] = @ - 1]
  /\ IF note[n].status = "SENT"
     THEN /\ Begin(w, [Idle EXCEPT !.pc = "read", !.note = n])
          /\ hist' = Started(w)
     ELSE UNCHANGED <<worker, hist>>
  /\ UNCHANGED <<note, log>>

(* resendFailedNotification: the snapshot of FAILED logs is tried again.    *)
Resend(w, n) ==
  /\ hist.resends < MaxResend
  /\ Stored(n)
  /\ Targets(n, "FAILED") # {}
  /\ Begin(w, [Idle EXCEPT !.pc = "deliver", !.note = n,
                           !.targets = Targets(n, "FAILED")])
  /\ hist' = [Started(w) EXCEPT !.resends = @ + 1]
  /\ UNCHANGED <<note, log, event>>

(* cancelScheduled *)
StartCancel(w, n) ==
  /\ note[n].status = "SCHEDULED"
  /\ Begin(w, [Idle EXCEPT !.pc = "cancel", !.note = n])
  /\ hist' = Started(w)
  /\ UNCHANGED <<note, log, event>>

CommitCancel(w) ==
  /\ worker[w].pc = "cancel"
  /\ SetNote(worker[w].note, "FAILED")
  /\ hist' = [hist EXCEPT !.cancelled = @ \cup {worker[w].note}]
  /\ Done(w)
  /\ UNCHANGED <<log, event>>

(* A database call throws outside that catch block, or the process goes     *)
(* down: the call is lost with the rest of its tick.                        *)
Fail(w) ==
  /\ worker[w] # Idle
  /\ hist.fails < MaxFail
  /\ worker' = [worker EXCEPT ![w] = Idle]
  /\ hist' = [hist EXCEPT !.fails = @ + 1, !.dropped = @ \cup Hands(w)]
  /\ UNCHANGED <<note, log, event>>

(* What a call in flight does next. *)
Proceed(w) ==
  \/ \E l \in Log : CreateLogs(w, l)
  \/ MarkPending(w)
  \/ ReadLogs(w)
  \/ Provider(w)
  \/ RecordLog(w)
  \/ CountLogs(w)
  \/ WriteTotal(w)
  \/ CommitCancel(w)

Next ==
  \/ \E n \in Note : Schedule(n) \/ BecomeDue(n)
  \/ \E w \in Worker :
       \/ Tick(w)
       \/ Proceed(w)
       \/ RecordThrows(w)
       \/ Fail(w)
       \/ \E n \in Note :
            SendNow(w, n) \/ Listen(w, n) \/ Resend(w, n) \/ StartCancel(w, n)

Spec == Init /\ [][Next]_vars

(* Time passes, the cron fires, calls in flight go on, and the emitter      *)
(* calls its listeners.  Nothing obliges an administrator to act.           *)
Fairness ==
  /\ \A n \in Note : WF_vars(BecomeDue(n))
  /\ WF_vars(\E w \in Worker : Tick(w))
  /\ \A w \in Worker : WF_vars(Proceed(w))
  /\ WF_vars(\E w \in Worker, n \in Note : Listen(w, n))

FairSpec == Spec /\ Fairness

-----------------------------------------------------------------------------
(* Properties *)

(* Every row and every call in flight has the shape the code gives it.      *)
TypeOK ==
  /\ note \in [Note -> NoteRow \cup {Unborn}]
  /\ log \in [Log -> LogRow \cup {Unborn}]
  /\ worker \in [Worker -> WorkerState]
  /\ event \in [Note -> Nat]
  /\ hist \in [delivered : [Note -> Nat], cancelled : SUBSET Note,
              dropped : SUBSET Note, stale : SUBSET Note, raced : BOOLEAN,
              fails : 0..MaxFail, resends : 0..MaxResend]

(* As long as no two calls have overlapped, the recipient gets a            *)
(* notification at most once, and once more for every database failure: a   *)
(* tick that died before it marked the notification PENDING, or a delivery  *)
(* recorded as FAILED and sent again.                                       *)
NoDuplicateDelivery ==
  ~hist.raced => \A n \in Note : hist.delivered[n] <= 1 + hist.fails

(* Cancelled, and what read it before that is done and has left no log.     *)
CancelledUnsent(n) ==
  /\ n \in hist.cancelled
  /\ note[n].status = "FAILED"
  /\ LogsOf(n) = {}
  /\ \A w \in Worker : n \notin Hands(w)

(* A tick that read a notification before cancelScheduled wrote it sends it *)
(* all the same.  Only such a tick does: once it is through, a cancelled    *)
(* notification stays FAILED and is never delivered, whatever overlaps.     *)
CancelledStaysUnsent ==
  [][\A n \in Note : CancelledUnsent(n) =>
       CancelledUnsent(n)' /\ hist'.delivered[n] = hist.delivered[n]]_vars

(* A notification no call has in hand, and none has dropped on dying, is    *)
(* not PENDING and neither are its logs.  If besides nobody cancelled it    *)
(* and the last total was not written from a count that had gone stale in   *)
(* between, it is SENT exactly when one of its logs is.  All this whatever  *)
(* overlaps: nothing but a death, a late cancellation and a stale count     *)
(* parts a notification from its logs.                                      *)
AggregateHonest ==
  \A n \in Note :
    /\ Stored(n)
    /\ \A w \in Worker : n \notin Hands(w)
    /\ n \notin hist.dropped
    =>
    /\ note[n].status # "PENDING"
    /\ "PENDING" \notin Statuses(n)
    /\ n \notin hist.stale \cup hist.cancelled =>
         (note[n].status = "SENT" <=> "SENT" \in Statuses(n))

(* A due notification does not wait for ever: it is dispatched or           *)
(* cancelled, even if some calls die on the way.                            *)
DueIsTaken ==
  \A n \in Note : (note[n].status = "SCHEDULED") ~> (note[n].status # "SCHEDULED")

(* Unless a call dies, every log is eventually settled, whatever overlaps.  *)
LogsSettle ==
  [](hist.fails = 0) =>
    \A l \in Log : (log[l].status = "PENDING") ~> (log[l].status \in {"SENT", "FAILED"})
=============================================================================
