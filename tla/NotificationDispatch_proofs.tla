---------------------- MODULE NotificationDispatch_proofs ----------------------
(***************************************************************************)
(* Theorems about NotificationDispatch, for any number of notifications and *)
(* calls, every finite number of logs, and any bound on failures.           *)
(***************************************************************************)
EXTENDS NotificationDispatch, FiniteSetTheorems, TLAPS

Busy == {"mark", "read", "deliver", "record", "failed", "count", "total", "cancel"}

Delivering == {"deliver", "record", "failed"}

(* What the state x of a call refers to: stored notifications, and logs of  *)
(* the notification it is about.                                            *)
RefsOf(x) ==
  /\ \A n \in x.todo : Stored(n)
  /\ x.pc \in Busy => x.note \in Note /\ Stored(x.note)
  /\ \A l \in x.targets : log[l].status \in LogStatus /\ log[l].note = x.note
  /\ x.pc \notin Delivering => x.targets = {}
  /\ x.pc \in {"record", "failed"} => x.targets # {}
  /\ x.pc = "idle" => x = Idle
  /\ x.pc = "dispatch" => x.note = NoNote

(* A log and an event belong to a stored notification. *)
LogsOk == \A l \in Log : log[l].status \in LogStatus => log[l].note \in Note /\ Stored(log[l].note)

EventsOk == \A n \in Note : event[n] > 0 => Stored(n)

RefsOk == (\A w \in Worker : RefsOf(worker[w])) /\ LogsOk /\ EventsOk

Shape == TypeOK /\ RefsOk

HistState ==
  [delivered : [Note -> Nat], cancelled : SUBSET Note,
   dropped : SUBSET Note, stale : SUBSET Note, raced : BOOLEAN, fails : 0..MaxFail, resends : 0..MaxResend]

-----------------------------------------------------------------------------
(* Rows *)

LEMMA Types ==
  ASSUME Shape
  PROVE  /\ note \in [Note -> NoteRow \cup {Unborn}]
         /\ log \in [Log -> LogRow \cup {Unborn}]
         /\ worker \in [Worker -> WorkerState]
         /\ event \in [Note -> Nat]
         /\ hist \in HistState
BY DEF Shape, TypeOK, HistState

LEMMA StoredRow ==
  ASSUME Shape, NEW n \in Note
  PROVE  Stored(n) <=> note[n] \in NoteRow
BY DEF Shape, TypeOK, Stored, NoteRow, Unborn, NotificationStatus

LEMMA LogOfNote ==
  ASSUME Shape, NEW l \in Log
  PROVE  log[l].status \in LogStatus <=> log[l] \in LogRow
BY DEF Shape, TypeOK, LogRow, Unborn, LogStatus

LEMMA IdleState ==
  Idle \in WorkerState /\ Idle.pc = "idle" /\ Idle.todo = {} /\ Idle.targets = {}
BY DEF Idle, WorkerState

(* A stored notification and a stored log stay, and so does whose it is.    *)
RowsStay ==
  /\ note' \in [Note -> NoteRow \cup {Unborn}]
  /\ log' \in [Log -> LogRow \cup {Unborn}]
  /\ \A n \in Note : Stored(n) => Stored(n)'
  /\ \A l \in Log : log[l].status \in LogStatus =>
       log'[l].status \in LogStatus /\ log'[l].note = log[l].note

LEMMA NoteWritten ==
  ASSUME Shape, NEW n \in Note, NEW row \in NoteRow, note' = [note EXCEPT ![n] = row], log' = log
  PROVE  RowsStay /\ LogsOk' /\ Stored(n)' /\ note'[n] = row
<1>1. Stored(n)' /\ note'[n] = row
  BY Types DEF Stored, NoteRow
<1>2. RowsStay
  BY <1>1, Types DEF RowsStay, Stored, NoteRow
<1>. QED
  BY <1>1, <1>2 DEF RowsStay, LogsOk, Shape, RefsOk

LEMMA NoteSet ==
  ASSUME Shape, NEW n \in Note, Stored(n), NEW st \in NotificationStatus, SetNote(n, st), log' = log
  PROVE  /\ RowsStay /\ LogsOk'
         /\ Stored(n)' /\ note'[n].status = st
         /\ \A m \in Note \ {n} : note'[m] = note[m]
<1>1. note[n] \in NoteRow
  BY StoredRow
<1>2. note' = [note EXCEPT ![n] = [note[n] EXCEPT !.status = st]]
  BY Types DEF SetNote
<1>3. [note[n] EXCEPT !.status = st] \in NoteRow /\ [note[n] EXCEPT !.status = st].status = st
  BY <1>1 DEF NoteRow
<1>. QED
  BY <1>2, <1>3, NoteWritten, Types

LEMMA LogSet ==
  ASSUME Shape, NEW l \in Log, log[l].status \in LogStatus, NEW st \in LogStatus,
         SetLog(l, st), note' = note
  PROVE  /\ RowsStay /\ LogsOk'
         /\ log'[l].status = st /\ log'[l].note = log[l].note
         /\ \A k \in Log \ {l} : log'[k] = log[k]
<1>1. log[l] \in LogRow
  BY LogOfNote
<1>2. log' = [log EXCEPT ![l] = [log[l] EXCEPT !.status = st]]
  BY Types DEF SetLog
<1>3. [log[l] EXCEPT !.status = st] \in LogRow /\ [log[l] EXCEPT !.status = st].status = st
      /\ [log[l] EXCEPT !.status = st].note = log[l].note
  BY <1>1 DEF LogRow
<1>4. /\ log'[l].status = st /\ log'[l].note = log[l].note
      /\ \A k \in Log \ {l} : log'[k] = log[k]
  BY <1>2, <1>3, Types
<1>5. log' \in [Log -> LogRow \cup {Unborn}]
  BY <1>2, <1>3, Types
<1>6. RowsStay
  BY <1>4, <1>5, Types DEF RowsStay, Stored
<1>. QED
  BY <1>4, <1>6 DEF RowsStay, LogsOk, Shape, RefsOk, Stored

LEMMA SameRows ==
  ASSUME Shape, note' = note, log' = log
  PROVE  RowsStay /\ LogsOk'
BY Types DEF RowsStay, LogsOk, Shape, RefsOk, Stored

(* One call moves from where it is to y, the others wait. *)
Moves(w, y) == worker' = [worker EXCEPT ![w] = y]

LEMMA ShapeOfMove ==
  ASSUME Shape, RowsStay, LogsOk', EventsOk', event' \in [Note -> Nat], hist' \in HistState,
         NEW w \in Worker, NEW y \in WorkerState, Moves(w, y), RefsOf(y)'
  PROVE  Shape'
<1>1. worker' \in [Worker -> WorkerState]
      /\ worker'[w] = y /\ \A u \in Worker \ {w} : worker'[u] = worker[u]
  BY Types DEF Moves
<1>2. TypeOK'
  BY <1>1 DEF TypeOK, RowsStay, HistState
<1>3. ASSUME NEW u \in Worker, u # w
      PROVE  RefsOf(worker[u])'
  <2>1. worker'[u] = worker[u] /\ worker[u] \in WorkerState /\ RefsOf(worker[u])
    BY <1>1, <1>3, Types DEF Shape, RefsOk
  <2>2. PICK x \in WorkerState : x = worker[u]
    BY <2>1
  <2>3. RefsOf(x)
    BY <2>1, <2>2
  <2>4. RefsOf(x)'
    BY <2>3 DEF RefsOf, RowsStay, WorkerState
  <2>. QED
    BY <2>1, <2>2, <2>4
<1>4. RefsOf(worker[w])'
  BY <1>1
<1>. QED
  BY <1>2, <1>3, <1>4 DEF Shape, RefsOk

LEMMA SameEvents ==
  ASSUME Shape, RowsStay, event' = event
  PROVE  EventsOk' /\ event' \in [Note -> Nat]
BY Types DEF EventsOk, Shape, RefsOk, RowsStay

-----------------------------------------------------------------------------
(* While calls do not overlap: the invariant of one note and the one call,  *)
(* in state x, that may be in flight                                        *)

On(x, n) == x.pc \in Busy /\ x.note = n

Unsent(n) == {l \in LogsOf(n) : log[l].status # "SENT"}

Untouched(n) == ~Stored(n) \/ note[n].status = "SCHEDULED"

CallOk(x) ==
  /\ x.pc \in Busy => x.note \notin x.todo
  /\ x.pc = "cancel" => x.todo = {} /\ note[x.note].status = "SCHEDULED"
  /\ \A l \in x.targets : log[l].status # "SENT"

(* Nothing has been delivered of a notification not yet marked PENDING, nor *)
(* of a cancelled one, and nothing is about to.                             *)
Fresh(x, n) ==
  Untouched(n) \/ n \in hist.cancelled =>
    /\ hist.delivered[n] = 0 /\ event[n] = 0
    /\ \A l \in LogsOf(n) : log[l].status = "PENDING"
    /\ On(x, n) => x.pc \in {"mark", "cancel"}

Dropped(x, n) ==
  n \in hist.cancelled => note[n].status = "FAILED" /\ ~On(x, n) /\ n \notin x.todo

(* What may still be delivered: one message for every log that is not SENT, *)
(* and one for a dispatch to come.  A message taken by the provider whose   *)
(* log is not written yet is counted twice.                                 *)
Waiting(x, n) ==
  IF (Untouched(n) \/ n \in x.todo) /\ ~(x.pc = "mark" /\ x.note = n) THEN 1 ELSE 0

Recording(x, n) == IF x.pc = "record" /\ x.note = n THEN 1 ELSE 0

Budget(x, n) ==
  hist.delivered[n] + Cardinality(Unsent(n)) + Waiting(x, n)
    <= 1 + hist.fails + Recording(x, n)

NoteOk(x, n) == Fresh(x, n) /\ Dropped(x, n) /\ Budget(x, n)

Tidy(x) == CallOk(x) /\ \A n \in Note : NoteOk(x, n)

Alone(w) == \A u \in Worker \ {w} : worker[u] = Idle

IInv ==
  /\ Shape
  /\ ~hist.raced => \E w \in Worker : Alone(w) /\ Tidy(worker[w])

-----------------------------------------------------------------------------
(* What a step leaves alone *)

LEMMA Counts ==
  ASSUME Shape, NEW n \in Note
  PROVE  /\ IsFiniteSet(Unsent(n)) /\ Cardinality(Unsent(n)) \in Nat
         /\ hist.delivered[n] \in Nat /\ hist.fails \in Nat
<1>1. Unsent(n) \subseteq Log
  BY DEF Unsent, LogsOf
<1>2. IsFiniteSet(Unsent(n))
  BY <1>1, FS_Subset, LogAssumption
<1>. QED
  BY <1>2, FS_CardinalityType, Types, BoundAssumption DEF HistState

LogsKept(n) ==
  LogsOf(n)' = LogsOf(n) /\ \A l \in LogsOf(n) : log'[l].status = log[l].status

NoteKept(n) ==
  /\ note'[n].status = note[n].status
  /\ LogsKept(n)
  /\ event'[n] = event[n]
  /\ hist'.delivered[n] = hist.delivered[n]
  /\ n \in hist'.cancelled <=> n \in hist.cancelled
  /\ hist'.fails \in Nat /\ hist'.fails >= hist.fails

LEMMA SetsKept ==
  ASSUME NEW n \in Note, NoteKept(n)
  PROVE  /\ Unsent(n)' = Unsent(n)
         /\ Untouched(n)' = Untouched(n)
<1>1. Unsent(n)' = Unsent(n)
  BY DEF NoteKept, LogsKept, Unsent
<1>2. Untouched(n)' = Untouched(n)
  BY DEF NoteKept, Untouched, Stored
<1>. QED
  BY <1>1, <1>2

(* A notification the call is not about, and whose place in the tick stays. *)
LEMMA Elsewhere ==
  ASSUME Shape, NEW n \in Note, NoteKept(n), NEW x, NEW y, ~On(x, n), ~On(y, n),
         n \in x.todo <=> n \in y.todo, NoteOk(x, n)
  PROVE  NoteOk(y, n)'
<1>1. Fresh(y, n)'
  BY SetsKept DEF NoteOk, Fresh, On, NoteKept, LogsKept
<1>2. Dropped(y, n)'
  BY DEF NoteOk, Dropped, On, NoteKept
<1>3. Budget(y, n)'
  <2>1. Waiting(y, n)' = Waiting(x, n) /\ Recording(y, n)' = Recording(x, n)
        /\ Recording(x, n) = 0 /\ Waiting(x, n) \in {0, 1}
    BY SetsKept DEF Waiting, Recording, On, Busy
  <2>. QED
    BY <2>1, SetsKept, Counts DEF NoteOk, Budget, NoteKept
<1>. QED
  BY <1>1, <1>2, <1>3 DEF NoteOk

LEMMA SameLogs ==
  ASSUME log' = log
  PROVE  \A n \in Note : LogsKept(n)
BY DEF LogsKept, LogsOf

LEMMA SameHist ==
  ASSUME Shape, hist' = hist
  PROVE  hist' \in HistState /\ hist'.fails \in Nat /\ hist'.fails >= hist.fails
BY Types, BoundAssumption DEF HistState

-----------------------------------------------------------------------------
(* The steps of a call *)

(* The call w, in state x, makes a step that keeps the invariant. *)
TidyMove(w, x) == \E y \in WorkerState : Moves(w, y) /\ (Tidy(x) => Tidy(y)')

LEMMA CreateLogsStep ==
  ASSUME Shape, NEW w \in Worker, NEW l \in Log,
         CreateLogs(w, l), NEW x \in WorkerState, x = worker[w]
  PROVE  Shape' /\ TidyMove(w, x)
<1>1. PICK n \in x.todo :
        /\ log' = [log EXCEPT ![l] = [note |-> n, status |-> "PENDING"]]
        /\ worker' = [worker EXCEPT ![w].pc = "mark", ![w].note = n, ![w].todo = @ \ {n}]
  BY DEF CreateLogs
<1>2. PICK y : y = [x EXCEPT !.pc = "mark", !.note = n, !.todo = @ \ {n}]
  OBVIOUS
<1>3. /\ x.pc = "dispatch" /\ log[l] = Unborn /\ note' = note /\ event' = event /\ hist' = hist
      /\ n \in Note /\ Stored(n) /\ x.targets = {} /\ RefsOf(x)
  BY DEF CreateLogs, Shape, RefsOk, RefsOf, Delivering, WorkerState
<1>4. /\ y \in WorkerState /\ Moves(w, y)
      /\ y.pc = "mark" /\ y.note = n /\ y.todo = x.todo \ {n} /\ y.targets = {}
  <2>1. worker' = [worker EXCEPT ![w] = y]
    BY <1>1, <1>2, Types
  <2>. QED
    BY <2>1, <1>2, <1>3 DEF WorkerState, Moves
<1>5. /\ log'[l].status = "PENDING" /\ log'[l].note = n /\ log'[l] \in LogRow
      /\ \A k \in Log \ {l} : log'[k] = log[k]
      /\ log[l].status \notin LogStatus
  BY <1>1, <1>3, Types DEF LogRow, LogStatus, Unborn
<1>6. RowsStay /\ LogsOk'
  <2>1. log' \in [Log -> LogRow \cup {Unborn}]
    BY <1>1, <1>5, Types
  <2>2. RowsStay
    BY <2>1, <1>3, <1>5, Types DEF RowsStay, Stored
  <2>. QED
    BY <2>2, <1>3, <1>5 DEF LogsOk, Shape, RefsOk, Stored
<1>7. RefsOf(y)'
  BY <1>3, <1>4 DEF RefsOf, Stored, Delivering
<1>8. Shape'
  BY <1>3, <1>4, <1>6, <1>7, SameEvents, SameHist, ShapeOfMove
<1>9. ASSUME Tidy(x)
      PROVE  Tidy(y)'
  <2>1. CallOk(y)'
    BY <1>4 DEF CallOk
  <2>2. ASSUME NEW m \in Note, m # n
        PROVE  NoteOk(y, m)'
    <3>1. LogsKept(m)
      BY <1>5, <2>2 DEF LogsKept, LogsOf
    <3>2. NoteKept(m)
      BY <3>1, <1>3, SameHist DEF NoteKept
    <3>. QED
      BY <3>2, <1>3, <1>4, <1>9, <2>2, Elsewhere DEF Tidy, On, Busy
  <2>3. NoteOk(x, n)
    BY <1>3, <1>9 DEF Tidy
  <2>4. LogsOf(n)' = LogsOf(n) \cup {l} /\ l \notin LogsOf(n)
        /\ \A k \in LogsOf(n) : log'[k] = log[k]
    BY <1>5 DEF LogsOf, LogStatus
  <2>5. Fresh(y, n)'
    BY <1>3, <1>4, <1>5, <2>3, <2>4 DEF NoteOk, Fresh, On, Untouched, Stored
  <2>6. Dropped(y, n)'
    BY <1>1, <1>3, <1>4, <2>3 DEF NoteOk, Dropped
  <2>7. Budget(y, n)'
    <3>1. Unsent(n)' = Unsent(n) \cup {l} /\ l \notin Unsent(n)
      BY <1>5, <2>4 DEF Unsent
    <3>2. Cardinality(Unsent(n)') = Cardinality(Unsent(n)) + 1
      <4>1. IsFiniteSet(Unsent(n))
        BY <1>3, Counts
      <4>2. Cardinality(Unsent(n) \cup {l}) = Cardinality(Unsent(n)) + 1
        BY <4>1, <3>1, FS_AddElement
      <4>. QED
        BY <4>2, <3>1
    <3>3. Waiting(x, n) = 1 /\ Waiting(y, n)' = 0 /\ Recording(x, n) = 0 /\ Recording(y, n)' = 0
      BY <1>1, <1>3, <1>4 DEF Waiting, Recording
    <3>. QED
      BY <3>2, <3>3, <1>3, <2>3, Counts DEF NoteOk, Budget
  <2>. QED
    BY <2>1, <2>2, <2>5, <2>6, <2>7 DEF Tidy, NoteOk
<1>. QED
  BY <1>4, <1>8, <1>9 DEF TidyMove

LEMMA MarkPendingStep ==
  ASSUME Shape, NEW w \in Worker, MarkPending(w), NEW x \in WorkerState, x = worker[w]
  PROVE  Shape' /\ TidyMove(w, x)
<1>1. PICK y : y = [x EXCEPT !.pc = "read", !.counts = 2]
  OBVIOUS
<1>2. PICK n : n = x.note
  OBVIOUS
<1>3. /\ x.pc = "mark" /\ SetNote(n, "PENDING") /\ log' = log /\ event' = event /\ hist' = hist
      /\ n \in Note /\ Stored(n) /\ x.targets = {} /\ RefsOf(x)
  BY <1>2 DEF MarkPending, Shape, RefsOk, RefsOf, Delivering, Busy
<1>4. /\ y \in WorkerState /\ Moves(w, y)
      /\ y.pc = "read" /\ y.note = n /\ y.todo = x.todo /\ y.targets = {}
  <2>1. y \in WorkerState
    <3>1. 2 \in 0..2
      OBVIOUS
    <3>2. PICK two \in 0..2 : two = 2
      BY <3>1
    <3>3. y = [x EXCEPT !.pc = "read", !.counts = two]
      BY <1>1, <3>2
    <3>. QED
      BY <3>3 DEF WorkerState
  <2>2. worker' = [worker EXCEPT ![w] = y]
    BY <1>1, Types DEF MarkPending
  <2>. QED
    BY <1>1, <1>2, <1>3, <2>1, <2>2 DEF Moves, WorkerState
<1>5. /\ RowsStay /\ LogsOk' /\ Stored(n)' /\ note'[n].status = "PENDING"
      /\ \A m \in Note \ {n} : note'[m] = note[m]
  BY <1>3, NoteSet DEF NotificationStatus
<1>6. RefsOf(y)'
  BY <1>3, <1>4, <1>5 DEF RefsOf, Delivering, RowsStay, WorkerState
<1>7. Shape'
  BY <1>3, <1>4, <1>5, <1>6, SameEvents, SameHist, ShapeOfMove
<1>8. ASSUME Tidy(x)
      PROVE  Tidy(y)'
  <2>1. NoteOk(x, n) /\ n \notin x.todo
    BY <1>2, <1>3, <1>8 DEF Tidy, CallOk, Busy
  <2>2. CallOk(y)'
    BY <1>4, <2>1 DEF CallOk
  <2>3. ASSUME NEW m \in Note, m # n
        PROVE  NoteOk(y, m)'
    <3>1. NoteKept(m)
      BY <1>3, <1>5, <2>3, SameHist, SameLogs DEF NoteKept
    <3>. QED
      BY <3>1, <1>2, <1>4, <1>8, <2>3, Elsewhere DEF Tidy, On
  <2>4. ~Untouched(n)' /\ n \notin hist.cancelled /\ n \notin hist'.cancelled
    BY <1>2, <1>3, <1>5, <2>1 DEF Untouched, NoteOk, Dropped, On, Busy
  <2>5. Budget(y, n)'
    <3>1. Unsent(n)' = Unsent(n)
      BY <1>3 DEF Unsent, LogsOf
    <3>2. Waiting(x, n) = 0 /\ Waiting(y, n)' = 0 /\ Recording(x, n) = 0 /\ Recording(y, n)' = 0
      BY <1>2, <1>3, <1>4, <2>1, <2>4 DEF Waiting, Recording
    <3>. QED
      BY <3>1, <3>2, <1>3, <2>1, Counts DEF NoteOk, Budget
  <2>. QED
    BY <2>2, <2>3, <2>4, <2>5 DEF Tidy, NoteOk, Fresh, Dropped
<1>. QED
  BY <1>4, <1>7, <1>8 DEF TidyMove

LEMMA ReadLogsStep ==
  ASSUME Shape, NEW w \in Worker, ReadLogs(w), NEW x \in WorkerState, x = worker[w]
  PROVE  Shape' /\ TidyMove(w, x)
<1>1. PICK n : n = x.note
  OBVIOUS
<1>2. PICK y : y = [x EXCEPT !.pc = "deliver", !.targets = Targets(n, "PENDING")]
  OBVIOUS
<1>3. /\ x.pc = "read" /\ note' = note /\ log' = log /\ event' = event /\ hist' = hist
      /\ n \in Note /\ Stored(n) /\ RefsOf(x)
  BY <1>1 DEF ReadLogs, Shape, RefsOk, RefsOf, Busy
<1>4. /\ y \in WorkerState /\ Moves(w, y)
      /\ y.pc = "deliver" /\ y.note = n /\ y.todo = x.todo /\ y.targets = Targets(n, "PENDING")
  BY <1>1, <1>2, <1>3, Types DEF WorkerState, Moves, ReadLogs, Targets, LogsOf
<1>5. RowsStay /\ LogsOk'
  BY <1>3, SameRows
<1>6. RefsOf(y)'
  <2>1. y.targets' = y.targets
    BY <1>4
  <2>. QED
    BY <1>3, <1>4 DEF RefsOf, Delivering, Targets, LogsOf, Stored
<1>7. Shape'
  BY <1>3, <1>4, <1>5, <1>6, SameEvents, SameHist, ShapeOfMove
<1>8. ASSUME Tidy(x)
      PROVE  Tidy(y)'
  <2>1. NoteOk(x, n) /\ n \notin x.todo
    BY <1>1, <1>3, <1>8 DEF Tidy, CallOk, Busy
  <2>2. CallOk(y)'
    BY <1>3, <1>4, <2>1 DEF CallOk, Targets
  <2>3. \A m \in Note : NoteKept(m)
    BY <1>3, SameHist, SameLogs DEF NoteKept
  <2>4. ASSUME NEW m \in Note, m # n
        PROVE  NoteOk(y, m)'
    BY <2>3, <1>1, <1>4, <1>8, <2>4, Elsewhere DEF Tidy, On
  <2>5. ~Untouched(n) /\ n \notin hist.cancelled
    BY <1>1, <1>3, <2>1 DEF NoteOk, Fresh, On, Busy
  <2>6. Budget(y, n)'
    <3>1. Waiting(x, n) = 0 /\ Waiting(y, n)' = 0 /\ Recording(x, n) = 0 /\ Recording(y, n)' = 0
      BY <1>3, <1>4, <2>1, <2>5 DEF Waiting, Recording, Untouched, Stored
    <3>. QED
      BY <3>1, <1>3, <2>1, <2>3, SetsKept, Counts DEF NoteOk, Budget
  <2>. QED
    BY <1>3, <2>2, <2>4, <2>5, <2>6 DEF Tidy, NoteOk, Fresh, Dropped, Untouched, Stored
<1>. QED
  BY <1>4, <1>7, <1>8 DEF TidyMove

(* What holds of a call that delivers or counts. *)
LEMMA AtWork ==
  ASSUME Shape, NEW w \in Worker, NEW x \in WorkerState, x = worker[w],
         x.pc \in Busy \ {"mark", "cancel"},
         NEW n, n = x.note
  PROVE  /\ n \in Note /\ Stored(n) /\ RefsOf(x) /\ x.pc \in Busy
         /\ Tidy(x) => /\ NoteOk(x, n) /\ n \notin x.todo
                       /\ ~Untouched(n) /\ n \notin hist.cancelled
<1>1. n \in Note /\ Stored(n) /\ RefsOf(x) /\ x.pc \in Busy
  BY DEF Shape, RefsOk, RefsOf
<1>2. ASSUME Tidy(x)
      PROVE  NoteOk(x, n) /\ n \notin x.todo
  BY <1>1, <1>2 DEF Tidy, CallOk
<1>3. ASSUME Tidy(x)
      PROVE  ~Untouched(n) /\ n \notin hist.cancelled
  BY <1>1, <1>2, <1>3 DEF NoteOk, Fresh, On
<1>. QED
  BY <1>1, <1>2, <1>3

LEMMA ProviderStep ==
  ASSUME Shape, NEW w \in Worker, Provider(w), NEW x \in WorkerState, x = worker[w]
  PROVE  Shape' /\ TidyMove(w, x)
<1>1. PICK n : n = x.note
  OBVIOUS
<1>2. x.pc = "deliver" /\ x.targets # {} /\ note' = note /\ log' = log /\ event' = event
  BY DEF Provider
<1>3. /\ n \in Note /\ Stored(n) /\ RefsOf(x) /\ x.pc \in Busy
      /\ Tidy(x) => /\ NoteOk(x, n) /\ n \notin x.todo
                    /\ ~Untouched(n) /\ n \notin hist.cancelled
  BY <1>1, <1>2, AtWork DEF Busy
<1>4. PICK pc \in {"record", "failed"} :
        /\ Goto(w, pc)
        /\ hist' = IF pc = "record" THEN [hist EXCEPT !.delivered[n] = @ + 1] ELSE hist
  BY <1>1 DEF Provider
<1>5. PICK y : y = [x EXCEPT !.pc = pc]
  OBVIOUS
<1>6. /\ y \in WorkerState /\ Moves(w, y)
      /\ y.pc = pc /\ y.note = n /\ y.todo = x.todo /\ y.targets = x.targets
  BY <1>1, <1>4, <1>5, Types DEF WorkerState, Moves, Goto
<1>7. /\ hist' \in HistState /\ hist'.fails = hist.fails /\ hist'.cancelled = hist.cancelled
      /\ hist'.fails \in Nat /\ hist'.fails >= hist.fails
      /\ \A m \in Note \ {n} : hist'.delivered[m] = hist.delivered[m]
      /\ hist'.delivered[n] = hist.delivered[n] + (IF pc = "record" THEN 1 ELSE 0)
  <2>1. hist \in HistState /\ hist.fails \in Nat
    BY Counts, <1>3, Types
  <2>2. CASE pc = "failed"
    BY <2>1, <2>2, <1>3, <1>4, Counts
  <2>3. CASE pc = "record"
    <3>1. hist' = [hist EXCEPT !.delivered = [hist.delivered EXCEPT ![n] = @ + 1]]
      BY <1>4, <2>3, <2>1 DEF HistState
    <3>2. [hist.delivered EXCEPT ![n] = @ + 1] \in [Note -> Nat]
      BY <2>1, <1>3 DEF HistState
    <3>. QED
      BY <3>1, <3>2, <2>1, <2>3, <1>3 DEF HistState
  <2>. QED
    BY <2>2, <2>3, <1>4
<1>8. RowsStay /\ LogsOk'
  BY <1>2, SameRows
<1>9. RefsOf(y)'
  BY <1>1, <1>2, <1>3, <1>6, <1>4 DEF RefsOf, Delivering, Stored, Busy
<1>10. Shape'
  BY <1>2, <1>6, <1>7, <1>8, <1>9, SameEvents, ShapeOfMove
<1>11. ASSUME Tidy(x)
       PROVE  Tidy(y)'
  <2>1. CallOk(y)'
    BY <1>2, <1>3, <1>4, <1>6, <1>11 DEF CallOk, Tidy
  <2>2. ASSUME NEW m \in Note, m # n
        PROVE  NoteOk(y, m)'
    <3>1. NoteKept(m)
      BY <1>2, <1>7, <2>2, SameLogs DEF NoteKept
    <3>. QED
      BY <3>1, <1>1, <1>6, <1>11, <2>2, Elsewhere DEF Tidy, On
  <2>3. Unsent(n)' = Unsent(n) /\ Untouched(n)' = Untouched(n)
    BY <1>2 DEF Unsent, LogsOf, Untouched, Stored
  <2>4. Budget(y, n)'
    <3>1. Waiting(x, n) = 0 /\ Waiting(y, n)' = 0 /\ Recording(x, n) = 0
          /\ Recording(y, n)' = IF pc = "record" THEN 1 ELSE 0
      BY <1>2, <1>3, <1>4, <1>6, <1>11, <2>3 DEF Waiting, Recording
    <3>. QED
      BY <3>1, <1>3, <1>7, <1>11, <2>3, Counts DEF NoteOk, Budget
  <2>. QED
    BY <1>3, <1>7, <1>11, <2>1, <2>2, <2>3, <2>4 DEF Tidy, NoteOk, Fresh, Dropped
<1>. QED
  BY <1>6, <1>10, <1>11 DEF TidyMove

LEMMA RecordLogStep ==
  ASSUME Shape, NEW w \in Worker, RecordLog(w), NEW x \in WorkerState, x = worker[w]
  PROVE  Shape' /\ TidyMove(w, x)
<1>1. PICK n : n = x.note
  OBVIOUS
<1>2. x.pc \in {"record", "failed"} /\ note' = note /\ event' = event /\ hist' = hist
  BY DEF RecordLog
<1>3. /\ n \in Note /\ Stored(n) /\ RefsOf(x) /\ x.pc \in Busy
      /\ Tidy(x) => /\ NoteOk(x, n) /\ n \notin x.todo
                    /\ ~Untouched(n) /\ n \notin hist.cancelled
  BY <1>1, <1>2, AtWork DEF Busy
<1>4. PICK l \in x.targets :
        /\ SetLog(l, IF x.pc = "record" THEN "SENT" ELSE "FAILED")
        /\ worker' = [worker EXCEPT ![w] = [x EXCEPT !.pc = "deliver", !.targets = @ \ {l}]]
  BY Types DEF RecordLog
<1>5. PICK y : y = [x EXCEPT !.pc = "deliver", !.targets = @ \ {l}]
  OBVIOUS
<1>6. /\ y \in WorkerState /\ Moves(w, y)
      /\ y.pc = "deliver" /\ y.note = n /\ y.todo = x.todo /\ y.targets = x.targets \ {l}
  BY <1>1, <1>4, <1>5, Types DEF WorkerState, Moves
<1>7. PICK st \in {"SENT", "FAILED"} : st = IF x.pc = "record" THEN "SENT" ELSE "FAILED"
  OBVIOUS
<1>8. l \in Log /\ log[l].status \in LogStatus /\ log[l].note = n
  BY <1>1, <1>3, <1>4 DEF RefsOf, WorkerState
<1>9. /\ RowsStay /\ LogsOk'
      /\ log'[l].status = st /\ log'[l].note = n
      /\ \A k \in Log \ {l} : log'[k] = log[k]
  BY <1>2, <1>4, <1>7, <1>8, LogSet DEF LogStatus
<1>10. RefsOf(y)'
  BY <1>1, <1>2, <1>3, <1>6, <1>9 DEF RefsOf, Delivering, Stored, Busy, WorkerState
<1>11. Shape'
  BY <1>2, <1>6, <1>9, <1>10, SameEvents, SameHist, ShapeOfMove
<1>12. ASSUME Tidy(x)
       PROVE  Tidy(y)'
  <2>1. CallOk(y)'
    BY <1>3, <1>6, <1>9, <1>12 DEF CallOk, Tidy, WorkerState
  <2>2. ASSUME NEW m \in Note, m # n
        PROVE  NoteOk(y, m)'
    <3>1. LogsKept(m)
      BY <1>8, <1>9, <2>2 DEF LogsKept, LogsOf
    <3>2. NoteKept(m)
      BY <3>1, <1>2, SameHist DEF NoteKept
    <3>. QED
      BY <3>2, <1>1, <1>6, <1>12, <2>2, Elsewhere DEF Tidy, On
  <2>3. LogsOf(n)' = LogsOf(n) /\ l \in LogsOf(n) /\ Untouched(n)' = Untouched(n)
        /\ \A k \in LogsOf(n) \ {l} : log'[k] = log[k]
    BY <1>2, <1>7, <1>8, <1>9 DEF LogsOf, LogStatus, Untouched, Stored
  <2>4. l \in Unsent(n)
    BY <1>4, <1>12, <2>3 DEF Unsent, CallOk, Tidy
  <2>5. Budget(y, n)'
    <3>1. Waiting(x, n) = 0 /\ Waiting(y, n)' = 0 /\ Recording(y, n)' = 0
      BY <1>2, <1>3, <1>6, <1>12, <2>3 DEF Waiting, Recording
    <3>2. CASE x.pc = "failed"
      <4>1. Unsent(n)' = Unsent(n)
        BY <3>2, <1>7, <1>9, <2>3, <2>4 DEF Unsent
      <4>2. Recording(x, n) = 0
        BY <3>2 DEF Recording
      <4>. QED
        BY <4>1, <4>2, <3>1, <1>2, <1>3, <1>12, Counts DEF NoteOk, Budget
    <3>3. CASE x.pc = "record"
      <4>1. Unsent(n)' = Unsent(n) \ {l}
        BY <3>3, <1>7, <1>9, <2>3, <2>4 DEF Unsent
      <4>2. IsFiniteSet(Unsent(n)) /\ Cardinality(Unsent(n)) \in Nat
        BY <1>3, Counts
      <4>3. Cardinality(Unsent(n) \ {l}) = Cardinality(Unsent(n)) - 1
        BY <4>2, <2>4, FS_RemoveElement
      <4>4. Cardinality(Unsent(n)') = Cardinality(Unsent(n)) - 1
        BY <4>1, <4>3
      <4>5. Recording(x, n) = 1
        BY <3>3, <1>1 DEF Recording
      <4>. QED
        BY <4>2, <4>4, <4>5, <3>1, <1>2, <1>3, <1>12, Counts DEF NoteOk, Budget
    <3>. QED
      BY <3>2, <3>3, <1>2
  <2>. QED
    BY <1>2, <1>3, <1>12, <2>1, <2>2, <2>3, <2>5 DEF Tidy, NoteOk, Fresh, Dropped
<1>. QED
  BY <1>6, <1>11, <1>12 DEF TidyMove

(* A call counts as failed once more. *)
LEMMA FailCounted ==
  ASSUME Shape, hist.fails < MaxFail, hist' = [hist EXCEPT !.fails = @ + 1]
  PROVE  /\ hist' \in HistState /\ hist'.fails = hist.fails + 1
         /\ hist'.fails \in Nat /\ hist'.fails >= hist.fails /\ hist'.fails # 0
         /\ hist'.delivered = hist.delivered /\ hist'.cancelled = hist.cancelled
         /\ hist'.dropped = hist.dropped /\ hist'.stale = hist.stale
         /\ hist'.raced = hist.raced
<1>1. hist \in HistState /\ hist.fails \in Nat
  BY Types, BoundAssumption DEF HistState
<1>2. hist.fails + 1 \in 0..MaxFail
  BY <1>1, BoundAssumption DEF HistState
<1>. QED
  BY <1>1, <1>2 DEF HistState

(* A call that dies drops what it had in hand. *)
LEMMA FailDrops ==
  ASSUME Shape, NEW w \in Worker, Fail(w)
  PROVE  /\ hist' \in HistState /\ hist'.fails = hist.fails + 1
         /\ hist'.fails \in Nat /\ hist'.fails >= hist.fails /\ hist'.fails # 0
         /\ hist'.delivered = hist.delivered /\ hist'.cancelled = hist.cancelled
         /\ hist'.dropped = hist.dropped \cup Hands(w) /\ hist'.stale = hist.stale
         /\ hist'.raced = hist.raced
<1>1. hist \in HistState /\ hist.fails \in Nat
  BY Types, BoundAssumption DEF HistState
<1>2. PICK fails \in 0..MaxFail : fails = hist.fails + 1
  BY <1>1, BoundAssumption DEF Fail, HistState
<1>3. PICK dropped \in SUBSET Note : dropped = hist.dropped \cup Hands(w)
  <2>1. worker[w].todo \subseteq Note
    BY Types DEF WorkerState
  <2>. QED
    BY <1>1, <2>1 DEF Hands, HistState
<1>4. hist' = [hist EXCEPT !.fails = fails, !.dropped = dropped]
  BY <1>1, <1>2, <1>3 DEF Fail, HistState
<1>5. hist' \in HistState
  BY <1>1, <1>4 DEF HistState
<1>6. fails \in Nat /\ fails >= hist.fails /\ fails # 0
  BY <1>1, <1>2, BoundAssumption
<1>. QED
  BY <1>1, <1>2, <1>3, <1>4, <1>5, <1>6 DEF HistState

LEMMA RecordThrowsStep ==
  ASSUME Shape, NEW w \in Worker, RecordThrows(w), NEW x \in WorkerState, x = worker[w]
  PROVE  Shape' /\ TidyMove(w, x)
<1>1. PICK n : n = x.note
  OBVIOUS
<1>2. x.pc = "record" /\ note' = note /\ log' = log /\ event' = event /\ Goto(w, "failed")
  BY DEF RecordThrows
<1>3. /\ n \in Note /\ Stored(n) /\ RefsOf(x) /\ x.pc \in Busy
      /\ Tidy(x) => /\ NoteOk(x, n) /\ n \notin x.todo
                    /\ ~Untouched(n) /\ n \notin hist.cancelled
  BY <1>1, <1>2, AtWork DEF Busy
<1>4. /\ hist' \in HistState /\ hist'.fails = hist.fails + 1
      /\ hist'.fails \in Nat /\ hist'.fails >= hist.fails /\ hist'.fails # 0
      /\ hist'.delivered = hist.delivered /\ hist'.cancelled = hist.cancelled
  BY FailCounted DEF RecordThrows
<1>5. PICK y : y = [x EXCEPT !.pc = "failed"]
  OBVIOUS
<1>6. /\ y \in WorkerState /\ Moves(w, y)
      /\ y.pc = "failed" /\ y.note = n /\ y.todo = x.todo /\ y.targets = x.targets
  BY <1>1, <1>2, <1>5, Types DEF WorkerState, Moves, Goto
<1>7. RowsStay /\ LogsOk'
  BY <1>2, SameRows
<1>8. RefsOf(y)'
  BY <1>1, <1>2, <1>3, <1>6 DEF RefsOf, Delivering, Stored, Busy
<1>9. Shape'
  BY <1>2, <1>4, <1>6, <1>7, <1>8, SameEvents, ShapeOfMove
<1>10. ASSUME Tidy(x)
       PROVE  Tidy(y)'
  <2>1. CallOk(y)'
    BY <1>2, <1>3, <1>6, <1>10 DEF CallOk, Tidy
  <2>2. \A m \in Note : NoteKept(m)
    BY <1>2, <1>4, SameLogs DEF NoteKept
  <2>3. ASSUME NEW m \in Note, m # n
        PROVE  NoteOk(y, m)'
    BY <2>2, <1>1, <1>6, <1>10, <2>3, Elsewhere DEF Tidy, On
  <2>4. Unsent(n)' = Unsent(n) /\ Untouched(n)' = Untouched(n)
    BY <1>3, <2>2, SetsKept
  <2>5. Budget(y, n)'
    <3>1. Waiting(x, n) = 0 /\ Waiting(y, n)' = 0 /\ Recording(x, n) = 1 /\ Recording(y, n)' = 0
      BY <1>1, <1>2, <1>3, <1>6, <1>10, <2>4 DEF Waiting, Recording
    <3>. QED
      BY <3>1, <1>3, <1>4, <1>10, <2>4, Counts DEF NoteOk, Budget
  <2>. QED
    BY <1>3, <1>4, <1>10, <2>1, <2>3, <2>4, <2>5 DEF Tidy, NoteOk, Fresh, Dropped
<1>. QED
  BY <1>6, <1>9, <1>10 DEF TidyMove

LEMMA CountLogsStep ==
  ASSUME Shape, NEW w \in Worker, CountLogs(w), NEW x \in WorkerState, x = worker[w]
  PROVE  Shape' /\ TidyMove(w, x)
<1>1. PICK n : n = x.note
  OBVIOUS
<1>2. /\ x.pc \in {"deliver", "count"} /\ x.targets = {}
      /\ note' = note /\ log' = log /\ event' = event /\ hist' = hist
  BY DEF CountLogs, Shape, RefsOk, RefsOf, Delivering
<1>3. /\ n \in Note /\ Stored(n) /\ RefsOf(x) /\ x.pc \in Busy
      /\ Tidy(x) => /\ NoteOk(x, n) /\ n \notin x.todo
                    /\ ~Untouched(n) /\ n \notin hist.cancelled
  BY <1>1, <1>2, AtWork DEF Busy
<1>4. PICK seen : seen = Statuses(n)
  OBVIOUS
<1>5. PICK y : y = [x EXCEPT !.pc = "total", !.seen = seen]
  OBVIOUS
<1>6. /\ y \in WorkerState /\ Moves(w, y)
      /\ y.pc = "total" /\ y.note = n /\ y.todo = x.todo /\ y.targets = {} /\ y.seen = seen
  <2>1. seen \in SUBSET LogStatus
    BY <1>4 DEF Statuses, LogsOf
  <2>2. worker' = [worker EXCEPT ![w] = y]
    BY <1>1, <1>4, <1>5, Types DEF CountLogs
  <2>. QED
    BY <1>1, <1>2, <1>5, <2>1, <2>2 DEF WorkerState, Moves
<1>7. RowsStay /\ LogsOk'
  BY <1>2, SameRows
<1>8. RefsOf(y)'
  BY <1>2, <1>3, <1>6 DEF RefsOf, Delivering, Stored
<1>9. Shape'
  BY <1>2, <1>6, <1>7, <1>8, SameEvents, SameHist, ShapeOfMove
<1>10. ASSUME Tidy(x)
       PROVE  Tidy(y)'
  <2>1. CallOk(y)'
    BY <1>3, <1>6, <1>10 DEF CallOk
  <2>2. \A m \in Note : NoteKept(m)
    BY <1>2, SameHist, SameLogs DEF NoteKept
  <2>3. ASSUME NEW m \in Note, m # n
        PROVE  NoteOk(y, m)'
    BY <2>2, <1>1, <1>6, <1>10, <2>3, Elsewhere DEF Tidy, On
  <2>4. Unsent(n)' = Unsent(n) /\ Untouched(n)' = Untouched(n)
    BY <1>3, <2>2, SetsKept
  <2>5. Budget(y, n)'
    <3>1. Waiting(x, n) = 0 /\ Waiting(y, n)' = 0 /\ Recording(x, n) = 0 /\ Recording(y, n)' = 0
      BY <1>2, <1>3, <1>6, <1>10, <2>4 DEF Waiting, Recording
    <3>. QED
      BY <3>1, <1>2, <1>3, <1>10, <2>4, Counts DEF NoteOk, Budget
  <2>. QED
    BY <1>2, <1>3, <1>10, <2>1, <2>3, <2>4, <2>5 DEF Tidy, NoteOk, Fresh, Dropped
<1>. QED
  BY <1>6, <1>9, <1>10 DEF TidyMove

LEMMA RestState ==
  ASSUME Shape, NEW w \in Worker, NEW x \in WorkerState, x = worker[w], NEW y, y = Rest(w)
  PROVE  /\ y \in WorkerState /\ y.pc \notin Busy /\ y.note = NoNote
         /\ y.todo = x.todo /\ y.targets = {} /\ (y.pc = "idle" => y = Idle)
BY IdleState DEF Rest, Idle, WorkerState, Busy

(* A total that is written leaves history as it is but for what is stale.   *)
LEMMA WrittenHist ==
  ASSUME Shape, NEW w \in Worker, WriteTotal(w), worker[w].note \in Note
  PROVE  /\ hist' \in HistState /\ hist'.fails = hist.fails
         /\ hist'.fails \in Nat /\ hist'.fails >= hist.fails
         /\ hist'.delivered = hist.delivered /\ hist'.cancelled = hist.cancelled
         /\ hist'.dropped = hist.dropped /\ hist'.raced = hist.raced
         /\ hist'.stale = IF worker[w].seen = Statuses(worker[w].note)
                          THEN hist.stale \ {worker[w].note}
                          ELSE hist.stale \cup {worker[w].note}
<1>1. hist \in HistState /\ hist.fails \in Nat
  BY Types, BoundAssumption DEF HistState
<1>2. PICK st \in SUBSET Note :
        st = IF worker[w].seen = Statuses(worker[w].note)
             THEN hist.stale \ {worker[w].note} ELSE hist.stale \cup {worker[w].note}
  BY <1>1 DEF HistState
<1>3. hist' = [hist EXCEPT !.stale = st]
  BY <1>2 DEF WriteTotal
<1>. QED
  BY <1>1, <1>2, <1>3 DEF HistState

LEMMA WriteTotalStep ==
  ASSUME Shape, NEW w \in Worker, WriteTotal(w), NEW x \in WorkerState, x = worker[w]
  PROVE  Shape' /\ TidyMove(w, x)
<1>1. PICK n : n = x.note
  OBVIOUS
<1>2. x.pc = "total" /\ x.targets = {} /\ log' = log
  BY DEF WriteTotal, Shape, RefsOk, RefsOf, Delivering
<1>3. /\ n \in Note /\ Stored(n) /\ RefsOf(x) /\ x.pc \in Busy
      /\ Tidy(x) => /\ NoteOk(x, n) /\ n \notin x.todo
                    /\ ~Untouched(n) /\ n \notin hist.cancelled
  BY <1>1, <1>2, AtWork DEF Busy
<1>h. /\ hist' \in HistState /\ hist'.fails = hist.fails
      /\ hist'.fails \in Nat /\ hist'.fails >= hist.fails
      /\ hist'.delivered = hist.delivered /\ hist'.cancelled = hist.cancelled
  BY <1>1, <1>3, WrittenHist
<1>4. PICK st \in {"SENT", "FAILED"} :
        st = IF x.seen \cap {"SENT", "PENDING"} # {} THEN "SENT" ELSE "FAILED"
  OBVIOUS
<1>5. /\ RowsStay /\ LogsOk' /\ Stored(n)' /\ note'[n].status = st
      /\ \A m \in Note \ {n} : note'[m] = note[m]
  <2>1. SetNote(n, st)
    BY <1>1, <1>4 DEF WriteTotal, Aggregate
  <2>. QED
    BY <2>1, <1>2, <1>3, NoteSet DEF NotificationStatus
<1>6. PICK y \in WorkerState :
        /\ Moves(w, y)
        /\ y.todo = x.todo /\ y.targets = {}
        /\ y.pc = "idle" => y = Idle
        /\ y.pc = "dispatch" => y.note = NoNote
        /\ y.pc \in Busy => y.pc = "count" /\ y.note = n
  <2>1. CASE x.counts = 2
    <3>1. PICK y : y = [x EXCEPT !.pc = "count", !.counts = 1, !.seen = {}]
      OBVIOUS
    <3>2. y \in WorkerState
      <4>1. PICK one \in 0..2 : one = 1
        OBVIOUS
      <4>2. y = [x EXCEPT !.pc = "count", !.counts = one, !.seen = {}]
        BY <3>1, <4>1
      <4>. QED
        BY <4>2 DEF WorkerState
    <3>3. worker' = [worker EXCEPT ![w] = y]
      BY <2>1, <3>1, Types DEF WriteTotal
    <3>. QED
      BY <1>1, <1>2, <3>1, <3>2, <3>3 DEF Moves, WorkerState
  <2>2. CASE x.counts # 2
    <3>1. Moves(w, Rest(w))
      BY <2>2 DEF WriteTotal, Done, Moves
    <3>2. PICK y : y = Rest(w)
      OBVIOUS
    <3>3. Moves(w, y)
      BY <3>1, <3>2 DEF Moves
    <3>4. y \in WorkerState /\ y.pc \notin Busy /\ y.note = NoNote
          /\ y.todo = x.todo /\ y.targets = {} /\ (y.pc = "idle" => y = Idle)
      BY <3>2, RestState
    <3>. QED
      BY <3>3, <3>4
  <2>. QED
    BY <2>1, <2>2
<1>7. /\ event' \in [Note -> Nat] /\ \A m \in Note \ {n} : event'[m] = event[m]
  BY <1>1, <1>3, Types DEF WriteTotal
<1>8. EventsOk'
  BY <1>5, <1>7 DEF EventsOk, Shape, RefsOk, RowsStay
<1>9. RefsOf(y)'
  BY <1>1, <1>3, <1>5, <1>6 DEF RefsOf, Delivering, RowsStay, WorkerState, Busy
<1>10. Shape'
  BY <1>2, <1>5, <1>6, <1>7, <1>8, <1>9, <1>h, ShapeOfMove
<1>11. ASSUME Tidy(x)
       PROVE  Tidy(y)'
  <2>1. CallOk(y)'
    BY <1>3, <1>6, <1>11 DEF CallOk, Busy
  <2>2. ASSUME NEW m \in Note, m # n
        PROVE  NoteOk(y, m)'
    <3>1. NoteKept(m)
      BY <1>2, <1>5, <1>7, <1>h, <2>2, SameLogs DEF NoteKept
    <3>. QED
      BY <3>1, <1>1, <1>6, <1>11, <2>2, Elsewhere DEF Tidy, On
  <2>3. Unsent(n)' = Unsent(n) /\ LogsOf(n)' = LogsOf(n)
    BY <1>2 DEF Unsent, LogsOf
  <2>4. ~Untouched(n)'
    BY <1>5 DEF Untouched
  <2>5. Budget(y, n)'
    <3>1. Waiting(x, n) = 0 /\ Waiting(y, n)' = 0 /\ Recording(x, n) = 0 /\ Recording(y, n)' = 0
      BY <1>2, <1>3, <1>6, <1>11, <2>4 DEF Waiting, Recording, Busy
    <3>. QED
      BY <3>1, <1>2, <1>3, <1>h, <1>11, <2>3, Counts DEF NoteOk, Budget
  <2>. QED
    BY <1>2, <1>3, <1>h, <1>11, <2>1, <2>2, <2>4, <2>5 DEF Tidy, NoteOk, Fresh, Dropped
<1>. QED
  BY <1>6, <1>10, <1>11 DEF TidyMove

-----------------------------------------------------------------------------
(* The start of a call, and its end *)

LEMMA StartedHist ==
  ASSUME Shape, NEW w \in Worker, hist' = Started(w)
  PROVE  /\ hist' \in HistState /\ hist'.fails = hist.fails
         /\ hist'.fails \in Nat /\ hist'.fails >= hist.fails
         /\ hist'.delivered = hist.delivered /\ hist'.cancelled = hist.cancelled
         /\ hist'.dropped = hist.dropped /\ hist'.stale = hist.stale
         /\ ~hist'.raced => ~hist.raced /\ Alone(w)
<1>1. hist \in HistState /\ hist.fails \in Nat
  BY Types, BoundAssumption DEF HistState
<1>2. PICK raced \in BOOLEAN : raced <=> hist.raced \/ \E u \in Worker \ {w} : worker[u] # Idle
  OBVIOUS
<1>3. (hist.raced \/ \E u \in Worker \ {w} : worker[u] # Idle) \in BOOLEAN
  OBVIOUS
<1>4. raced = (hist.raced \/ \E u \in Worker \ {w} : worker[u] # Idle)
  BY <1>2, <1>3
<1>5. hist' = [hist EXCEPT !.raced = raced]
  BY <1>4 DEF Started
<1>6. hist'.raced = raced
  BY <1>1, <1>5 DEF HistState
<1>. QED
  BY <1>1, <1>2, <1>5, <1>6 DEF HistState, Alone

LEMMA Begun ==
  ASSUME NEW w \in Worker, NEW y, Begin(w, y)
  PROVE  worker[w] = Idle /\ Moves(w, y)
BY DEF Begin, Moves

LEMMA SendNowStep ==
  ASSUME Shape, NEW w \in Worker, NEW n \in Note,
         SendNow(w, n), NEW x \in WorkerState, x = worker[w]
  PROVE  Shape' /\ TidyMove(w, x)
<1>1. PICK y : y = [Idle EXCEPT !.pc = "dispatch", !.todo = {n}]
  OBVIOUS
<1>2. PICK row : row = [status |-> "PENDING", due |-> TRUE]
  OBVIOUS
<1>3. /\ note[n] = Unborn /\ log' = log /\ event' = event
      /\ note' = [note EXCEPT ![n] = row]
      /\ x = Idle /\ Moves(w, y) /\ hist' = Started(w)
  BY <1>1, <1>2, Begun DEF SendNow
<1>4. y \in WorkerState /\ y.pc = "dispatch" /\ y.todo = {n} /\ y.targets = {}
      /\ y.note = NoNote
  BY <1>1, IdleState DEF WorkerState, Idle
<1>5. row \in NoteRow /\ row.status = "PENDING"
  BY <1>2 DEF NoteRow, NotificationStatus
<1>6. /\ RowsStay /\ LogsOk' /\ Stored(n)' /\ note'[n] = row
      /\ \A m \in Note \ {n} : note'[m] = note[m]
  BY <1>3, <1>5, NoteWritten, Types
<1>7. RefsOf(y)'
  BY <1>4, <1>6 DEF RefsOf, Delivering, Busy
<1>8. Shape'
  BY <1>3, <1>4, <1>6, <1>7, SameEvents, StartedHist, ShapeOfMove
<1>9. ASSUME Tidy(x)
      PROVE  Tidy(y)'
  <2>1. CallOk(y)'
    BY <1>4 DEF CallOk, Busy
  <2>2. \A m \in Note : ~On(x, m) /\ ~On(y, m) /\ m \notin x.todo
    BY <1>3, <1>4, IdleState DEF On, Busy
  <2>3. ASSUME NEW m \in Note, m # n
        PROVE  NoteOk(y, m)'
    <3>1. NoteKept(m)
      BY <1>3, <1>6, <2>3, StartedHist, SameLogs DEF NoteKept
    <3>. QED
      BY <3>1, <1>4, <1>9, <2>2, <2>3, Elsewhere DEF Tidy
  <2>4. NoteOk(x, n) /\ ~Stored(n) /\ Untouched(n) /\ ~Untouched(n)'
    BY <1>3, <1>5, <1>6, <1>9 DEF Tidy, Unborn, Stored, NotificationStatus, Untouched
  <2>5. LogsOf(n) = {} /\ LogsOf(n)' = {}
    BY <1>3, <2>4 DEF Shape, RefsOk, LogsOk, LogsOf
  <2>6. n \notin hist.cancelled /\ n \notin hist'.cancelled
    BY <1>3, <2>4, StartedHist DEF NoteOk, Dropped, Stored, NotificationStatus
  <2>7. Budget(y, n)'
    <3>1. Unsent(n)' = Unsent(n)
      BY <2>5 DEF Unsent
    <3>2. Waiting(x, n) = 1 /\ Waiting(y, n)' = 1 /\ Recording(x, n) = 0 /\ Recording(y, n)' = 0
      BY <1>3, <1>4, <2>4, IdleState DEF Waiting, Recording
    <3>. QED
      BY <3>1, <3>2, <1>3, <2>4, Counts, StartedHist DEF NoteOk, Budget
  <2>. QED
    BY <2>1, <2>3, <2>4, <2>6, <2>7 DEF Tidy, NoteOk, Fresh, Dropped
<1>. QED
  BY <1>3, <1>4, <1>8, <1>9 DEF TidyMove

LEMMA TickStep ==
  ASSUME Shape, NEW w \in Worker, Tick(w), NEW x \in WorkerState, x = worker[w]
  PROVE  Shape' /\ TidyMove(w, x)
<1>1. PICK due : due = DueNotes
  OBVIOUS
<1>2. PICK y : y = [Idle EXCEPT !.pc = "dispatch", !.todo = due]
  OBVIOUS
<1>3. /\ note' = note /\ log' = log /\ event' = event
      /\ x = Idle /\ Moves(w, y) /\ hist' = Started(w)
  BY <1>1, <1>2, Begun DEF Tick
<1>4. /\ due \subseteq Note
      /\ \A n \in due : Stored(n) /\ note[n].status = "SCHEDULED"
  BY <1>1 DEF DueNotes, Takes
<1>5. y \in WorkerState /\ y.pc = "dispatch" /\ y.todo = due /\ y.targets = {}
      /\ y.note = NoNote
  BY <1>2, <1>4, IdleState DEF WorkerState, Idle
<1>6. RowsStay /\ LogsOk'
  BY <1>3, SameRows
<1>7. RefsOf(y)'
  BY <1>3, <1>4, <1>5 DEF RefsOf, Delivering, Busy, Stored
<1>8. Shape'
  BY <1>3, <1>5, <1>6, <1>7, SameEvents, StartedHist, ShapeOfMove
<1>9. ASSUME Tidy(x)
      PROVE  Tidy(y)'
  <2>1. CallOk(y)'
    BY <1>5 DEF CallOk, Busy
  <2>2. \A m \in Note : ~On(x, m) /\ ~On(y, m) /\ m \notin x.todo
    BY <1>3, <1>5, IdleState DEF On, Busy
  <2>3. \A m \in Note : NoteKept(m)
    BY <1>3, StartedHist, SameLogs DEF NoteKept
  <2>4. ASSUME NEW n \in Note, n \notin due
        PROVE  NoteOk(y, n)'
    BY <2>3, <1>5, <1>9, <2>2, <2>4, Elsewhere DEF Tidy
  <2>5. ASSUME NEW n \in Note, n \in due
        PROVE  NoteOk(y, n)'
    <3>1. NoteOk(x, n) /\ Untouched(n) /\ Untouched(n)' /\ note[n].status = "SCHEDULED"
      BY <1>3, <1>4, <1>9, <2>5 DEF Tidy, Untouched, Stored
    <3>2. n \notin hist.cancelled /\ n \notin hist'.cancelled
      BY <1>3, <3>1, StartedHist DEF NoteOk, Dropped
    <3>3. Fresh(y, n)'
      BY <2>2, <2>3, <3>1 DEF NoteOk, Fresh, NoteKept, LogsKept, On
    <3>4. Budget(y, n)'
      <4>1. Waiting(x, n) = 1 /\ Waiting(y, n)' = 1 /\ Recording(x, n) = 0 /\ Recording(y, n)' = 0
        BY <1>3, <1>5, <3>1, IdleState DEF Waiting, Recording
      <4>. QED
        BY <4>1, <1>3, <2>3, <3>1, Counts, SetsKept, StartedHist DEF NoteOk, Budget
    <3>. QED
      BY <3>2, <3>3, <3>4 DEF NoteOk, Dropped
  <2>. QED
    BY <2>1, <2>4, <2>5 DEF Tidy
<1>. QED
  BY <1>3, <1>5, <1>8, <1>9 DEF TidyMove

(* A call that stays where it is, and a notification nothing happens to. *)
LEMMA Unmoved ==
  ASSUME Shape, NEW n \in Note, NoteKept(n), hist'.fails = hist.fails, NEW x, NoteOk(x, n)
  PROVE  NoteOk(x, n)'
<1>1. Fresh(x, n)' /\ Dropped(x, n)'
  BY SetsKept DEF NoteOk, Fresh, Dropped, On, NoteKept, LogsKept
<1>2. Budget(x, n)'
  <2>1. Waiting(x, n)' = Waiting(x, n) /\ Recording(x, n)' = Recording(x, n)
    BY SetsKept DEF Waiting, Recording
  <2>. QED
    BY <2>1, SetsKept DEF NoteOk, Budget, NoteKept
<1>. QED
  BY <1>1, <1>2 DEF NoteOk

LEMMA ListenStep ==
  ASSUME Shape, NEW w \in Worker, NEW n \in Note,
         Listen(w, n), NEW x \in WorkerState, x = worker[w]
  PROVE  Shape' /\ TidyMove(w, x)
<1>1. /\ event[n] > 0 /\ note' = note /\ log' = log
      /\ event' = [event EXCEPT ![n] = @ - 1]
      /\ Stored(n) /\ event[n] \in Nat /\ event[n] # 0
  BY Types DEF Listen, Shape, RefsOk, EventsOk
<1>2. /\ event' \in [Note -> Nat] /\ EventsOk'
      /\ \A m \in Note \ {n} : event'[m] = event[m]
  <2>1. event[n] - 1 \in Nat
    BY <1>1
  <2>. QED
    BY <1>1, <2>1, Types DEF EventsOk, Stored, Shape, RefsOk
<1>3. RowsStay /\ LogsOk'
  BY <1>1, SameRows
<1>4. ASSUME Tidy(x)
      PROVE  NoteOk(x, n) /\ ~Untouched(n) /\ n \notin hist.cancelled
  BY <1>1, <1>4 DEF Tidy, NoteOk, Fresh
<1>5. Unsent(n)' = Unsent(n) /\ LogsOf(n)' = LogsOf(n)
      /\ Untouched(n)' = Untouched(n)
  BY <1>1 DEF Unsent, LogsOf, Untouched, Stored
<1>6. CASE note[n].status = "SENT"
  <2>1. PICK y : y = [Idle EXCEPT !.pc = "read", !.note = n]
    OBVIOUS
  <2>2. x = Idle /\ Moves(w, y) /\ hist' = Started(w)
    BY <1>6, <2>1, Begun DEF Listen
  <2>3. y \in WorkerState /\ y.pc = "read" /\ y.note = n /\ y.todo = {} /\ y.targets = {}
    BY <2>1, IdleState DEF WorkerState
  <2>4. RefsOf(y)'
    BY <1>1, <2>3 DEF RefsOf, Delivering, Stored
  <2>5. Shape'
    BY <1>2, <1>3, <2>2, <2>3, <2>4, StartedHist, ShapeOfMove
  <2>6. ASSUME Tidy(x)
        PROVE  Tidy(y)'
    <3>1. CallOk(y)'
      BY <2>3 DEF CallOk
    <3>2. ASSUME NEW m \in Note, m # n
          PROVE  NoteOk(y, m)'
      <4>1. NoteKept(m)
        BY <1>1, <1>2, <2>2, <3>2, StartedHist, SameLogs DEF NoteKept
      <4>. QED
        BY <4>1, <2>2, <2>3, <2>6, <3>2, IdleState, Elsewhere DEF Tidy, On, Busy
    <3>3. Budget(y, n)'
      <4>1. Waiting(x, n) = 0 /\ Waiting(y, n)' = 0 /\ Recording(x, n) = 0 /\ Recording(y, n)' = 0
        BY <1>4, <1>5, <2>2, <2>3, <2>6, IdleState DEF Waiting, Recording
      <4>. QED
        BY <4>1, <1>4, <1>5, <2>2, <2>6, Counts, StartedHist DEF NoteOk, Budget
    <3>. QED
      BY <1>4, <1>5, <2>2, <2>6, <3>1, <3>2, <3>3, StartedHist DEF Tidy, NoteOk, Fresh, Dropped
  <2>. QED
    BY <2>2, <2>3, <2>5, <2>6 DEF TidyMove
<1>7. CASE note[n].status # "SENT"
  <2>1. worker' = worker /\ hist' = hist /\ Moves(w, x)
    BY <1>7, Types DEF Listen, Moves
  <2>2. RefsOf(x) /\ RefsOf(x)'
    BY <1>1 DEF Shape, RefsOk, RefsOf, Stored
  <2>3. Shape'
    BY <1>2, <1>3, <2>1, <2>2, SameHist, ShapeOfMove
  <2>4. ASSUME Tidy(x)
        PROVE  Tidy(x)'
    <3>1. CallOk(x)'
      BY <1>1, <2>4 DEF CallOk, Tidy
    <3>2. ASSUME NEW m \in Note, m # n
          PROVE  NoteOk(x, m)'
      <4>1. NoteKept(m)
        BY <1>1, <1>2, <2>1, <3>2, SameHist, SameLogs DEF NoteKept
      <4>. QED
        BY <4>1, <2>1, <2>4, <3>2, Unmoved DEF Tidy
    <3>3. NoteOk(x, n)'
      <4>1. Fresh(x, n)' /\ Dropped(x, n)'
        BY <1>4, <1>5, <2>1, <2>4 DEF Fresh, Dropped
      <4>2. Budget(x, n)'
        BY <1>4, <1>5, <2>1, <2>4 DEF NoteOk, Budget, Waiting, Recording
      <4>. QED
        BY <4>1, <4>2 DEF NoteOk
    <3>. QED
      BY <3>1, <3>2, <3>3 DEF Tidy
  <2>. QED
    BY <2>1, <2>3, <2>4 DEF TidyMove
<1>. QED
  BY <1>6, <1>7

LEMMA ResentHist ==
  ASSUME Shape, NEW w \in Worker, hist.resends < MaxResend,
         hist' = [Started(w) EXCEPT !.resends = @ + 1]
  PROVE  /\ hist' \in HistState /\ hist'.fails = hist.fails
         /\ hist'.fails \in Nat /\ hist'.fails >= hist.fails
         /\ hist'.delivered = hist.delivered /\ hist'.cancelled = hist.cancelled
         /\ hist'.dropped = hist.dropped /\ hist'.stale = hist.stale
         /\ ~hist'.raced => ~hist.raced /\ Alone(w)
<1>1. hist \in HistState /\ hist.fails \in Nat
  BY Types, BoundAssumption DEF HistState
<1>2. PICK raced \in BOOLEAN : raced <=> hist.raced \/ \E u \in Worker \ {w} : worker[u] # Idle
  OBVIOUS
<1>3. (hist.raced \/ \E u \in Worker \ {w} : worker[u] # Idle) \in BOOLEAN
  OBVIOUS
<1>4. raced = (hist.raced \/ \E u \in Worker \ {w} : worker[u] # Idle)
  BY <1>2, <1>3
<1>5. PICK more \in 0..MaxResend : more = hist.resends + 1
  BY <1>1, BoundAssumption DEF HistState
<1>6. hist' = [hist EXCEPT !.raced = raced, !.resends = more]
  BY <1>1, <1>4, <1>5 DEF Started, HistState
<1>7. /\ hist'.raced = raced /\ hist'.fails = hist.fails
      /\ hist'.delivered = hist.delivered /\ hist'.cancelled = hist.cancelled
      /\ hist'.dropped = hist.dropped /\ hist'.stale = hist.stale
  BY <1>1, <1>6 DEF HistState
<1>8. hist' \in HistState
  BY <1>1, <1>6 DEF HistState
<1>9. ~hist'.raced => ~hist.raced /\ Alone(w)
  BY <1>2, <1>7 DEF Alone
<1>. QED
  BY <1>1, <1>7, <1>8, <1>9

LEMMA ResendStep ==
  ASSUME Shape, NEW w \in Worker, NEW n \in Note,
         Resend(w, n), NEW x \in WorkerState, x = worker[w]
  PROVE  Shape' /\ TidyMove(w, x)
<1>1. PICK targets : targets = Targets(n, "FAILED")
  OBVIOUS
<1>2. PICK y : y = [Idle EXCEPT !.pc = "deliver", !.note = n, !.targets = targets]
  OBVIOUS
<1>3. /\ note' = note /\ log' = log /\ event' = event
      /\ x = Idle /\ Moves(w, y) /\ Stored(n) /\ targets # {}
      /\ hist.resends < MaxResend /\ hist' = [Started(w) EXCEPT !.resends = @ + 1]
  BY <1>1, <1>2, Begun DEF Resend
<1>4. \A l \in targets : l \in LogsOf(n) /\ l \in Log /\ log[l].status = "FAILED"
  BY <1>1 DEF Targets, LogsOf
<1>5. y \in WorkerState /\ y.pc = "deliver" /\ y.note = n /\ y.todo = {} /\ y.targets = targets
  BY <1>2, <1>4, IdleState DEF WorkerState
<1>6. RowsStay /\ LogsOk'
  BY <1>3, SameRows
<1>7. RefsOf(y)'
  BY <1>3, <1>4, <1>5 DEF RefsOf, Delivering, Stored, LogsOf
<1>8. Shape'
  BY <1>3, <1>5, <1>6, <1>7, SameEvents, ResentHist, ShapeOfMove
<1>9. ASSUME Tidy(x)
      PROVE  Tidy(y)'
  <2>1. CallOk(y)'
    BY <1>3, <1>4, <1>5 DEF CallOk
  <2>2. \A m \in Note : NoteKept(m)
    BY <1>3, ResentHist, SameLogs DEF NoteKept
  <2>3. ASSUME NEW m \in Note, m # n
        PROVE  NoteOk(y, m)'
    BY <2>2, <1>3, <1>5, <1>9, <2>3, IdleState, Elsewhere DEF Tidy, On, Busy
  <2>4. NoteOk(x, n) /\ ~Untouched(n) /\ n \notin hist.cancelled
    BY <1>3, <1>4, <1>9 DEF Tidy, NoteOk, Fresh
  <2>5. ~On(x, n) /\ n \notin x.todo
    BY <1>3, IdleState DEF On, Busy
  <2>6. Budget(y, n)'
    <3>1. Waiting(x, n) = 0 /\ Waiting(y, n)' = 0 /\ Recording(x, n) = 0 /\ Recording(y, n)' = 0
      BY <1>3, <1>5, <2>2, <2>4, SetsKept, IdleState DEF Waiting, Recording
    <3>. QED
      BY <3>1, <1>3, <2>2, <2>4, SetsKept, Counts, ResentHist DEF NoteOk, Budget
  <2>. QED
    BY <1>3, <2>1, <2>2, <2>3, <2>4, <2>6, SetsKept, ResentHist DEF Tidy, NoteOk, Fresh, Dropped
<1>. QED
  BY <1>3, <1>5, <1>8, <1>9 DEF TidyMove

LEMMA StartCancelStep ==
  ASSUME Shape, NEW w \in Worker, NEW n \in Note,
         StartCancel(w, n), NEW x \in WorkerState, x = worker[w]
  PROVE  Shape' /\ TidyMove(w, x)
<1>1. PICK y : y = [Idle EXCEPT !.pc = "cancel", !.note = n]
  OBVIOUS
<1>2. /\ note' = note /\ log' = log /\ event' = event
      /\ x = Idle /\ Moves(w, y) /\ hist' = Started(w) /\ note[n].status = "SCHEDULED"
  BY <1>1, Begun DEF StartCancel
<1>3. y \in WorkerState /\ y.pc = "cancel" /\ y.note = n /\ y.todo = {} /\ y.targets = {}
  BY <1>1, IdleState DEF WorkerState
<1>4. RowsStay /\ LogsOk'
  BY <1>2, SameRows
<1>5. RefsOf(y)'
  BY <1>2, <1>3 DEF RefsOf, Delivering, Stored, NotificationStatus
<1>6. Shape'
  BY <1>2, <1>3, <1>4, <1>5, SameEvents, StartedHist, ShapeOfMove
<1>7. ASSUME Tidy(x)
      PROVE  Tidy(y)'
  <2>1. CallOk(y)'
    BY <1>2, <1>3 DEF CallOk
  <2>2. \A m \in Note : NoteKept(m)
    BY <1>2, StartedHist, SameLogs DEF NoteKept
  <2>3. ASSUME NEW m \in Note, m # n
        PROVE  NoteOk(y, m)'
    BY <2>2, <1>2, <1>3, <1>7, <2>3, IdleState, Elsewhere DEF Tidy, On, Busy
  <2>4. NoteOk(x, n) /\ Untouched(n) /\ n \notin hist.cancelled
    BY <1>2, <1>7 DEF Tidy, NoteOk, Dropped, Untouched
  <2>5. Untouched(n)' = Untouched(n) /\ Unsent(n)' = Unsent(n)
    BY <2>2, SetsKept
  <2>6. Fresh(y, n)'
    BY <1>3, <2>2, <2>4 DEF NoteOk, Fresh, NoteKept, LogsKept, On
  <2>7. Budget(y, n)'
    <3>1. Waiting(x, n) = 1 /\ Waiting(y, n)' = 1 /\ Recording(x, n) = 0 /\ Recording(y, n)' = 0
      BY <1>2, <1>3, <2>4, <2>5, IdleState DEF Waiting, Recording
    <3>. QED
      BY <3>1, <1>2, <2>4, <2>5, Counts, StartedHist DEF NoteOk, Budget
  <2>. QED
    BY <1>2, <2>1, <2>3, <2>4, <2>6, <2>7, StartedHist DEF Tidy, NoteOk, Dropped
<1>. QED
  BY <1>2, <1>3, <1>6, <1>7 DEF TidyMove

LEMMA CommitCancelStep ==
  ASSUME Shape, NEW w \in Worker, CommitCancel(w), NEW x \in WorkerState, x = worker[w]
  PROVE  Shape' /\ TidyMove(w, x)
<1>1. PICK n : n = x.note
  OBVIOUS
<1>2. PICK y : y = Rest(w)
  OBVIOUS
<1>3. /\ x.pc = "cancel" /\ SetNote(n, "FAILED") /\ log' = log /\ event' = event
      /\ hist' = [hist EXCEPT !.cancelled = @ \cup {n}]
      /\ n \in Note /\ Stored(n) /\ RefsOf(x) /\ On(x, n)
  BY <1>1 DEF CommitCancel, Shape, RefsOk, RefsOf, Busy, On
<1>4. /\ y \in WorkerState /\ Moves(w, y) /\ y.pc \notin Busy /\ y.note = NoNote
      /\ y.todo = x.todo /\ y.targets = {}
      /\ y.pc = "idle" => y = Idle
  BY <1>2, RestState DEF CommitCancel, Done, Moves
<1>5. /\ hist' \in HistState /\ hist'.fails = hist.fails /\ hist'.fails \in Nat
      /\ hist'.fails >= hist.fails /\ hist'.delivered = hist.delivered
      /\ hist'.cancelled = hist.cancelled \cup {n}
  BY <1>3, Types, BoundAssumption DEF HistState
<1>6. /\ RowsStay /\ LogsOk' /\ Stored(n)' /\ note'[n].status = "FAILED"
      /\ \A m \in Note \ {n} : note'[m] = note[m]
  BY <1>3, NoteSet DEF NotificationStatus
<1>7. RefsOf(y)'
  BY <1>3, <1>4, <1>6 DEF RefsOf, Delivering, RowsStay, WorkerState, Busy
<1>8. Shape'
  BY <1>3, <1>4, <1>5, <1>6, <1>7, SameEvents, ShapeOfMove
<1>9. ASSUME Tidy(x)
      PROVE  Tidy(y)'
  <2>1. NoteOk(x, n) /\ x.todo = {} /\ Untouched(n)
    BY <1>1, <1>3, <1>9 DEF Tidy, CallOk, Untouched
  <2>2. CallOk(y)'
    BY <1>4 DEF CallOk, Busy
  <2>3. ASSUME NEW m \in Note, m # n
        PROVE  NoteOk(y, m)'
    <3>1. NoteKept(m)
      BY <1>3, <1>5, <1>6, <2>3, SameLogs DEF NoteKept
    <3>2. ~On(x, m) /\ ~On(y, m)
      BY <1>1, <1>4, <2>3 DEF On
    <3>. QED
      BY <3>1, <3>2, <1>4, <1>9, Elsewhere DEF Tidy
  <2>4. Unsent(n)' = Unsent(n) /\ LogsOf(n)' = LogsOf(n) /\ ~Untouched(n)'
    BY <1>3, <1>6 DEF Unsent, LogsOf, Untouched
  <2>5. Fresh(y, n)'
    <3>1. \A l \in LogsOf(n)' : log'[l] = log[l]
      BY <1>3
    <3>2. ~On(y, n)
      BY <1>4 DEF On
    <3>. QED
      BY <3>1, <3>2, <1>3, <1>5, <2>1, <2>4 DEF NoteOk, Fresh, On
  <2>6. Dropped(y, n)'
    BY <1>4, <1>6, <2>1 DEF Dropped, On
  <2>7. Budget(y, n)'
    <3>1. Waiting(x, n) = 1 /\ Waiting(y, n)' = 0 /\ Recording(x, n) = 0 /\ Recording(y, n)' = 0
      BY <1>3, <1>4, <2>1, <2>4 DEF Waiting, Recording, Busy
    <3>. QED
      BY <3>1, <1>3, <1>5, <2>1, <2>4, Counts DEF NoteOk, Budget
  <2>. QED
    BY <2>2, <2>3, <2>5, <2>6, <2>7 DEF Tidy, NoteOk
<1>. QED
  BY <1>4, <1>8, <1>9 DEF TidyMove

LEMMA FailStep ==
  ASSUME Shape, NEW w \in Worker, Fail(w), NEW x \in WorkerState, x = worker[w]
  PROVE  Shape' /\ TidyMove(w, x)
<1>1. PICK y : y = Idle
  OBVIOUS
<1>2. note' = note /\ log' = log /\ event' = event /\ Moves(w, y)
  BY <1>1 DEF Fail, Moves
<1>3. /\ hist' \in HistState /\ hist'.fails = hist.fails + 1
      /\ hist'.fails \in Nat /\ hist'.fails >= hist.fails /\ hist'.fails # 0
      /\ hist'.delivered = hist.delivered /\ hist'.cancelled = hist.cancelled
  BY FailDrops
<1>4. y \in WorkerState /\ y.pc = "idle" /\ y.todo = {} /\ y.targets = {}
  BY <1>1, IdleState
<1>5. RowsStay /\ LogsOk'
  BY <1>2, SameRows
<1>6. RefsOf(y)'
  BY <1>1, <1>4 DEF RefsOf, Busy
<1>7. Shape'
  BY <1>2, <1>3, <1>4, <1>5, <1>6, SameEvents, ShapeOfMove
<1>8. ASSUME Tidy(x)
      PROVE  Tidy(y)'
  <2>1. CallOk(y)'
    BY <1>4 DEF CallOk, Busy
  <2>2. ASSUME NEW n \in Note
        PROVE  NoteOk(y, n)'
    <3>1. NoteKept(n) /\ NoteOk(x, n)
      BY <1>2, <1>3, <1>8, SameLogs DEF NoteKept, Tidy
    <3>2. Fresh(y, n)' /\ Dropped(y, n)'
      BY <3>1, <1>4, SetsKept DEF NoteOk, Fresh, Dropped, NoteKept, LogsKept, On, Busy
    <3>3. Budget(y, n)'
      <4>1. /\ Waiting(y, n)' \in {0, 1} /\ Waiting(x, n) \in {0, 1} /\ Recording(x, n) \in {0, 1}
            /\ Recording(y, n)' = 0
            /\ Recording(x, n) = 1 => Waiting(y, n)' <= Waiting(x, n)
        BY <1>4, <3>1, SetsKept DEF Waiting, Recording
      <4>. QED
        BY <4>1, <3>1, <1>3, SetsKept, Counts DEF NoteOk, Budget
    <3>. QED
      BY <3>2, <3>3 DEF NoteOk
  <2>. QED
    BY <2>1, <2>2 DEF Tidy
<1>. QED
  BY <1>2, <1>4, <1>7, <1>8 DEF TidyMove

(* A notification is scheduled, or its date goes by: no call moves. *)
LEMMA ScheduleStep ==
  ASSUME Shape, NEW n \in Note,
         Schedule(n), NEW w \in Worker, NEW x \in WorkerState, x = worker[w]
  PROVE  Shape' /\ TidyMove(w, x)
<1>1. PICK row : row = [status |-> "SCHEDULED", due |-> FALSE]
  OBVIOUS
<1>2. /\ note[n] = Unborn /\ note' = [note EXCEPT ![n] = row]
      /\ log' = log /\ event' = event /\ hist' = hist /\ Moves(w, x)
  BY <1>1, Types DEF Schedule, Moves
<1>3. row \in NoteRow /\ row.status = "SCHEDULED"
  BY <1>1 DEF NoteRow, NotificationStatus
<1>4. /\ RowsStay /\ LogsOk' /\ Stored(n)' /\ note'[n] = row
      /\ \A m \in Note \ {n} : note'[m] = note[m]
  BY <1>2, <1>3, NoteWritten, Types
<1>5. RefsOf(x) /\ ~Stored(n) /\ ~On(x, n) /\ n \notin x.todo
  BY <1>2 DEF Shape, RefsOk, RefsOf, On, Stored, Unborn, NotificationStatus
<1>6. RefsOf(x)'
  BY <1>2, <1>4, <1>5 DEF RefsOf, RowsStay, WorkerState
<1>7. Shape'
  BY <1>2, <1>4, <1>6, SameEvents, SameHist, ShapeOfMove
<1>8. ASSUME Tidy(x)
      PROVE  Tidy(x)'
  <2>1. CallOk(x)'
    BY <1>2, <1>4, <1>5, <1>8 DEF Tidy, CallOk, RefsOf, On, Busy
  <2>2. ASSUME NEW m \in Note, m # n
        PROVE  NoteOk(x, m)'
    <3>1. NoteKept(m)
      BY <1>2, <1>4, <2>2, SameHist, SameLogs DEF NoteKept
    <3>. QED
      BY <3>1, <1>2, <1>8, Unmoved DEF Tidy
  <2>3. NoteOk(x, n) /\ Untouched(n) /\ Untouched(n)' /\ n \notin hist.cancelled
    BY <1>2, <1>3, <1>4, <1>5, <1>8 DEF Tidy, NoteOk, Dropped, Untouched, Stored, NotificationStatus
  <2>4. LogsOf(n) = {} /\ LogsOf(n)' = {}
    BY <1>2, <1>5 DEF Shape, RefsOk, LogsOk, LogsOf
  <2>5. NoteOk(x, n)'
    <3>1. Fresh(x, n)' /\ Dropped(x, n)'
      BY <1>2, <1>5, <2>3, <2>4 DEF NoteOk, Fresh, Dropped, On
    <3>2. Budget(x, n)'
      <4>1. Unsent(n)' = Unsent(n)
        BY <2>4 DEF Unsent
      <4>2. Waiting(x, n)' = Waiting(x, n) /\ Recording(x, n)' = Recording(x, n)
        BY <2>3 DEF Waiting, Recording
      <4>. QED
        BY <4>1, <4>2, <1>2, <2>3 DEF NoteOk, Budget
    <3>. QED
      BY <3>1, <3>2 DEF NoteOk
  <2>. QED
    BY <2>1, <2>2, <2>5 DEF Tidy
<1>. QED
  BY <1>2, <1>7, <1>8 DEF TidyMove

LEMMA BecomeDueStep ==
  ASSUME Shape, NEW n \in Note,
         BecomeDue(n), NEW w \in Worker, NEW x \in WorkerState, x = worker[w]
  PROVE  Shape' /\ TidyMove(w, x)
<1>1. PICK row : row = [note[n] EXCEPT !.due = TRUE]
  OBVIOUS
<1>2. /\ note' = [note EXCEPT ![n] = row]
      /\ log' = log /\ event' = event /\ hist' = hist /\ Moves(w, x)
  BY <1>1, Types DEF BecomeDue, Moves
<1>3. row \in NoteRow /\ row.status = note[n].status
  BY <1>1, StoredRow DEF NoteRow, BecomeDue
<1>4. /\ RowsStay /\ LogsOk' /\ Stored(n)' /\ note'[n] = row
      /\ \A m \in Note : note'[m].status = note[m].status
  BY <1>2, <1>3, NoteWritten, Types
<1>5. RefsOf(x) /\ RefsOf(x)'
  BY <1>2, <1>4 DEF Shape, RefsOk, RefsOf, RowsStay, WorkerState
<1>6. Shape'
  BY <1>2, <1>4, <1>5, SameEvents, SameHist, ShapeOfMove
<1>7. ASSUME Tidy(x)
      PROVE  Tidy(x)'
  <2>1. CallOk(x)'
    BY <1>2, <1>4, <1>5, <1>7 DEF Tidy, CallOk, RefsOf, Busy
  <2>2. \A m \in Note : NoteKept(m)
    BY <1>2, <1>4, SameHist, SameLogs DEF NoteKept
  <2>. QED
    BY <2>1, <2>2, <1>2, <1>7, Unmoved DEF Tidy
<1>. QED
  BY <1>2, <1>6, <1>7 DEF TidyMove

-----------------------------------------------------------------------------
(* The invariant *)

LEMMA InitKeeps == Init => IInv
<1>. SUFFICES ASSUME Init PROVE IInv
  OBVIOUS
<1>1. hist \in HistState /\ hist.fails = 0 /\ hist.cancelled = {}
      /\ \A n \in Note : hist.delivered[n] = 0
  <2>1. 0 \in 0..MaxFail /\ 0 \in 0..MaxResend
    BY BoundAssumption
  <2>. QED
    BY <2>1 DEF Init, HistState
<1>2. TypeOK
  BY <1>1, IdleState DEF Init, TypeOK, HistState
<1>3. \A w \in Worker : worker[w] = Idle
  BY DEF Init
<1>4. \A n \in Note : ~Stored(n) /\ Untouched(n) /\ event[n] = 0
  BY DEF Init, Unborn, Stored, NotificationStatus, Untouched
<1>5. \A l \in Log : log[l].status \notin LogStatus
  BY DEF Init, Unborn, LogStatus
<1>6. RefsOf(Idle)
  BY IdleState DEF RefsOf, Busy
<1>7. Shape
  BY <1>2, <1>3, <1>4, <1>5, <1>6 DEF Shape, RefsOk, LogsOk, EventsOk
<1>8. CallOk(Idle)
  BY IdleState DEF CallOk, Busy
<1>9. ASSUME NEW n \in Note
      PROVE  NoteOk(Idle, n)
  <2>1. LogsOf(n) = {}
    BY <1>5 DEF LogsOf
  <2>2. Unsent(n) = {} /\ ~On(Idle, n) /\ n \notin Idle.todo
    BY <2>1, IdleState DEF Unsent, On, Busy
  <2>3. Fresh(Idle, n) /\ Dropped(Idle, n)
    BY <1>1, <1>4, <2>1, <2>2 DEF Fresh, Dropped
  <2>4. Budget(Idle, n)
    <3>1. Waiting(Idle, n) = 1 /\ Recording(Idle, n) = 0
      BY <1>4, IdleState DEF Waiting, Recording
    <3>2. Cardinality(Unsent(n)) = 0
      BY <2>2, FS_EmptySet
    <3>. QED
      BY <3>1, <3>2, <1>1 DEF Budget
  <2>. QED
    BY <2>3, <2>4 DEF NoteOk
<1>10. PICK w \in Worker : TRUE
  BY WorkerAssumption
<1>. QED
  BY <1>3, <1>7, <1>8, <1>9, <1>10 DEF IInv, Alone, Tidy

LEMMA SoloMove ==
  ASSUME IInv, NEW w \in Worker, Shape', TidyMove(w, worker[w]),
         ~hist'.raced => ~hist.raced /\ Alone(w) /\ Tidy(worker[w])
  PROVE  IInv'
<1>1. PICK y \in WorkerState : Moves(w, y) /\ (Tidy(worker[w]) => Tidy(y)')
  BY DEF TidyMove
<1>2. worker'[w] = y /\ \A u \in Worker \ {w} : worker'[u] = worker[u]
  BY <1>1, Types DEF Moves, IInv
<1>3. ASSUME ~hist'.raced
      PROVE  Alone(w)' /\ Tidy(worker[w])'
  <2>1. Alone(w)'
    BY <1>2, <1>3 DEF Alone
  <2>2. Tidy(y)'
    BY <1>1, <1>3
  <2>. QED
    BY <1>2, <2>1, <2>2
<1>. QED
  BY <1>3 DEF IInv

(* A call that starts does so alone, or calls have overlapped. *)
LEMMA SoloStart ==
  ASSUME IInv, NEW w \in Worker, Shape', TidyMove(w, worker[w]), worker[w] = Idle,
         ~hist'.raced => ~hist.raced /\ Alone(w)
  PROVE  IInv'
<1>1. ASSUME ~hist'.raced
      PROVE  Tidy(worker[w])
  <2>1. PICK u \in Worker : Alone(u) /\ Tidy(worker[u])
    BY <1>1 DEF IInv
  <2>2. worker[u] = worker[w]
    BY <1>1 DEF Alone
  <2>. QED
    BY <2>1, <2>2
<1>. QED
  BY <1>1, SoloMove

(* A call that goes on is the only one, or calls have overlapped. *)
LEMMA SoloGoesOn ==
  ASSUME IInv, NEW w \in Worker, Shape', TidyMove(w, worker[w]), worker[w] # Idle,
         hist'.raced = hist.raced
  PROVE  IInv'
<1>1. ASSUME ~hist'.raced
      PROVE  ~hist.raced /\ Alone(w) /\ Tidy(worker[w])
  <2>1. PICK u \in Worker : Alone(u) /\ Tidy(worker[u])
    BY <1>1 DEF IInv
  <2>2. u = w
    BY <2>1 DEF Alone
  <2>. QED
    BY <1>1, <2>1, <2>2
<1>. QED
  BY <1>1, SoloMove

LEMMA ProceedKeeps ==
  ASSUME IInv, NEW w \in Worker, Proceed(w) \/ RecordThrows(w) \/ Fail(w)
  PROVE  IInv'
<1>1. Shape /\ hist \in HistState
  BY Types DEF IInv
<1>2. PICK x \in WorkerState : x = worker[w]
  BY <1>1, Types
<1>3. worker[w] # Idle /\ hist'.raced = hist.raced
  <2>1. worker[w] # Idle
    BY IdleState DEF Proceed, CreateLogs, MarkPending, ReadLogs, Provider, RecordLog, CountLogs,
                     WriteTotal, CommitCancel, RecordThrows, Fail
  <2>2. hist'.raced = hist.raced
    BY <1>1 DEF HistState, Proceed, CreateLogs, MarkPending, ReadLogs, Provider, RecordLog,
                CountLogs, WriteTotal, CommitCancel, RecordThrows, Fail
  <2>. QED
    BY <2>1, <2>2
<1>4. Shape' /\ TidyMove(w, x)
  BY <1>1, <1>2, CreateLogsStep, MarkPendingStep, ReadLogsStep, ProviderStep, RecordLogStep,
     CountLogsStep, WriteTotalStep, CommitCancelStep, RecordThrowsStep, FailStep DEF Proceed
<1>5. TidyMove(w, worker[w])
  BY <1>2, <1>4
<1>. QED
  BY <1>3, <1>4, <1>5, SoloGoesOn

LEMMA StartKeeps ==
  ASSUME IInv, NEW w \in Worker,
         Tick(w) \/ \E n \in Note : SendNow(w, n) \/ Resend(w, n) \/ StartCancel(w, n)
  PROVE  IInv'
<1>1. Shape
  BY DEF IInv
<1>2. PICK x \in WorkerState : x = worker[w]
  BY <1>1, Types
<1>3. worker[w] = Idle
  BY DEF Tick, SendNow, Resend, StartCancel, Begin
<1>4. ~hist'.raced => ~hist.raced /\ Alone(w)
  BY <1>1, StartedHist, ResentHist DEF Tick, SendNow, Resend, StartCancel
<1>5. Shape' /\ TidyMove(w, x)
  BY <1>1, <1>2, TickStep, SendNowStep, ResendStep, StartCancelStep
<1>6. TidyMove(w, worker[w])
  BY <1>2, <1>5
<1>. QED
  BY <1>3, <1>4, <1>5, <1>6, SoloStart

LEMMA ListenKeeps ==
  ASSUME IInv, NEW w \in Worker, NEW n \in Note, Listen(w, n)
  PROVE  IInv'
<1>1. Shape
  BY DEF IInv
<1>2. CASE note[n].status = "SENT"
  <2>1. PICK x \in WorkerState : x = worker[w]
    BY <1>1, Types
  <2>2. Shape' /\ TidyMove(w, x)
    BY <1>1, <2>1, ListenStep
  <2>3. worker[w] = Idle /\ (~hist'.raced => ~hist.raced /\ Alone(w))
    BY <1>1, <1>2, StartedHist DEF Listen, Begin
  <2>4. TidyMove(w, worker[w])
    BY <2>1, <2>2
  <2>. QED
    BY <2>2, <2>3, <2>4, SoloStart
<1>3. CASE note[n].status # "SENT"
  <2>1. hist' = hist /\ \A u \in Worker : Listen(u, n)
    BY <1>3 DEF Listen
  <2>2. PICK u \in Worker : ~hist.raced => Alone(u) /\ Tidy(worker[u])
    BY WorkerAssumption DEF IInv
  <2>3. PICK x \in WorkerState : x = worker[u]
    BY <1>1, Types
  <2>4. Shape' /\ TidyMove(u, x)
    BY <1>1, <2>1, <2>3, ListenStep
  <2>5. TidyMove(u, worker[u])
    BY <2>3, <2>4
  <2>. QED
    BY <2>1, <2>2, <2>4, <2>5, SoloMove
<1>. QED
  BY <1>2, <1>3

LEMMA OutsideKeeps ==
  ASSUME IInv, NEW n \in Note, Schedule(n) \/ BecomeDue(n)
  PROVE  IInv'
<1>1. Shape /\ hist' = hist
  BY DEF IInv, Schedule, BecomeDue
<1>2. PICK u \in Worker : ~hist.raced => Alone(u) /\ Tidy(worker[u])
  BY WorkerAssumption DEF IInv
<1>3. PICK x \in WorkerState : x = worker[u]
  BY <1>1, Types
<1>4. Shape' /\ TidyMove(u, x)
  BY <1>1, <1>3, ScheduleStep, BecomeDueStep
<1>5. TidyMove(u, worker[u])
  BY <1>3, <1>4
<1>. QED
  BY <1>1, <1>2, <1>4, <1>5, SoloMove

LEMMA StutterKeeps ==
  ASSUME IInv, UNCHANGED vars
  PROVE  IInv'
<1>1. /\ Shape /\ note' = note /\ log' = log /\ worker' = worker
      /\ event' = event /\ hist' = hist
  BY DEF IInv, vars
<1>2. PICK u \in Worker : ~hist.raced => Alone(u) /\ Tidy(worker[u])
  BY WorkerAssumption DEF IInv
<1>3. PICK x \in WorkerState : x = worker[u] /\ RefsOf(x)
  BY <1>1, Types DEF Shape, RefsOk
<1>4. Moves(u, x) /\ RowsStay /\ LogsOk'
  BY <1>1, <1>3, SameRows, Types DEF Moves
<1>5. RefsOf(x)'
  BY <1>1, <1>3 DEF RefsOf, Stored
<1>6. Shape'
  BY <1>1, <1>4, <1>5, SameEvents, SameHist, ShapeOfMove
<1>7. ASSUME Tidy(x)
      PROVE  Tidy(x)'
  <2>1. CallOk(x)'
    BY <1>1, <1>7 DEF Tidy, CallOk
  <2>2. \A n \in Note : NoteKept(n)
    BY <1>1, SameHist, SameLogs DEF NoteKept
  <2>. QED
    BY <2>1, <2>2, <1>1, <1>7, Unmoved DEF Tidy
<1>8. TidyMove(u, worker[u])
  BY <1>3, <1>4, <1>7 DEF TidyMove
<1>. QED
  BY <1>1, <1>2, <1>6, <1>8, SoloMove

LEMMA StepKeeps == IInv /\ [Next]_vars => IInv'
BY ProceedKeeps, StartKeeps, ListenKeeps, OutsideKeeps, StutterKeeps DEF Next

LEMMA Invariance == Spec => []IInv
BY InitKeeps, StepKeeps, PTL DEF Spec

-----------------------------------------------------------------------------
(* Notifications and their logs, however calls overlap                      *)

HandsOf(x) == x.todo \cup {n \in Note : x.note = n /\ x.pc # "cancel"}

(* The call x has logs of n before it, will deliver the log l, will read    *)
(* the logs of n again before it writes the last total.                     *)
Working(x, n) == x.note = n /\ x.pc \in Busy \ {"cancel"}

Will(x, n, l) ==
  x.note = n /\ (x.pc \in {"mark", "read"} \/ (x.pc \in Delivering /\ l \in x.targets))

Owing(x, n) ==
  /\ x.note = n
  /\ \/ x.pc \in {"mark", "read", "deliver", "record", "failed", "count"}
     \/ x.pc = "total" /\ (x.counts = 2 \/ x.seen = Statuses(n))

HasLogs(n) ==
  note[n].status = "SENT" \/ (\E w \in Worker : Working(worker[w], n)) => LogsOf(n) # {}

Handed(n) == note[n].status = "PENDING" => \E w \in Worker : n \in HandsOf(worker[w])

Tended(n) ==
  \A l \in LogsOf(n) : log[l].status = "PENDING" => \E w \in Worker : Will(worker[w], n, l)

Summed(n) ==
  n \notin hist.stale \cup hist.cancelled /\ LogsOf(n) # {} =>
    note[n].status = Aggregate(Statuses(n)) \/ \E w \in Worker : Owing(worker[w], n)

SumOk(n) == HasLogs(n) /\ (n \notin hist.dropped => Handed(n) /\ Tended(n) /\ Summed(n))

(* What a step owes to every notification. *)
NoteStep(n) ==
  /\ SumOk(n) => SumOk(n)'
  /\ CancelledUnsent(n) => CancelledUnsent(n)' /\ hist'.delivered[n] = hist.delivered[n]

(* A step that leaves alone the status of n, its logs and its history.      *)
Still(n) ==
  /\ note'[n].status = note[n].status
  /\ LogsKept(n)
  /\ n \in hist.dropped => n \in hist'.dropped
  /\ n \in hist'.stale <=> n \in hist.stale
  /\ n \in hist'.cancelled <=> n \in hist.cancelled

(* What the call x has to do about n is what y has to do. *)
Handover(x, y, n) ==
  /\ n \in HandsOf(x) => n \in HandsOf(y)
  /\ \A l \in LogsOf(n) : log[l].status = "PENDING" /\ Will(x, n, l) => Will(y, n, l)
  /\ Owing(x, n) => Owing(y, n)

LEMMA StatusesKept ==
  ASSUME NEW n \in Note, LogsKept(n)
  PROVE  Statuses(n)' = Statuses(n) /\ LogsOf(n)' = LogsOf(n)
BY DEF LogsKept, Statuses

LEMMA CallMoved ==
  ASSUME Shape, NEW w \in Worker, NEW y, Moves(w, y)
  PROVE  worker'[w] = y /\ \A u \in Worker \ {w} : worker'[u] = worker[u]
BY Types DEF Moves

LEMMA SumStill ==
  ASSUME Shape, NEW w \in Worker, NEW x \in WorkerState, x = worker[w],
         NEW y \in WorkerState, Moves(w, y), NEW n \in Note, Still(n),
         Working(y, n) => Working(x, n) \/ LogsOf(n) # {},
         n \notin hist'.dropped => Handover(x, y, n),
         SumOk(n)
  PROVE  SumOk(n)'
<1>1. worker'[w] = y /\ \A u \in Worker \ {w} : worker'[u] = worker[u]
  BY CallMoved
<1>2. Statuses(n)' = Statuses(n) /\ LogsOf(n)' = LogsOf(n)
  BY StatusesKept DEF Still
<1>3. HasLogs(n)'
  BY <1>1, <1>2 DEF SumOk, HasLogs, Still, Working
<1>4. ASSUME n \notin hist'.dropped
      PROVE  Handed(n)' /\ Tended(n)' /\ Summed(n)'
  <2>1. n \notin hist.dropped /\ Handed(n) /\ Tended(n) /\ Summed(n) /\ Handover(x, y, n)
    BY <1>4 DEF SumOk, Still
  <2>2. Handed(n)'
    BY <1>1, <2>1 DEF Handed, Handover, Still, HandsOf
  <2>3. ASSUME NEW l \in LogsOf(n), log[l].status = "PENDING"
        PROVE  \E u \in Worker : Will(worker'[u], n, l)
    <3>1. PICK u \in Worker : Will(worker[u], n, l)
      BY <2>1, <2>3 DEF Tended
    <3>2. CASE u = w
      BY <1>1, <2>1, <2>3, <3>1, <3>2 DEF Handover
    <3>3. CASE u # w
      BY <1>1, <3>1, <3>3
    <3>. QED
      BY <3>2, <3>3
  <2>4. Tended(n)'
    BY <1>2, <2>3 DEF Tended, Still, LogsKept, Will
  <2>5. Summed(n)'
    BY <1>1, <1>2, <2>1 DEF Summed, Handover, Still, Owing
  <2>. QED
    BY <2>2, <2>4, <2>5
<1>. QED
  BY <1>3, <1>4 DEF SumOk

LEMMA UnsentStill ==
  ASSUME Shape, NEW w \in Worker, NEW x \in WorkerState, x = worker[w],
         NEW y \in WorkerState, Moves(w, y), NEW n \in Note, Still(n),
         n \in HandsOf(y) => n \in HandsOf(x) \/ note[n].status # "FAILED" \/ LogsOf(n) # {},
         n \in HandsOf(x) \/ hist'.delivered[n] = hist.delivered[n],
         CancelledUnsent(n)
  PROVE  CancelledUnsent(n)' /\ hist'.delivered[n] = hist.delivered[n]
<1>1. worker'[w] = y /\ \A u \in Worker \ {w} : worker'[u] = worker[u]
  BY CallMoved
<1>2. LogsOf(n)' = LogsOf(n)
  BY StatusesKept DEF Still
<1>3. \A u \in Worker : n \notin HandsOf(worker[u])
  BY DEF CancelledUnsent, Hands, HandsOf
<1>4. \A u \in Worker : n \notin HandsOf(worker'[u])
  BY <1>1, <1>3 DEF CancelledUnsent
<1>5. \A u \in Worker : n \notin Hands(u)'
  BY <1>4 DEF Hands, HandsOf
<1>. QED
  BY <1>2, <1>3, <1>5 DEF CancelledUnsent, Still

LEMMA NoteStill ==
  ASSUME Shape, NEW w \in Worker, NEW x \in WorkerState, x = worker[w],
         NEW y \in WorkerState, Moves(w, y), NEW n \in Note, Still(n),
         Working(y, n) => Working(x, n) \/ LogsOf(n) # {},
         n \notin hist'.dropped => Handover(x, y, n),
         n \in HandsOf(y) => n \in HandsOf(x) \/ note[n].status # "FAILED" \/ LogsOf(n) # {},
         n \in HandsOf(x) \/ hist'.delivered[n] = hist.delivered[n]
  PROVE  NoteStep(n)
BY SumStill, UnsentStill DEF NoteStep

(* A notification a call is about is not one that stays unsent. *)
LEMMA InHand ==
  ASSUME NEW w \in Worker, NEW n \in Note, n \in HandsOf(worker[w])
  PROVE  ~CancelledUnsent(n)
BY DEF CancelledUnsent, Hands, HandsOf

LEMMA CreateLogsNotes ==
  ASSUME Shape, NEW w \in Worker, NEW l \in Log, CreateLogs(w, l), NEW m \in Note
  PROVE  NoteStep(m)
<1>1. PICK x \in WorkerState : x = worker[w]
  BY Types
<1>2. PICK n \in x.todo :
        /\ log' = [log EXCEPT ![l] = [note |-> n, status |-> "PENDING"]]
        /\ worker' = [worker EXCEPT ![w].pc = "mark", ![w].note = n, ![w].todo = @ \ {n}]
  BY <1>1 DEF CreateLogs
<1>3. PICK y : y = [x EXCEPT !.pc = "mark", !.note = n, !.todo = @ \ {n}]
  OBVIOUS
<1>4. /\ x.pc = "dispatch" /\ log[l] = Unborn /\ note' = note /\ hist' = hist
      /\ n \in Note /\ x.targets = {} /\ x.note = NoNote
  BY <1>1 DEF CreateLogs, Shape, RefsOk, RefsOf, Delivering, WorkerState
<1>5. /\ y \in WorkerState /\ Moves(w, y)
      /\ y.pc = "mark" /\ y.note = n /\ y.todo = x.todo \ {n} /\ y.targets = {}
  <2>1. worker' = [worker EXCEPT ![w] = y]
    BY <1>1, <1>2, <1>3, Types
  <2>. QED
    BY <2>1, <1>3, <1>4 DEF WorkerState, Moves
<1>6. /\ log'[l].status = "PENDING" /\ log'[l].note = n
      /\ \A k \in Log \ {l} : log'[k] = log[k]
      /\ log[l].status \notin LogStatus
  BY <1>2, <1>4, Types DEF LogRow, LogStatus, Unborn
<1>7. CASE m # n
  <2>1. Still(m)
    BY <1>4, <1>6, <1>7 DEF Still, LogsKept, LogsOf
  <2>2. Handover(x, y, m)
    BY <1>4, <1>5, <1>7, NoNoteAssumption DEF Handover, HandsOf, Will, Owing, Delivering
  <2>3. ~Working(y, m) /\ (m \in HandsOf(y) => m \in HandsOf(x))
    BY <1>5, <1>7 DEF Working, HandsOf
  <2>. QED
    BY <1>1, <1>4, <1>5, <2>1, <2>2, <2>3, NoteStill
<1>8. CASE m = n
  <2>1. n \in HandsOf(x)
    BY DEF HandsOf
  <2>2. LogsOf(n)' = LogsOf(n) \cup {l} /\ \A k \in LogsOf(n) : log'[k] = log[k]
    BY <1>6 DEF LogsOf, LogStatus
  <2>3. worker'[w] = y /\ \A u \in Worker \ {w} : worker'[u] = worker[u]
    BY <1>5, CallMoved
  <2>4. n \in HandsOf(y) /\ Owing(y, n)' /\ \A k \in Log : Will(y, n, k)
    BY <1>4, <1>5 DEF HandsOf, Owing, Will
  <2>5. ASSUME SumOk(n), n \notin hist.dropped
        PROVE  Tended(n)'
    <3>1. Tended(n)
      BY <2>5 DEF SumOk
    <3>2. ASSUME NEW k \in LogsOf(n)'
          PROVE  \E u \in Worker : Will(worker'[u], n, k)
      BY <2>3, <2>4, <3>2 DEF LogsOf
    <3>. QED
      BY <3>2 DEF Tended, Will
  <2>6. HasLogs(n)' /\ Handed(n)' /\ Summed(n)'
    BY <2>2, <2>3, <2>4 DEF HasLogs, Handed, Summed
  <2>. QED
    BY <1>1, <1>4, <1>8, <2>1, <2>5, <2>6, InHand DEF NoteStep, SumOk
<1>. QED
  BY <1>7, <1>8

LEMMA MarkPendingNotes ==
  ASSUME Shape, NEW w \in Worker, MarkPending(w), NEW m \in Note
  PROVE  NoteStep(m)
<1>1. PICK x \in WorkerState : x = worker[w]
  BY Types
<1>2. PICK n : n = x.note
  OBVIOUS
<1>3. PICK two \in 0..2 : two = 2
  OBVIOUS
<1>4. PICK y : y = [x EXCEPT !.pc = "read", !.counts = two]
  OBVIOUS
<1>5. /\ x.pc = "mark" /\ SetNote(n, "PENDING") /\ log' = log /\ hist' = hist
      /\ n \in Note /\ Stored(n) /\ RefsOf(x)
  BY <1>1, <1>2 DEF MarkPending, Shape, RefsOk, RefsOf, Busy
<1>6. /\ y \in WorkerState /\ Moves(w, y)
      /\ y.pc = "read" /\ y.note = n /\ y.todo = x.todo /\ y.targets = x.targets
  BY <1>1, <1>2, <1>3, <1>4, Types DEF WorkerState, Moves, MarkPending
<1>7. note'[n].status = "PENDING" /\ \A k \in Note \ {n} : note'[k] = note[k]
  BY <1>5, NoteSet DEF NotificationStatus
<1>8. CASE m # n
  <2>1. Still(m)
    BY <1>5, <1>7, <1>8, SameLogs DEF Still
  <2>. QED
    BY <1>1, <1>2, <1>5, <1>6, <1>8, <2>1, NoteStill
       DEF Working, Handover, HandsOf, Will, Owing
<1>9. CASE m = n
  <2>1. n \in HandsOf(x)
    BY <1>2, <1>5 DEF HandsOf
  <2>2. worker'[w] = y
    BY <1>6, CallMoved
  <2>3. n \in HandsOf(y) /\ Owing(y, n)' /\ \A k \in Log : Will(y, n, k)
    BY <1>5, <1>6 DEF HandsOf, Owing, Will
  <2>4. Working(x, n) /\ LogsOf(n)' = LogsOf(n)
    BY <1>2, <1>5, SameLogs DEF Working, Busy, LogsKept
  <2>5. SumOk(n) => HasLogs(n)'
    BY <1>1, <2>4 DEF SumOk, HasLogs
  <2>6. Tended(n)'
    <3>1. ASSUME NEW k \in LogsOf(n)'
          PROVE  Will(worker'[w], n, k)
      BY <2>2, <2>3, <3>1 DEF LogsOf
    <3>. QED
      BY <3>1 DEF Tended, Will
  <2>7. Handed(n)' /\ Summed(n)'
    BY <2>2, <2>3 DEF Handed, Summed
  <2>. QED
    BY <1>1, <1>5, <1>9, <2>1, <2>5, <2>6, <2>7, InHand DEF NoteStep, SumOk
<1>. QED
  BY <1>8, <1>9

LEMMA ReadLogsNotes ==
  ASSUME Shape, NEW w \in Worker, ReadLogs(w), NEW m \in Note
  PROVE  NoteStep(m)
<1>1. PICK x \in WorkerState : x = worker[w]
  BY Types
<1>2. PICK targets \in SUBSET Log : targets = Targets(x.note, "PENDING")
  BY DEF Targets, LogsOf
<1>3. PICK y : y = [x EXCEPT !.pc = "deliver", !.targets = targets]
  OBVIOUS
<1>4. x.pc = "read" /\ note' = note /\ log' = log /\ hist' = hist
  BY <1>1 DEF ReadLogs
<1>5. /\ y \in WorkerState /\ Moves(w, y)
      /\ y.pc = "deliver" /\ y.note = x.note /\ y.todo = x.todo /\ y.targets = targets
  BY <1>1, <1>2, <1>3, Types DEF WorkerState, Moves, ReadLogs
<1>6. Still(m)
  BY <1>4, SameLogs DEF Still
<1>7. Handover(x, y, m)
  BY <1>2, <1>4, <1>5 DEF Handover, HandsOf, Will, Owing, Targets, Delivering
<1>. QED
  BY <1>1, <1>4, <1>5, <1>6, <1>7, NoteStill DEF Working, HandsOf, Busy

LEMMA ProviderNotes ==
  ASSUME Shape, NEW w \in Worker, Provider(w) \/ RecordThrows(w), NEW m \in Note
  PROVE  NoteStep(m)
<1>1. PICK x \in WorkerState : x = worker[w]
  BY Types
<1>2. /\ x.pc \in {"deliver", "record"} /\ note' = note /\ log' = log
      /\ x.note \in Note
  BY <1>1 DEF Provider, RecordThrows, Shape, RefsOk, RefsOf, Busy
<1>3. PICK pc \in {"record", "failed"} : Goto(w, pc)
  BY DEF Provider, RecordThrows
<1>4. PICK y : y = [x EXCEPT !.pc = pc]
  OBVIOUS
<1>5. /\ y \in WorkerState /\ Moves(w, y)
      /\ y.pc = pc /\ y.note = x.note /\ y.todo = x.todo /\ y.targets = x.targets
  BY <1>1, <1>3, <1>4, Types DEF WorkerState, Moves, Goto
<1>6. /\ hist'.dropped = hist.dropped /\ hist'.stale = hist.stale
      /\ hist'.cancelled = hist.cancelled
      /\ m # x.note => hist'.delivered[m] = hist.delivered[m]
  BY <1>1, Types DEF HistState, Provider, RecordThrows
<1>7. Still(m)
  BY <1>2, <1>6, SameLogs DEF Still
<1>8. Handover(x, y, m)
  BY <1>2, <1>3, <1>5 DEF Handover, HandsOf, Will, Owing, Delivering
<1>. QED
  BY <1>1, <1>2, <1>3, <1>5, <1>6, <1>7, <1>8, NoteStill DEF Working, HandsOf, Busy

LEMMA RecordLogNotes ==
  ASSUME Shape, NEW w \in Worker, RecordLog(w), NEW m \in Note
  PROVE  NoteStep(m)
<1>1. PICK x \in WorkerState : x = worker[w]
  BY Types
<1>2. PICK n : n = x.note
  OBVIOUS
<1>3. /\ x.pc \in {"record", "failed"} /\ note' = note /\ hist' = hist
      /\ n \in Note /\ RefsOf(x)
  BY <1>1, <1>2 DEF RecordLog, Shape, RefsOk, RefsOf, Busy
<1>4. PICK l \in x.targets :
        /\ SetLog(l, IF x.pc = "record" THEN "SENT" ELSE "FAILED")
        /\ worker' = [worker EXCEPT ![w] = [x EXCEPT !.pc = "deliver", !.targets = @ \ {l}]]
  BY <1>1, Types DEF RecordLog
<1>5. PICK y : y = [x EXCEPT !.pc = "deliver", !.targets = @ \ {l}]
  OBVIOUS
<1>6. /\ y \in WorkerState /\ Moves(w, y)
      /\ y.pc = "deliver" /\ y.note = n /\ y.todo = x.todo /\ y.targets = x.targets \ {l}
  BY <1>1, <1>2, <1>4, <1>5, Types DEF WorkerState, Moves
<1>7. PICK st \in {"SENT", "FAILED"} : st = IF x.pc = "record" THEN "SENT" ELSE "FAILED"
  OBVIOUS
<1>8. l \in Log /\ log[l].status \in LogStatus /\ log[l].note = n
  BY <1>2, <1>3, <1>4 DEF RefsOf, WorkerState
<1>9. /\ log'[l].status = st /\ log'[l].note = n
      /\ \A k \in Log \ {l} : log'[k] = log[k]
  BY <1>3, <1>4, <1>7, <1>8, LogSet DEF LogStatus
<1>10. CASE m # n
  <2>1. Still(m)
    BY <1>3, <1>8, <1>9, <1>10 DEF Still, LogsKept, LogsOf
  <2>. QED
    BY <1>1, <1>2, <1>3, <1>6, <1>10, <2>1, NoteStill
       DEF Working, Handover, HandsOf, Will, Owing
<1>11. CASE m = n
  <2>1. n \in HandsOf(x) /\ n \in HandsOf(y) /\ Owing(y, n)' /\ Working(x, n)
    BY <1>2, <1>3, <1>6 DEF HandsOf, Owing, Working, Busy
  <2>2. LogsOf(n)' = LogsOf(n)
    BY <1>8, <1>9 DEF LogsOf, LogStatus
  <2>3. worker'[w] = y /\ \A u \in Worker \ {w} : worker'[u] = worker[u]
    BY <1>6, CallMoved
  <2>4. SumOk(n) => HasLogs(n)'
    BY <1>1, <2>1, <2>2 DEF SumOk, HasLogs
  <2>5. ASSUME Tended(n)
        PROVE  Tended(n)'
    <3>1. ASSUME NEW k \in LogsOf(n), log'[k].status = "PENDING"
          PROVE  \E u \in Worker : Will(worker'[u], n, k)
      <4>1. k # l /\ log[k].status = "PENDING"
        BY <1>7, <1>9, <3>1 DEF LogsOf
      <4>2. PICK u \in Worker : Will(worker[u], n, k)
        BY <2>5, <4>1 DEF Tended
      <4>3. CASE u = w
        BY <1>1, <1>3, <1>6, <2>3, <4>1, <4>2, <4>3 DEF Will, Delivering
      <4>4. CASE u # w
        BY <2>3, <4>2, <4>4
      <4>. QED
        BY <4>3, <4>4
    <3>. QED
      BY <2>2, <3>1 DEF Tended, Will
  <2>6. Handed(n)' /\ Summed(n)'
    BY <2>1, <2>3 DEF Handed, Summed
  <2>. QED
    BY <1>1, <1>3, <1>11, <2>1, <2>4, <2>5, <2>6, InHand DEF NoteStep, SumOk
<1>. QED
  BY <1>10, <1>11

LEMMA CountLogsNotes ==
  ASSUME Shape, NEW w \in Worker, CountLogs(w), NEW m \in Note
  PROVE  NoteStep(m)
<1>1. PICK x \in WorkerState : x = worker[w]
  BY Types
<1>2. PICK seen \in SUBSET LogStatus : seen = Statuses(x.note)
  BY DEF Statuses, LogsOf
<1>3. PICK y : y = [x EXCEPT !.pc = "total", !.seen = seen]
  OBVIOUS
<1>4. /\ x.pc \in {"deliver", "count"} /\ x.targets = {}
      /\ note' = note /\ log' = log /\ hist' = hist
  BY <1>1 DEF CountLogs, Shape, RefsOk, RefsOf, Delivering
<1>5. /\ y \in WorkerState /\ Moves(w, y)
      /\ y.pc = "total" /\ y.note = x.note /\ y.todo = x.todo /\ y.seen = Statuses(x.note)
  BY <1>1, <1>2, <1>3, Types DEF WorkerState, Moves, CountLogs
<1>6. Still(m)
  BY <1>4, SameLogs DEF Still
<1>7. Handover(x, y, m)
  BY <1>4, <1>5 DEF Handover, HandsOf, Will, Owing
<1>. QED
  BY <1>1, <1>4, <1>5, <1>6, <1>7, NoteStill DEF Working, HandsOf, Busy

LEMMA WriteTotalNotes ==
  ASSUME Shape, NEW w \in Worker, WriteTotal(w), NEW m \in Note
  PROVE  NoteStep(m)
<1>1. PICK x \in WorkerState : x = worker[w]
  BY Types
<1>2. PICK n : n = x.note
  OBVIOUS
<1>3. /\ x.pc = "total" /\ log' = log
      /\ n \in Note /\ Stored(n) /\ RefsOf(x)
  BY <1>1, <1>2 DEF WriteTotal, Shape, RefsOk, RefsOf, Busy
<1>4. PICK st \in {"SENT", "FAILED"} : st = Aggregate(x.seen)
  BY DEF Aggregate
<1>5. note'[n].status = st /\ \A k \in Note \ {n} : note'[k] = note[k]
  <2>1. SetNote(n, st)
    BY <1>1, <1>2, <1>4 DEF WriteTotal
  <2>. QED
    BY <2>1, <1>3, NoteSet DEF NotificationStatus
<1>6. /\ hist'.delivered = hist.delivered /\ hist'.cancelled = hist.cancelled
      /\ hist'.dropped = hist.dropped
      /\ hist'.stale = IF x.seen = Statuses(n) THEN hist.stale \ {n} ELSE hist.stale \cup {n}
  BY <1>1, <1>2, <1>3, WrittenHist
<1>7. PICK y \in WorkerState :
        /\ Moves(w, y) /\ y.todo = x.todo
        /\ IF x.counts = 2 THEN y.pc = "count" /\ y.note = n ELSE y.pc \notin Busy /\ y.note = NoNote
  <2>1. CASE x.counts = 2
    <3>1. PICK one \in 0..2 : one = 1
      OBVIOUS
    <3>2. PICK y : y = [x EXCEPT !.pc = "count", !.counts = one, !.seen = {}]
      OBVIOUS
    <3>3. y \in WorkerState
      BY <3>2 DEF WorkerState
    <3>4. worker' = [worker EXCEPT ![w] = y]
      BY <1>1, <2>1, <3>1, <3>2, Types DEF WriteTotal
    <3>. QED
      BY <1>2, <2>1, <3>2, <3>3, <3>4 DEF Moves, WorkerState
  <2>2. CASE x.counts # 2
    <3>1. PICK y : y = Rest(w)
      OBVIOUS
    <3>2. Moves(w, y)
      BY <1>1, <2>2, <3>1 DEF WriteTotal, Done, Moves
    <3>. QED
      BY <1>1, <2>2, <3>1, <3>2, RestState
  <2>. QED
    BY <2>1, <2>2
<1>8. CASE m # n
  <2>1. Still(m)
    BY <1>3, <1>5, <1>6, <1>8, SameLogs DEF Still
  <2>2. Handover(x, y, m) /\ ~Working(y, m)
    BY <1>2, <1>3, <1>7, <1>8 DEF Handover, HandsOf, Will, Owing, Working, Delivering, Busy
  <2>3. m \in HandsOf(y) => m \in HandsOf(x)
    BY <1>7, <1>8, NoNoteAssumption DEF HandsOf
  <2>. QED
    BY <1>1, <1>6, <1>7, <2>1, <2>2, <2>3, NoteStill
<1>9. CASE m = n
  <2>1. n \in HandsOf(x) /\ Working(x, n)
    BY <1>2, <1>3 DEF HandsOf, Working, Busy
  <2>2. LogsOf(n)' = LogsOf(n) /\ Statuses(n)' = Statuses(n)
        /\ \A k \in LogsOf(n) : log'[k] = log[k]
    BY <1>3 DEF LogsOf, Statuses
  <2>3. worker'[w] = y /\ \A u \in Worker \ {w} : worker'[u] = worker[u]
    BY <1>7, CallMoved
  <2>4. SumOk(n) => HasLogs(n)'
    BY <1>1, <2>1, <2>2 DEF SumOk, HasLogs
  <2>5. ASSUME Tended(n)
        PROVE  Tended(n)'
    <3>1. ASSUME NEW k \in LogsOf(n), log[k].status = "PENDING"
          PROVE  \E u \in Worker : Will(worker'[u], n, k)
      <4>1. PICK u \in Worker : Will(worker[u], n, k)
        BY <2>5, <3>1 DEF Tended
      <4>2. u # w
        BY <1>1, <1>3, <4>1 DEF Will, Delivering
      <4>. QED
        BY <2>3, <4>1, <4>2
    <3>. QED
      BY <2>2, <3>1 DEF Tended, Will
  <2>6. Handed(n)'
    BY <1>5 DEF Handed
  <2>7. Summed(n)'
    <3>1. CASE x.seen = Statuses(n)
      BY <1>4, <1>5, <2>2, <3>1 DEF Summed
    <3>2. CASE x.seen # Statuses(n)
      BY <1>6, <3>2 DEF Summed
    <3>. QED
      BY <3>1, <3>2
  <2>. QED
    BY <1>1, <1>6, <1>9, <2>1, <2>4, <2>5, <2>6, <2>7, InHand DEF NoteStep, SumOk
<1>. QED
  BY <1>8, <1>9

(* A call that starts, with what it has in hand. *)
LEMMA StartNotes ==
  ASSUME Shape, NEW w \in Worker, worker[w] = Idle,
         NEW y \in WorkerState, Moves(w, y), NEW m \in Note, Still(m),
         hist'.delivered = hist.delivered,
         Working(y, m) => LogsOf(m) # {},
         m \in HandsOf(y) => note[m].status # "FAILED" \/ LogsOf(m) # {}
  PROVE  NoteStep(m)
<1>1. PICK x \in WorkerState : x = worker[w]
  BY Types
<1>2. /\ x.pc = "idle" /\ x.note = NoNote /\ x.todo = {} /\ x.targets = {}
  BY <1>1 DEF Idle
<1>3. Handover(x, y, m)
  BY <1>2, NoNoteAssumption DEF Handover, HandsOf, Will, Owing, Delivering
<1>. QED
  BY <1>1, <1>3, NoteStill

LEMMA TickNotes ==
  ASSUME Shape, NEW w \in Worker, Tick(w), NEW m \in Note
  PROVE  NoteStep(m)
<1>1. PICK due \in SUBSET Note : due = DueNotes
  BY DEF DueNotes
<1>2. PICK y : y = [Idle EXCEPT !.pc = "dispatch", !.todo = due]
  OBVIOUS
<1>3. note' = note /\ log' = log /\ worker[w] = Idle /\ Moves(w, y) /\ hist' = Started(w)
  BY <1>1, <1>2, Begun DEF Tick
<1>4. y \in WorkerState /\ y.pc = "dispatch" /\ y.todo = due /\ y.note = NoNote
  BY <1>2, IdleState DEF WorkerState, Idle
<1>5. Still(m)
  BY <1>3, SameLogs, StartedHist DEF Still
<1>6. ~Working(y, m) /\ (m \in HandsOf(y) => note[m].status # "FAILED")
  BY <1>1, <1>4, NoNoteAssumption DEF Working, HandsOf, DueNotes, Takes
<1>. QED
  BY <1>3, <1>4, <1>5, <1>6, StartedHist, StartNotes

LEMMA ListenNotes ==
  ASSUME Shape, NEW w \in Worker, NEW n \in Note, Listen(w, n), NEW m \in Note,
         SumOk(m) => HasLogs(m)
  PROVE  NoteStep(m)
<1>1. note' = note /\ log' = log
  BY DEF Listen
<1>2. CASE note[n].status = "SENT"
  <2>1. PICK y : y = [Idle EXCEPT !.pc = "read", !.note = n]
    OBVIOUS
  <2>2. worker[w] = Idle /\ Moves(w, y) /\ hist' = Started(w)
    BY <1>2, <2>1, Begun DEF Listen
  <2>3. y \in WorkerState /\ y.pc = "read" /\ y.note = n /\ y.todo = {}
    BY <2>1, IdleState DEF WorkerState
  <2>4. Still(m)
    BY <1>1, <2>2, SameLogs, StartedHist DEF Still
  <2>5. m \in HandsOf(y) => note[m].status # "FAILED"
    BY <1>2, <2>3 DEF HandsOf
  <2>6. CASE LogsOf(m) # {} \/ m # n
    <3>1. Working(y, m) => LogsOf(m) # {}
      BY <2>3, <2>6 DEF Working
    <3>. QED
      BY <2>2, <2>3, <2>4, <2>5, <3>1, StartedHist, StartNotes
  <2>7. CASE LogsOf(m) = {} /\ m = n
    <3>1. ~SumOk(m) /\ ~CancelledUnsent(m)
      BY <1>2, <2>7 DEF HasLogs, CancelledUnsent
    <3>. QED
      BY <3>1 DEF NoteStep
  <2>. QED
    BY <2>6, <2>7
<1>3. CASE note[n].status # "SENT"
  <2>1. PICK x \in WorkerState : x = worker[w]
    BY Types
  <2>2. hist' = hist /\ Moves(w, x)
    BY <1>3, <2>1, Types DEF Listen, Moves
  <2>3. Still(m) /\ Handover(x, x, m)
    BY <1>1, <2>2, SameLogs DEF Still, Handover
  <2>. QED
    BY <2>1, <2>2, <2>3, NoteStill
<1>. QED
  BY <1>2, <1>3

LEMMA ResendNotes ==
  ASSUME Shape, NEW w \in Worker, NEW n \in Note, Resend(w, n), NEW m \in Note
  PROVE  NoteStep(m)
<1>1. PICK targets \in SUBSET Log : targets = Targets(n, "FAILED")
  BY DEF Targets, LogsOf
<1>2. PICK y : y = [Idle EXCEPT !.pc = "deliver", !.note = n, !.targets = targets]
  OBVIOUS
<1>3. /\ note' = note /\ log' = log /\ worker[w] = Idle /\ Moves(w, y)
      /\ targets # {} /\ hist.resends < MaxResend
      /\ hist' = [Started(w) EXCEPT !.resends = @ + 1]
  BY <1>1, <1>2, Begun DEF Resend
<1>4. y \in WorkerState /\ y.pc = "deliver" /\ y.note = n /\ y.todo = {}
  BY <1>2, IdleState DEF WorkerState
<1>5. Still(m)
  BY <1>3, SameLogs, ResentHist DEF Still
<1>6. (Working(y, m) => LogsOf(m) # {}) /\ (m \in HandsOf(y) => LogsOf(m) # {})
  BY <1>1, <1>3, <1>4 DEF Working, HandsOf, Targets
<1>. QED
  BY <1>3, <1>4, <1>5, <1>6, ResentHist, StartNotes

LEMMA StartCancelNotes ==
  ASSUME Shape, NEW w \in Worker, NEW n \in Note, StartCancel(w, n), NEW m \in Note
  PROVE  NoteStep(m)
<1>1. PICK y : y = [Idle EXCEPT !.pc = "cancel", !.note = n]
  OBVIOUS
<1>2. note' = note /\ log' = log /\ worker[w] = Idle /\ Moves(w, y) /\ hist' = Started(w)
  BY <1>1, Begun DEF StartCancel
<1>3. y \in WorkerState /\ y.pc = "cancel" /\ y.note = n /\ y.todo = {}
  BY <1>1, IdleState DEF WorkerState
<1>4. Still(m)
  BY <1>2, SameLogs, StartedHist DEF Still
<1>5. ~Working(y, m) /\ m \notin HandsOf(y)
  BY <1>3 DEF Working, HandsOf
<1>. QED
  BY <1>2, <1>3, <1>4, <1>5, StartedHist, StartNotes

(* A notification that is not stored has no log and no call about it. *)
LEMMA UnbornAlone ==
  ASSUME Shape, NEW n \in Note, note[n] = Unborn
  PROVE  /\ LogsOf(n) = {} /\ \A u \in Worker : ~Working(worker[u], n)
         /\ ~CancelledUnsent(n)
<1>1. ~Stored(n)
  BY DEF Stored, Unborn, NotificationStatus
<1>2. LogsOf(n) = {}
  BY <1>1 DEF Shape, RefsOk, LogsOk, LogsOf
<1>3. \A u \in Worker : ~Working(worker[u], n)
  BY <1>1 DEF Shape, RefsOk, RefsOf, Working
<1>4. ~CancelledUnsent(n)
  BY DEF CancelledUnsent, Unborn
<1>. QED
  BY <1>2, <1>3, <1>4

LEMMA SendNowNotes ==
  ASSUME Shape, NEW w \in Worker, NEW n \in Note, SendNow(w, n), NEW m \in Note
  PROVE  NoteStep(m)
<1>1. PICK y : y = [Idle EXCEPT !.pc = "dispatch", !.todo = {n}]
  OBVIOUS
<1>2. /\ note[n] = Unborn /\ log' = log /\ worker[w] = Idle /\ Moves(w, y)
      /\ note' = [note EXCEPT ![n] = [status |-> "PENDING", due |-> TRUE]]
      /\ hist' = Started(w)
  BY <1>1, Begun DEF SendNow
<1>3. y \in WorkerState /\ y.pc = "dispatch" /\ y.todo = {n} /\ y.note = NoNote
  BY <1>1, IdleState DEF WorkerState, Idle
<1>4. note'[n].status = "PENDING" /\ \A k \in Note \ {n} : note'[k] = note[k]
  BY <1>2, Types
<1>5. CASE m # n
  <2>1. Still(m)
    BY <1>2, <1>4, <1>5, SameLogs, StartedHist DEF Still
  <2>2. ~Working(y, m) /\ m \notin HandsOf(y)
    BY <1>3, <1>5, NoNoteAssumption DEF Working, HandsOf
  <2>. QED
    BY <1>2, <1>3, <2>1, <2>2, StartedHist, StartNotes
<1>6. CASE m = n
  <2>1. /\ LogsOf(n) = {} /\ \A u \in Worker : ~Working(worker[u], n)
        /\ ~CancelledUnsent(n)
    BY <1>2, UnbornAlone
  <2>2. LogsOf(n)' = {}
    BY <1>2, <2>1 DEF LogsOf
  <2>3. worker'[w] = y /\ \A u \in Worker \ {w} : worker'[u] = worker[u]
    BY <1>2, CallMoved
  <2>4. n \in HandsOf(y) /\ ~Working(y, n)
    BY <1>3 DEF HandsOf, Working, Busy
  <2>5. HasLogs(n)'
    <3>1. \A u \in Worker : ~Working(worker'[u], n)
      BY <2>1, <2>3, <2>4
    <3>. QED
      BY <1>4, <3>1 DEF HasLogs, Working
  <2>6. Handed(n)' /\ Tended(n)' /\ Summed(n)'
    BY <2>2, <2>3, <2>4 DEF Handed, Tended, Summed
  <2>. QED
    BY <1>6, <2>1, <2>5, <2>6 DEF NoteStep, SumOk
<1>. QED
  BY <1>5, <1>6

LEMMA CommitCancelNotes ==
  ASSUME Shape, NEW w \in Worker, CommitCancel(w), NEW m \in Note
  PROVE  NoteStep(m)
<1>1. PICK x \in WorkerState : x = worker[w]
  BY Types
<1>2. PICK n : n = x.note
  OBVIOUS
<1>3. PICK y : y = Rest(w)
  OBVIOUS
<1>4. /\ x.pc = "cancel" /\ SetNote(n, "FAILED") /\ log' = log
      /\ hist' = [hist EXCEPT !.cancelled = @ \cup {n}]
      /\ n \in Note /\ Stored(n) /\ RefsOf(x)
  BY <1>1, <1>2 DEF CommitCancel, Shape, RefsOk, RefsOf, Busy
<1>5. /\ y \in WorkerState /\ Moves(w, y) /\ y.pc \notin Busy
      /\ y.todo = x.todo /\ y.note = NoNote
  BY <1>1, <1>3, RestState DEF CommitCancel, Done, Moves
<1>6. /\ hist'.delivered = hist.delivered /\ hist'.dropped = hist.dropped
      /\ hist'.stale = hist.stale /\ hist'.cancelled = hist.cancelled \cup {n}
  BY <1>4, Types DEF HistState
<1>7. note'[n].status = "FAILED" /\ \A k \in Note \ {n} : note'[k] = note[k]
  BY <1>4, NoteSet DEF NotificationStatus
<1>8. /\ ~Working(y, m) /\ Handover(x, y, m)
      /\ m \in HandsOf(y) => m \in HandsOf(x)
  BY <1>4, <1>5, NoNoteAssumption DEF Working, Handover, HandsOf, Will, Owing, Delivering
<1>9. CASE m # n
  <2>1. Still(m)
    BY <1>4, <1>6, <1>7, <1>9, SameLogs DEF Still
  <2>. QED
    BY <1>1, <1>5, <1>6, <1>8, <2>1, NoteStill
<1>10. CASE m = n
  <2>1. LogsOf(n)' = LogsOf(n) /\ \A k \in LogsOf(n) : log'[k] = log[k]
    BY <1>4 DEF LogsOf
  <2>2. worker'[w] = y /\ \A u \in Worker \ {w} : worker'[u] = worker[u]
    BY <1>5, CallMoved
  <2>3. SumOk(n) => HasLogs(n)'
    BY <1>7, <1>8, <1>10, <2>1, <2>2 DEF SumOk, HasLogs, Working
  <2>4. ASSUME Tended(n)
        PROVE  Tended(n)'
    <3>1. ASSUME NEW k \in LogsOf(n), log[k].status = "PENDING"
          PROVE  \E u \in Worker : Will(worker'[u], n, k)
      <4>1. PICK u \in Worker : Will(worker[u], n, k)
        BY <2>4, <3>1 DEF Tended
      <4>2. u # w
        BY <1>1, <1>4, <4>1 DEF Will, Delivering
      <4>. QED
        BY <2>2, <4>1, <4>2
    <3>. QED
      BY <2>1, <3>1 DEF Tended, Will
  <2>5. Handed(n)' /\ Summed(n)'
    BY <1>6, <1>7 DEF Handed, Summed
  <2>6. ASSUME CancelledUnsent(n)
        PROVE  CancelledUnsent(n)'
    <3>1. \A u \in Worker : n \notin HandsOf(worker[u])
      BY <2>6 DEF CancelledUnsent, Hands, HandsOf
    <3>2. \A u \in Worker : n \notin HandsOf(worker'[u])
      BY <1>1, <1>8, <1>10, <2>2, <3>1
    <3>3. \A u \in Worker : n \notin Hands(u)'
      BY <3>2 DEF Hands, HandsOf
    <3>. QED
      BY <1>6, <1>7, <2>1, <2>6, <3>3 DEF CancelledUnsent
  <2>. QED
    BY <1>6, <1>10, <2>3, <2>4, <2>5, <2>6 DEF NoteStep, SumOk
<1>. QED
  BY <1>9, <1>10

LEMMA FailNotes ==
  ASSUME Shape, NEW w \in Worker, Fail(w), NEW m \in Note
  PROVE  NoteStep(m)
<1>1. PICK x \in WorkerState : x = worker[w]
  BY Types
<1>2. PICK y \in WorkerState : y = Idle
  BY IdleState
<1>3. /\ note' = note /\ log' = log /\ Moves(w, y)
      /\ y.pc = "idle" /\ y.note = NoNote /\ y.todo = {}
  BY <1>2 DEF Fail, Moves, Idle
<1>4. /\ hist'.delivered = hist.delivered /\ hist'.cancelled = hist.cancelled
      /\ hist'.dropped = hist.dropped \cup HandsOf(x) /\ hist'.stale = hist.stale
  BY <1>1, FailDrops DEF Hands, HandsOf
<1>5. Still(m)
  BY <1>3, <1>4, SameLogs DEF Still
<1>6. m \notin HandsOf(x) => Handover(x, y, m)
  BY DEF Handover, HandsOf, Will, Owing, Delivering
<1>7. ~Working(y, m) /\ m \notin HandsOf(y)
  BY <1>3, NoNoteAssumption DEF Working, HandsOf, Busy
<1>. QED
  BY <1>1, <1>3, <1>4, <1>5, <1>6, <1>7, NoteStill

LEMMA OutsideNotes ==
  ASSUME Shape, NEW n \in Note, Schedule(n) \/ BecomeDue(n), NEW m \in Note
  PROVE  NoteStep(m)
<1>1. PICK w \in Worker : TRUE
  BY WorkerAssumption
<1>2. PICK x \in WorkerState : x = worker[w]
  BY Types
<1>3. log' = log /\ hist' = hist /\ worker' = worker /\ Moves(w, x) /\ Handover(x, x, m)
  BY <1>2, Types DEF Schedule, BecomeDue, Moves, Handover
<1>4. CASE m # n \/ BecomeDue(n)
  <2>1. note'[m].status = note[m].status
    BY <1>4, Types, StoredRow DEF Schedule, BecomeDue, NoteRow
  <2>2. Still(m)
    BY <1>3, <2>1, SameLogs DEF Still
  <2>. QED
    BY <1>2, <1>3, <2>2, NoteStill
<1>5. CASE m = n /\ Schedule(n)
  <2>1. note[n] = Unborn /\ note'[n].status = "SCHEDULED"
    BY <1>5, Types DEF Schedule
  <2>2. /\ LogsOf(n) = {} /\ \A u \in Worker : ~Working(worker[u], n)
        /\ ~CancelledUnsent(n)
    BY <2>1, UnbornAlone
  <2>3. LogsOf(n)' = {} /\ \A u \in Worker : ~Working(worker'[u], n)
    BY <1>3, <2>2 DEF LogsOf
  <2>4. HasLogs(n)' /\ Handed(n)' /\ Tended(n)' /\ Summed(n)'
    BY <2>1, <2>3 DEF HasLogs, Working, Handed, Tended, Summed
  <2>. QED
    BY <1>5, <2>2, <2>4 DEF NoteStep, SumOk
<1>. QED
  BY <1>4, <1>5

LEMMA NextNotes ==
  ASSUME Shape, Next, NEW m \in Note
  PROVE  NoteStep(m)
<1>1. ASSUME NEW n \in Note, Schedule(n) \/ BecomeDue(n)
      PROVE  NoteStep(m)
  BY <1>1, OutsideNotes
<1>2. ASSUME NEW w \in Worker, Proceed(w) \/ RecordThrows(w) \/ Fail(w)
      PROVE  NoteStep(m)
  BY <1>2, CreateLogsNotes, MarkPendingNotes, ReadLogsNotes, ProviderNotes, RecordLogNotes,
     CountLogsNotes, WriteTotalNotes, CommitCancelNotes, FailNotes DEF Proceed
<1>3. ASSUME NEW w \in Worker, NEW n \in Note,
             Tick(w) \/ SendNow(w, n) \/ Listen(w, n) \/ Resend(w, n) \/ StartCancel(w, n)
      PROVE  NoteStep(m)
  BY <1>3, TickNotes, SendNowNotes, ListenNotes, ResendNotes, StartCancelNotes DEF SumOk
<1>. QED
  BY <1>1, <1>2, <1>3 DEF Next

SumInv == \A n \in Note : SumOk(n)

LEMMA SumKeeps ==
  ASSUME Shape, SumInv, [Next]_vars
  PROVE  SumInv'
<1>1. CASE Next
  BY <1>1, NextNotes DEF SumInv, NoteStep
<1>2. CASE UNCHANGED vars
  <2>1. PICK w \in Worker : TRUE
    BY WorkerAssumption
  <2>2. PICK x \in WorkerState : x = worker[w]
    BY Types
  <2>3. Moves(w, x)
    BY <1>2, <2>2, Types DEF vars, Moves
  <2>. SUFFICES ASSUME NEW n \in Note PROVE SumOk(n) => SumOk(n)'
    BY DEF SumInv
  <2>4. Still(n) /\ Handover(x, x, n)
    BY <1>2, SameLogs DEF vars, Still, Handover
  <2>. QED
    BY <2>2, <2>3, <2>4, SumStill
<1>. QED
  BY <1>1, <1>2

LEMMA SumInit == Init => SumInv
<1>. SUFFICES ASSUME Init, NEW n \in Note PROVE SumOk(n)
  BY DEF SumInv
<1>1. note[n].status = "unborn" /\ LogsOf(n) = {}
  BY DEF Init, Unborn, LogsOf, LogStatus
<1>2. \A w \in Worker : ~Working(worker[w], n)
  BY DEF Init, Idle, Working, Busy
<1>. QED
  BY <1>1, <1>2 DEF SumOk, HasLogs, Handed, Tended, Summed

LEMMA SumInvariance == Spec => [](Shape /\ SumInv)
<1>1. IInv => Shape
  BY DEF IInv
<1>. QED
  BY <1>1, SumInit, SumKeeps, Invariance, PTL DEF Spec

-----------------------------------------------------------------------------
(* Rows, calls in flight and counters keep the types the code gives them,   *)
(* however calls overlap.                                                   *)
THEOREM TypeCorrect == Spec => []TypeOK
<1>1. IInv => TypeOK
  BY DEF IInv, Shape
<1>. QED
  BY <1>1, Invariance, PTL

(* As long as no two calls have overlapped, deliverPendingChannels and the  *)
(* resend give the recipient a notification at most once, and once more for *)
(* every call that died or write that failed.                               *)
THEOREM DeliveredAtMostOnce == Spec => []NoDuplicateDelivery
<1>1. IInv => NoDuplicateDelivery
  <2>. SUFFICES ASSUME IInv, ~hist.raced, NEW n \in Note
                PROVE  hist.delivered[n] <= 1 + hist.fails
    BY DEF NoDuplicateDelivery
  <2>1. PICK w \in Worker : Tidy(worker[w])
    BY DEF IInv
  <2>2. PICK x \in WorkerState : x = worker[w] /\ RefsOf(x)
    BY Types DEF IInv, Shape, RefsOk
  <2>3. Budget(x, n) /\ \A l \in x.targets : log[l].status # "SENT"
    BY <2>1, <2>2 DEF Tidy, NoteOk, CallOk
  <2>4. /\ IsFiniteSet(Unsent(n)) /\ Cardinality(Unsent(n)) \in Nat
        /\ hist.delivered[n] \in Nat /\ hist.fails \in Nat
    BY Counts DEF IInv
  <2>5. Waiting(x, n) \in {0, 1} /\ Recording(x, n) \in {0, 1}
    BY DEF Waiting, Recording
  <2>6. ASSUME Recording(x, n) = 1
        PROVE  Cardinality(Unsent(n)) # 0
    <3>1. x.pc = "record" /\ x.note = n
      BY <2>6 DEF Recording
    <3>2. PICK l \in x.targets : TRUE
      BY <3>1, <2>2 DEF RefsOf
    <3>3. l \in Unsent(n)
      BY <3>1, <2>2, <2>3 DEF RefsOf, Unsent, LogsOf, WorkerState
    <3>. QED
      BY <3>3, <2>4, FS_EmptySet
  <2>. QED
    BY <2>3, <2>4, <2>5, <2>6 DEF Budget
<1>. QED
  BY <1>1, Invariance, PTL

(* A notification no call has in hand, and none dropped on dying, is not    *)
(* PENDING and has no PENDING log, and the status                           *)
(* updateNotificationAggregateCounts last wrote is what its logs say, unless *)
(* it was cancelled or that count was stale when it was written: whatever   *)
(* overlaps.                                                                *)
THEOREM AggregateSumsLogs == Spec => []AggregateHonest
<1>1. SumInv => AggregateHonest
  <2>. SUFFICES ASSUME SumInv, NEW n \in Note, Stored(n), n \notin hist.dropped,
                       \A w \in Worker : n \notin Hands(w)
                PROVE  /\ note[n].status # "PENDING" /\ "PENDING" \notin Statuses(n)
                       /\ n \notin hist.stale \cup hist.cancelled =>
                            (note[n].status = "SENT" <=> "SENT" \in Statuses(n))
    BY DEF AggregateHonest
  <2>1. HasLogs(n) /\ Handed(n) /\ Tended(n) /\ Summed(n)
    BY DEF SumInv, SumOk
  <2>2. \A w \in Worker : n \notin HandsOf(worker[w])
    BY DEF Hands, HandsOf
  <2>3. \A w \in Worker : ~Owing(worker[w], n) /\ \A l \in Log : ~Will(worker[w], n, l)
    BY <2>2 DEF HandsOf, Owing, Will, Delivering
  <2>4. note[n].status # "PENDING"
    BY <2>1, <2>2 DEF Handed
  <2>5. "PENDING" \notin Statuses(n)
    BY <2>1, <2>3 DEF Tended, Statuses, LogsOf
  <2>6. ASSUME n \notin hist.stale \cup hist.cancelled
        PROVE  note[n].status = "SENT" <=> "SENT" \in Statuses(n)
    <3>1. CASE LogsOf(n) = {}
      BY <2>1, <3>1 DEF HasLogs, Statuses
    <3>2. CASE LogsOf(n) # {}
      <4>1. note[n].status = Aggregate(Statuses(n))
        BY <2>1, <2>3, <2>6, <3>2 DEF Summed
      <4>. QED
        BY <4>1, <2>5 DEF Aggregate
    <3>. QED
      BY <3>1, <3>2
  <2>. QED
    BY <2>4, <2>5, <2>6
<1>. QED
  BY <1>1, SumInvariance, PTL

(* Once what read it before cancelScheduled wrote is done and has left no   *)
(* log, a cancelled notification stays FAILED and is never delivered: by no *)
(* tick, listener or resend, whatever overlaps.                             *)
THEOREM CancelledIsFinal == Spec => CancelledStaysUnsent
<1>1. ASSUME Shape, [Next]_vars
      PROVE  [\A n \in Note : CancelledUnsent(n) =>
                CancelledUnsent(n)' /\ hist'.delivered[n] = hist.delivered[n]]_vars
  BY <1>1, NextNotes DEF NoteStep
<1>2. IInv => Shape
  BY DEF IInv
<1>. QED
  BY <1>1, <1>2, Invariance, PTL DEF Spec, CancelledStaysUnsent

-----------------------------------------------------------------------------
(* Only these two write the log. *)
LEMMA LogWriters ==
  ASSUME [Next]_vars, log' # log
  PROVE  \E w \in Worker : (\E l \in Log : CreateLogs(w, l)) \/ RecordLog(w)
BY DEF Next, vars, Schedule, BecomeDue, Tick, Proceed, RecordThrows, Fail, SendNow, Listen,
   Resend, StartCancel, MarkPending, ReadLogs, Provider, CountLogs, WriteTotal, CommitCancel

(* As long as no two calls have overlapped, a log that says SENT says so    *)
(* for good: no retry takes it up again and no failure overwrites it.       *)
THEOREM SentStands ==
  Spec => [][~hist.raced' =>
               \A l \in Log : log[l].status = "SENT" => log'[l] = log[l]]_vars
<1>1. ASSUME IInv, [Next]_vars, ~hist'.raced, NEW l \in Log, log[l].status = "SENT",
             log' # log
      PROVE  log'[l] = log[l]
  <2>1. PICK w \in Worker : (\E k \in Log : CreateLogs(w, k)) \/ RecordLog(w)
    BY <1>1, LogWriters
  <2>2. CASE \E k \in Log : CreateLogs(w, k)
    <3>1. PICK k \in Log, n \in worker[w].todo :
            log[k] = Unborn /\ log' = [log EXCEPT ![k] = [note |-> n, status |-> "PENDING"]]
      BY <2>2 DEF CreateLogs
    <3>2. k # l
      BY <1>1, <3>1 DEF Unborn
    <3>. QED
      BY <1>1, <3>1, <3>2, Types DEF IInv
  <2>3. CASE RecordLog(w)
    <3>1. PICK k \in worker[w].targets, st \in LogStatus : SetLog(k, st)
      BY <2>3 DEF RecordLog, LogStatus
    <3>2. worker[w] # Idle /\ ~hist.raced
      BY <1>1, <2>3, IdleState DEF RecordLog
    <3>3. Tidy(worker[w])
      BY <1>1, <3>2 DEF IInv, Alone
    <3>4. k # l
      BY <1>1, <3>1, <3>3 DEF Tidy, CallOk
    <3>. QED
      BY <1>1, <3>1, <3>4, Types DEF IInv, SetLog
  <2>. QED
    BY <2>1, <2>2, <2>3
<1>2. IInv /\ [Next]_vars =>
        [~hist.raced' => \A l \in Log : log[l].status = "SENT" => log'[l] = log[l]]_vars
  BY <1>1
<1>. QED
  BY <1>2, Invariance, PTL DEF Spec
=============================================================================
