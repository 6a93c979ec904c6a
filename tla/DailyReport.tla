----------------------------- MODULE DailyReport -----------------------------
(***************************************************************************)
(* The scheduler's daily_report job (scheduler/main.py,                     *)
(* domain/scheduled_notifications.py): every poll reads the clock and the   *)
(* ReportSchedule row, and at most one poll of an Operational Day is to     *)
(* create and send that day's report.  Several scheduler processes may      *)
(* overlap, and any of them may die; Administrators edit the schedule, the  *)
(* template and the directory meanwhile.                                    *)
(*                                                                         *)
(* One poll is one transaction of PostgreSQL at READ COMMITTED.  Time is    *)
(* counted in slots of the UTC day; an Operational Day is a calendar day of *)
(* Asia/Dhaka, which is DhakaOffset slots ahead.  What becomes of a row     *)
(* once it is dispatched is Deliveries' subject.                            *)
(***************************************************************************)
EXTENDS Integers, FiniteSets

CONSTANTS
  Recipient,     \* users
  Scheduler,     \* scheduler processes
  None,          \* nobody holds the advisory lock
  SlotsPerDay,   \* resolution of the clock
  DhakaOffset,   \* Asia/Dhaka - UTC, in slots
  LastSlot,      \* bound: the clock stops here
  MaxEdits,      \* bound: Administrators' edits
  MaxCrashes     \* bound: scheduler processes lost

ASSUME DailyReportAssumption ==
  /\ None \notin Scheduler
  /\ IsFiniteSet(Scheduler)
  /\ SlotsPerDay \in Nat \ {0}
  /\ DhakaOffset \in 0..SlotsPerDay
  /\ LastSlot \in Nat
  /\ MaxEdits \in Nat
  /\ MaxCrashes \in Nat

VARIABLES
  now,       \* UTC slots since the start of a UTC day
  schedule,  \* the ReportSchedule row: a slot of the UTC day
  eligible,  \* active users with consent: what resolve() would return
  template,  \* is the Daily Report template there, with known slots
  reports,   \* committed scheduled Notifications with their delivery rows
  lock,      \* who holds the daily-report advisory lock
  job,       \* the poll each scheduler process is running
  messages,  \* messages handed to Twilio, per Operational Day and recipient
  edits, crashes

directory == <<eligible, template>>
vars == <<now, schedule, directory, reports, lock, job, messages, edits, crashes>>

-----------------------------------------------------------------------------
(* The two calendars. The definitions named Bug... are mutants.            *)

Slot == 0..(SlotsPerDay - 1)

UtcDay(t) == t \div SlotsPerDay

DhakaDay(t) == (t + DhakaOffset) \div SlotsPerDay

Day == 0..DhakaDay(LastSlot)

BugNoWrapAround(slot) == slot - DhakaOffset

\* _dhaka_to_utc: a time of day only, the date is lost.
DhakaToUtc(slot) == (slot + SlotsPerDay - DhakaOffset) % SlotsPerDay

BugWaitsForTheNextSlot(t, sendAt) == t > UtcDay(t) * SlotsPerDay + sendAt

\* _should_run_daily_report: has the send time of the current UTC date come?
ShouldRunDailyReport(t, sendAt) == t >= UtcDay(t) * SlotsPerDay + sendAt

-----------------------------------------------------------------------------
(* Types *)

Report == [id: Nat, day: Day, rows: SUBSET Recipient]

Phase == {"idle", "schedule", "exists", "lock", "resolve", "insert", "dispatch"}

Job == [phase: Phase, at: 0..LastSlot, day: Day, rows: SUBSET Recipient,
        todo: SUBSET Recipient]

Idle == [phase |-> "idle", at |-> 0, day |-> 0, rows |-> {}, todo |-> {}]

TypeOK ==
  /\ now \in 0..LastSlot
  /\ schedule \in Slot
  /\ eligible \subseteq Recipient
  /\ template \in BOOLEAN
  /\ reports \subseteq Report
  /\ lock \in Scheduler \cup {None}
  /\ job \in [Scheduler -> Job]
  /\ messages \in [Day -> [Recipient -> Nat]]
  /\ edits \in 0..MaxEdits
  /\ crashes \in 0..MaxCrashes

\* Recipients with a committed row for day d; it is what the partial unique
\* index on (recipient_user_id, operational_day) holds.
Reported(d) == UNION {r.rows : r \in {x \in reports : x.day = d}}

Init ==
  /\ now = 0
  /\ schedule \in Slot
  /\ eligible \in SUBSET Recipient
  /\ template \in BOOLEAN
  /\ reports = {}
  /\ lock = None
  /\ job = [s \in Scheduler |-> Idle]
  /\ messages = [d \in Day |-> [r \in Recipient |-> 0]]
  /\ edits = 0
  /\ crashes = 0

-----------------------------------------------------------------------------
(* One poll of the job *)

\* pg_try_advisory_lock: of the session, which goes back to the pool with it.
BugSessionLock(s) ==
  /\ job' = [job EXCEPT ![s] = Idle]
  /\ UNCHANGED lock

\* Ends s's transaction: the advisory lock goes with it.
EndJob(s) ==
  /\ job' = [job EXCEPT ![s] = Idle]
  /\ lock' = IF lock = s THEN None ELSE lock

\* now = datetime.now(UTC), and today = the Dhaka date of that instant.
Wake(s) ==
  /\ job[s].phase = "idle"
  /\ job' = [job EXCEPT ![s].phase = "schedule", ![s].at = now,
                        ![s].day = DhakaDay(now)]
  /\ UNCHANGED <<now, schedule, directory, reports, lock, messages, edits, crashes>>

CheckSchedule(s) ==
  /\ job[s].phase = "schedule"
  /\ \/ /\ ShouldRunDailyReport(job[s].at, schedule)
        /\ job' = [job EXCEPT ![s].phase = "exists", ![s].at = 0]
        /\ UNCHANGED lock
     \/ /\ ~ShouldRunDailyReport(job[s].at, schedule)
        /\ EndJob(s)
  /\ UNCHANGED <<now, schedule, directory, reports, messages, edits, crashes>>

\* exists_for_operational_day sees committed rows only.
CheckExists(s) ==
  /\ job[s].phase = "exists"
  /\ \/ /\ Reported(job[s].day) = {}
        /\ job' = [job EXCEPT ![s].phase = "lock"]
        /\ UNCHANGED lock
     \/ /\ Reported(job[s].day) # {}
        /\ EndJob(s)
  /\ UNCHANGED <<now, schedule, directory, reports, messages, edits, crashes>>

\* pg_try_advisory_xact_lock: SKIPPED, not a wait, when somebody holds it.
TryLock(s) ==
  /\ job[s].phase = "lock"
  /\ \/ /\ lock = None
        /\ lock' = s
        /\ job' = [job EXCEPT ![s].phase = "resolve"]
     \/ /\ lock # None
        /\ EndJob(s)
  /\ UNCHANGED <<now, schedule, directory, reports, messages, edits, crashes>>

\* resolve() over the active users, the content and the template; SKIPPED when
\* there is nobody to send to or nothing to send.
Resolve(s) ==
  /\ job[s].phase = "resolve"
  /\ \/ /\ eligible # {} /\ template
        /\ job' = [job EXCEPT ![s].phase = "insert", ![s].rows = eligible]
        /\ UNCHANGED lock
     \/ /\ eligible = {} \/ ~template
        /\ EndJob(s)
  /\ UNCHANGED <<now, schedule, directory, reports, messages, edits, crashes>>

\* An insert that meets another transaction's uncommitted row of the same key
\* waits for that transaction to end.
MustWait(s) ==
  \E t \in Scheduler \ {s} :
    /\ job[t].phase = "dispatch"
    /\ job[t].day = job[s].day
    /\ job[t].rows \cap job[s].rows # {}

BugNoUniqueIndex(s) ==
  /\ job[s].phase = "insert"
  /\ job' = [job EXCEPT ![s].phase = "dispatch", ![s].todo = job[s].rows]
  /\ UNCHANGED <<now, schedule, directory, reports, lock, messages, edits, crashes>>

BugDuplicateLeavesNotification(s) ==
  /\ job[s].phase = "insert"
  /\ ~MustWait(s)
  /\ \/ /\ job[s].rows \cap Reported(job[s].day) = {}
        /\ job' = [job EXCEPT ![s].phase = "dispatch", ![s].todo = job[s].rows]
        /\ UNCHANGED <<reports, lock>>
     \/ /\ job[s].rows \cap Reported(job[s].day) # {}
        /\ reports' = reports \cup {[id |-> Cardinality(reports),
                                     day |-> job[s].day, rows |-> {}]}
        /\ EndJob(s)
  /\ UNCHANGED <<now, schedule, directory, messages, edits, crashes>>

BugCommitsBeforeDispatch(s) ==
  /\ job[s].phase = "insert"
  /\ ~MustWait(s)
  /\ \/ /\ job[s].rows \cap Reported(job[s].day) = {}
        /\ job' = [job EXCEPT ![s].phase = "dispatch", ![s].todo = job[s].rows]
        /\ lock' = None
     \/ /\ job[s].rows \cap Reported(job[s].day) # {}
        /\ EndJob(s)
  /\ UNCHANGED <<now, schedule, directory, reports, messages, edits, crashes>>

\* bulk_create: all rows or, on a duplicate key, none: the rollback takes the
\* flushed Notification and the lock with it, and the run is SKIPPED.
BulkCreate(s) ==
  /\ job[s].phase = "insert"
  /\ ~MustWait(s)
  /\ \/ /\ job[s].rows \cap Reported(job[s].day) = {}
        /\ job' = [job EXCEPT ![s].phase = "dispatch", ![s].todo = job[s].rows]
        /\ UNCHANGED lock
     \/ /\ job[s].rows \cap Reported(job[s].day) # {}
        /\ EndJob(s)
  /\ UNCHANGED <<now, schedule, directory, reports, messages, edits, crashes>>

BugSendsWithoutClaim(s, r) ==
  /\ job[s].phase = "dispatch"
  /\ r \in job[s].todo
  /\ messages' = [messages EXCEPT ![job[s].day][r] = @ + 1]
  /\ UNCHANGED <<now, schedule, directory, reports, lock, job, edits, crashes>>

\* dispatch_deliveries, one row; no message when the recipient is gone.
Dispatch(s, r) ==
  /\ job[s].phase = "dispatch"
  /\ r \in job[s].todo
  /\ job' = [job EXCEPT ![s].todo = @ \ {r}]
  /\ \/ messages' = [messages EXCEPT ![job[s].day][r] = @ + 1]
     \/ UNCHANGED messages
  /\ UNCHANGED <<now, schedule, directory, reports, lock, edits, crashes>>

\* session.commit() once everything was sent.
Commit(s) ==
  /\ job[s].phase = "dispatch"
  /\ job[s].todo = {}
  /\ reports' = reports \cup {[id |-> Cardinality(reports), day |-> job[s].day,
                               rows |-> job[s].rows]}
  /\ EndJob(s)
  /\ UNCHANGED <<now, schedule, directory, messages, edits, crashes>>

\* The process dies, or the poll raises: rolled back, and polled again.
Crash(s) ==
  /\ job[s].phase # "idle"
  /\ crashes < MaxCrashes
  /\ crashes' = crashes + 1
  /\ EndJob(s)
  /\ UNCHANGED <<now, schedule, directory, reports, messages, edits>>

-----------------------------------------------------------------------------
(* The world around it *)

Tick ==
  /\ now < LastSlot
  /\ now' = now + 1
  /\ UNCHANGED <<schedule, directory, reports, lock, job, messages, edits, crashes>>

\* PATCH /settings/report-schedule, in Dhaka time.
UpdateSchedule(slot) ==
  /\ edits < MaxEdits
  /\ edits' = edits + 1
  /\ schedule' = DhakaToUtc(slot)
  /\ UNCHANGED <<now, directory, reports, lock, job, messages, crashes>>

\* Users, consents and the template are edited through the directory's routes.
EditDirectory ==
  /\ edits < MaxEdits
  /\ edits' = edits + 1
  /\ \/ /\ eligible' \in SUBSET Recipient
        /\ UNCHANGED template
     \/ /\ template' = ~template
        /\ UNCHANGED eligible
  /\ UNCHANGED <<now, schedule, reports, lock, job, messages, crashes>>

Poll(s) ==
  \/ Wake(s)
  \/ CheckSchedule(s)
  \/ CheckExists(s)
  \/ TryLock(s)
  \/ Resolve(s)
  \/ BulkCreate(s)
  \/ \E r \in Recipient : Dispatch(s, r)
  \/ Commit(s)

Next ==
  \/ \E s \in Scheduler : Poll(s) \/ Crash(s)
  \/ Tick
  \/ \E slot \in Slot : UpdateSchedule(slot)
  \/ EditDirectory

Spec == Init /\ [][Next]_vars

\* The interval trigger fires for ever, and a poll that is not lost runs on.
FairSpec == Spec /\ \A s \in Scheduler : WF_vars(Poll(s))

-----------------------------------------------------------------------------
(* Properties *)

\* A recipient has at most one delivery row per Operational Day, although the
\* exists check of a second poll may be stale by the time it inserts.
OneRowPerDay ==
  \A a, b \in reports : a # b /\ a.day = b.day => a.rows \cap b.rows = {}

\* No Notification without deliveries is left behind by a poll that is skipped
\* (the orphan that _run_daily_report_async's comment on its exists check fears).
NoOrphanNotification == \A a \in reports : a.rows # {}

\* A recipient gets a second copy of a day's report only after a transaction
\* that had sent it was lost: overlapping schedulers alone never cause one.
RepeatNeedsCrash ==
  \A d \in Day, r \in Recipient : messages[d][r] <= 1 + crashes

\* Two polls are never past the lock together, so neither waits for the other's
\* rows while it holds its own.
OneRunAtATime ==
  \A s \in Scheduler :
    job[s].phase \in {"resolve", "insert", "dispatch"} <=> lock = s

\* What a reader of the database and of the recipients' phones can see of it.
Filed == {[day |-> a.day, rows |-> a.rows] : a \in reports}

Dispatching == {s \in Scheduler : job[s].phase = "dispatch"}

OpenReport ==
  {[day |-> job[s].day, rows |-> job[s].rows, todo |-> job[s].todo] : s \in Dispatching}

Daily ==
  INSTANCE DailyLedger
    WITH filed <- Filed, open <- OpenReport, lost <- crashes

\* However the schedulers overlap, wait for each other and die, the reports go
\* out as if one sender wrote them into a ledger, a report at a time: the stale
\* exists check of a poll and its end without a commit show nowhere.
KeepsDailyLedger == Daily!Spec

\* A report that is due, with somebody to send it to and a template, is sent
\* whoever crashes or skips, if that stays so.
DueReportIsSent ==
  \A d \in Day :
    <>[](/\ DhakaDay(now) = d
         /\ now % SlotsPerDay >= schedule
         /\ eligible # {}
         /\ template)
      => <>(Reported(d) # {})

\* Every run that takes the advisory lock lets go of it, on every path.
LockIsReleased == lock # None ~> lock = None

\* The instant of the send time on Operational Day d.
SendTime(d) ==
  d * SlotsPerDay + ((schedule + DhakaOffset) % SlotsPerDay) - DhakaOffset

\* The configured send time comes before the dispatch, never after it: the poll
\* interval is the "worst-case delay between" them (config.py).
NotBeforeSendTime ==
  \A s \in Scheduler : job[s].phase = "dispatch" => SendTime(job[s].day) <= now

\* The unique index is the "authoritative zero-duplicate-send guarantee for the
\* wider restart/misfire case" (run_daily_report).
ZeroDuplicateSends == \A d \in Day, r \in Recipient : messages[d][r] <= 1
=============================================================================
