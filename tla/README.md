# A TLA+ model of GrowthTrack

GrowthTrack imports sales data every night, shows it on a dashboard, and sends
WhatsApp messages through Twilio: a Daily Report at a configured time, and
messages that an Administrator composes. This directory models the parts whose
correctness depends on the order of concurrent steps, on crashes, and on
messages that arrive late or twice.

Paths below are relative to `src/`.

## 1. Inventory

Three processes share one PostgreSQL database at READ COMMITTED: the API
(FastAPI, `api/`), the scheduler (APScheduler, `scheduler/main.py`) and the
portal (`web/`), which only calls the API. Twilio is outside. There is no
in-process shared state: processes interact through rows, row locks, advisory
locks, unique indexes, and Twilio's messages and callbacks. A request or a job
is one transaction, committed by the route or by the job, except that the retry
job commits once per row.

| Component | State | Operations | Hard behaviour | What makes it correct |
|---|---|---|---|---|
| Deliveries (`domain/notifications.py`, `adapters/persistence/notifications.py`) | `notifications`, `notification_deliveries`: status, `attempt_count`, `twilio_message_sid` | add, bulk_create, claim_for_dispatch, update_after_send | claim and send inside an open transaction; Twilio accepts what a rollback forgets | attempts account for messages; a row has one dispatcher at a time; no row is stuck |
| Retry job (`scheduler/main.py:205`) | none of its own | poll eligible rows, then claim, send and commit one by one | stale list, lost row, second process | retry bound; every retryable row is retried |
| Status webhook (`api/webhooks/routes.py`, `apply_status_update`) | none of its own | read by SID, rank check, update | duplicated, reordered and early callbacks; two handlers | status moves up only; only the newest attempt's callback counts |
| Daily Report job (`scheduler/main.py:119`, `domain/scheduled_notifications.py`) | advisory lock, the day's Notification and rows | check clock, check exists, lock, resolve, insert, dispatch, commit | overlapping schedulers, restart, two calendars | one row per recipient and day; sent when due, not before |
| Report schedule (`domain/report_schedule.py`) | one row: a UTC time of day | update in Dhaka time | wrap at midnight | the stored time is the configured instant |
| Manual notification (`api/notifications/routes.py`) | as Deliveries | compose and send | several statements per resolution, a template edited meanwhile | one moment's audience, one version of the template |
| Recipient resolution, templates (`domain/notifications.py`) | `message_templates` | resolve, create and update template | overlap of users, teams and lists | everybody once, only the eligible |
| Users (`domain/recipients.py:133`) | `users`, with versions | CRUD | optimistic concurrency, unique numbers | no lost update, no resurrection |
| Teams (`domain/recipients.py:289`) | `teams`, with versions | CRUD, created by the import too | a rename against an import | doctors stay with their territory; a name is one team |
| Lists (`domain/recipients.py:383`) | `recipient_lists`, members | CRUD, replacement of members | two edits of one list | no lost update |
| Consent (`domain/recipients.py:513`) | consents: mobile, revoked_at | grant, revoke, revoke on mobile change | grant against a mobile change | an active consent is for the user's present mobile |
| Administrator accounts (`domain/bootstrap.py`, `domain/administrators.py`) | `users` | bootstrap, remove | two bootstraps, two removals | never zero Administrators once there is one |
| Login, sessions, password reset (`domain/auth.py`, `sessions.py`, `password_reset.py`) | failure counter, lock, revoked tokens, reset links | login, logout, request and complete reset | racing counters, stale reads | every miss counts; a lock is kept |
| Nightly import (`domain/ingestion.py`) | `import_runs`, staging, fact tables | lock, stage, validate, promote, record failure | a failure half way, two imports, a crash | all or nothing |
| Dashboard metrics (`domain/metrics.py`), formatting (`domain/report_formatting.py`) | none | a summary in five statements, brand lists, rounding | an import between two statements, ties, negative numbers | agrees with the source and with its own badge |
| Daily Report content (`domain/daily_report.py`), preferences, audit log, portal, migrations | - | - | - | nothing concurrent to check |

`PROJECT.json` gives each component's status, and lists every hazard at its line
with the properties that watch it, or why none does yet.

## 2. Modules

| Module | What it is |
|---|---|
| `Deliveries` | delivery rows, dispatching transactions, retry job, webhook handlers |
| `AttemptLedger` | the abstract specification that `Deliveries` implements |
| `DeliveriesProofs` | TLAPS proofs about `Deliveries` |
| `MCDeliveries` | TLC instances of `Deliveries` |
| `DailyReport` | the Daily Report job, its lock, the two calendars, the schedule |
| `DailyLedger` | the abstract specification that `DailyReport` implements |
| `DailyReportProofs` | TLAPS proofs about `DailyReport` |
| `MCDailyReport` | TLC instances of `DailyReport` |
| `Directory` | users and consents under concurrent requests |
| `DirectoryProofs` | TLAPS proofs about `Directory` |
| `MCDirectory` | TLC instances of `Directory` |
| `Accounts` | Administrators: bootstrap, removal, login and lockout, sessions, reset links |
| `AdminRoster` | the abstract specification that `Accounts` implements |
| `AccountsProofs` | TLAPS proofs about `Accounts` |
| `MCAccounts` | TLC instance of `Accounts` |
| `NightlyImport` | imports beside edits of the teams they resolve |
| `NightlyImportProofs` | TLAPS proofs about `NightlyImport` |
| `Dashboard` | extends `NightlyImport` with the request that reads a summary, and the pure parts |
| `Totals` | sums over finite sets |
| `TotalsProofs` | TLAPS proofs about them: lemmas for `DashboardProofs` |
| `DashboardProofs` | TLAPS proofs about `Dashboard`, from the invariant of `NightlyImportProofs` |
| `MCDashboard` | TLC instance of `Dashboard`, with the Source System's files |
| `Audience` | lists, templates, compose requests and retries over a changing directory |
| `AudienceProofs` | TLAPS proofs about `Audience` |
| `MCAudience` | TLC instances of `Audience` |

Definitions named `Bug...` are mutants: plausible mistakes in the operator that
follows them. No specification uses them; each is there to show that some
property notices the mistake.

### 2.1 Deliveries

`committed` is what other transactions read. A dispatcher (a Send Event, that is
one request or one daily job, or a scheduler process running the retry job) that
wrote a row holds its row lock (`lock`) and its own version (`pending`) until it
commits. The actions, one per operation of the code:

| Action | Code |
|---|---|
| `StartEvent` | `notifications.add` and `bulk_create`: rows QUEUED, flushed and not committed |
| `ListRetryEligible` | the retry job's one query per poll |
| `ClaimForDispatch` | the conditional UPDATE to SENDING; it waits for a row lock |
| `Send` | `send_template_message` and `update_after_send` |
| `Commit` | the route's or the job's `session.commit()` |
| `Crash`, `SkipRow` | lost process or request; the retry job's `except Exception` with rollback |
| `ReadCallback`, `ApplyCallback`, `EndCallback` | `apply_status_update`: SELECT and decision, then UPDATE and commit, or no write |

Abstractions. A SID is the number of the attempt it was issued for. The three
backoff times become "an eligible row may be listed at any time", so every
timing is covered. `Send` has three outcomes: Twilio accepted the message and
said so, refused it, or accepted it while the call raised, which the code records
as a failure. A callback may come for any accepted message at any time, any
number of times. Messages of a rolled-back transaction stay in `tries` and
`accepted`: the world outside remembers what the database forgets. READ and
DELIVERED, which the code ranks the same, are one status. `retrying` is declared
in `domain/models.py` and no code path writes it, so it is not in the model's
type; `BugSaysRetrying` is the mutant that writes it.

### 2.2 DailyReport

A poll is a transaction with a program counter (`job[s].phase`): read the clock,
check the schedule, check for the day's rows, try the advisory lock, resolve,
insert, dispatch, commit. Each early return of `_run_daily_report_async` and
`run_daily_report` is the second disjunct of an action and ends the transaction,
which releases the lock. The unique index on (recipient, operational day) is
`BulkCreate`'s guard: an insert that meets a committed row fails and the run is
skipped; one that meets another transaction's uncommitted row waits (`MustWait`).

Time is counted in UTC slots. An Operational Day is a Dhaka calendar day,
`DhakaOffset` slots ahead. The runs use 4 slots of six hours with an offset of one,
which is exactly Asia/Dhaka's UTC+6; the initial schedule is any slot.

`DailyLedger` is what the lock, the index and the single transaction are for: a ledger in
which one sender at a time opens a report for recipients who have none for that day, deals
with each of them once (a message, or none), and files the report when all are done; a
sender may be lost, and what it had not filed is forgotten while its messages are not.
`KeepsDailyLedger` maps the committed Notifications to `filed`, the polls that are
dispatching to `open`, and crashes to `lost`. The ledger has no clock, no lock and no stale
check; it does not promise one report a day, because the code does not: a second
one for other recipients is possible after the directory was edited between two polls.

### 2.3 Directory

Each request handler runs one transaction, statement by statement: `CreateUser`,
`UpdateUser`, `RemoveUser`, `GrantConsent` and `RevokeConsent` are the arrival of
a request with its `get_by_id`; the statements that follow are actions of their own
(`CheckNumber`, `WriteUser`, `IndexNumber`, `InsertUser`, `CheckConsent`,
`InsertConsent`, `ScanConsents`, `RevokeConsents`, `Commit`). Early returns and
constraint violations end the transaction; `Rollback` is a handler that raised or
was lost. An UPDATE of `users` is two actions because PostgreSQL takes the row's lock
first and may then wait in the partial unique index, holding it; an UPDATE of
`opt_in_consents` is two because it writes the rows it saw when it started.
`Blockers(r)` is the set of requests that r's next statement waits for. The check
that the team is active, and teams themselves, are left out; a request that
fails it changes nothing, as one that rolls back. `raced` is a history variable.

### 2.4 Accounts

A request (`tx[q]`) runs the statements of its handler one by one. `read` is the
row as the handler read it at the start, which all its decisions use; `row` is what its
transaction has written; an UPDATE takes the row as committed once the row's lock is
free (`RowIsFree`, `Own`). The two transaction-scoped advisory locks are predicates of
the phases (`HoldsBootstrapLock`, `HoldsRemovalLock`). `CountMiss` is one action for the
increment and the lock at the threshold, since the first keeps the row locked for the
second; so is `UpdatePassword` for the new hash and `clear_lockout`. `Commit` publishes whatever
the request did, `Rollback` forgets it. Passwords are named by the link they were set
with. `misses` is a history variable: the wrong passwords that were committed since the
counter was last cleared.

`AdminRoster` knows only who has a row and who is active: one founder, then retirements,
never of the last. `KeepsRoster` shows that bootstraps, removals, logins, resets and
crashes do nothing else to the two sets.

### 2.5 NightlyImport and Dashboard

An import is one transaction. Its facts are written under an advisory lock that keeps
other imports out, so the upserts, `mark_succeeded` and the commit are one action,
`Promote`; what interleaves with Administrators is the resolution of team names, which
is statement by statement: `InsertTeam` (ON CONFLICT DO NOTHING, waiting for an open edit
of the same name), then `SelectTeam`. When an edit removes the team in between,
`SelectTeam` is never enabled and `Fail` ends the run, as `scalar_one` does. `Fail` may come at any
point, since any statement may raise; `RecordFailure` is a transaction of its own, without
the lock. `Crash` leaves nothing. A row of a file carries what the properties tell apart:
its key, its figures, whether its validator accepts it and, for doctors, whether it has columns
that are not expected. `Unreadable` is the one malformed row that is not rejected: a doctor
with more fields than the header, which fails the night. Facts remember the run and the
team name they came from. A file is a sequence of rows; an upsert takes the last valid row of its
key (`SalesOf`, `RanksOf`, `VisitsOf`, `LastOf`), as `upsert_many` keeps one row per key. Amounts and
percentages are decimals of any precision in the code; here they are the integers that count a
unit common to all of them (`Amount`, `Pct`), and `OnePercent` says how many units of `Pct` are
one percent. That the division of Python's `Decimal` keeps 28 digits is left out.

`Dashboard` adds a request that reads today's, the year's and the month's sales, the latest
row of every team, and last the badge's time, in five actions between which `NightlyImport`
may step. `SummaryShowsTheSource` compares the three sums and the latest rows with what the files say,
computed from the staged rows without teams or upserts (`SourceTotal`, `SourceLatest`); a row
read is compared under its team's name (`AsSource`). The sums are over sets (`Totals!Total`), as
are the two of the headline, which is kept as the exact fraction. `FormatPercent` rounds it:
`HeadlineIsAMean` says that the fraction is between the least and the greatest percentage of the
latest date, that the whole percent shown is the nearest to it, the greater one on a tie, and that it
is between these two as they would be shown. The mutant rounds ties to the even neighbour, as
Python's `round()` does. `ClassifyBrands` and `FormatPercent` are pure: the first is checked over
all inputs of three brands, the second on every headline reached. Only `external_brand_id` is
unique, so brands may have one name; what ties in everything keeps the order of `list_all` (`place`).

### 2.6 Audience

A compose request reads the template, then teams and their members, lists and theirs, users and
consents in a statement each; after the rows are inserted it reads the users once more
(`ReadNumbers`, `domain/notifications.py:513`), whose numbers the send loop uses, sends to one
recipient after another and commits. Lists and templates
are edited by requests with the same statement-by-statement treatment and the waits of
their indexes. `Directory`'s transactions are their commits here (`RemoveUser`, `UpdateUser`,
`GrantConsent`, `RevokeConsent`), and so is a team's removal. What such a transaction had read
before is not forgotten, though. A grant records any number that its user has had (`had`), as it
inserts the number it read at its start; an edit moves a user to any team that was active at some
time since the row was last written (`checked`), as it asks before it writes. So an active consent
for another number than its user's is a state of this module, as `directory_consent_race` shows it is of
the code, and the run `audience` starts from one. A resolution asks only whether there is an active consent:
`ResolvesOneMoment` says whom it reaches and at which of the users' numbers, and does not say that
the number is the one consented for, which is false. `RetryRead` and `RetrySend` are the
retry of one failed delivery: they read the template and the user as they are then, and the
variables as they were stored. `calm` is a history variable: nothing that a resolution
reads has been committed since the request began.

## 3. What is checked

### Runs that pass

| Run | Instance | What it shows |
|---|---|---|
| `deliveries` | 2 rows of one Send Event, 1 scheduler, 2 webhook handlers, 1 retry, 1 lost transaction (324,471 states); two dispatchers contending for a row are in the proofs only | `TypeOK`; `SendsAccounted`: attempts on record and lost transactions account for all messages; `RetriesBounded`; `NoOrphanedQueued`: no committed row is out of the retry job's reach as QUEUED; `SendingAwaitsNewest`; `NoEarlyGiveUp`: FAILED only when the budget is spent; `KeepsLedger`: refinement of `AttemptLedger`; `OnlyRacesUndoDelivered`: only a handler that read the row before it was DELIVERED takes it out; `RetryableIsRetried`: a retryable row does not stay so |
| `report` | 1 recipient, 2 schedulers, 1 edit, 1 crash, a day and a slot (138,502 states) | `OneRowPerDay`, `NoOrphanNotification`, `RepeatNeedsCrash`: a second copy needs a lost transaction, overlap alone never causes it; `KeepsDailyLedger`: refinement of `DailyLedger`; `DueReportIsSent`: a report that stays due is sent; `LockIsReleased` |
| `directory_safety` | 2 users, 2 numbers, 2 requests of any kind, versions up to 3 (839,366 states) | `ActiveMobileUnique`, `OneActiveConsent`: the indexes behind the advisory look-ups; `EditsWhatWasSeen`: no lost edit; `RemovedStaysRemoved`; `NoWaitCycle`: no deadlock, which rests on the look-up that the code calls advisory; `OnlyRacesSplitConsent` |
| `accounts` | 2 Administrators, present or not at the start, 2 requests of any kind, 1 link, 1 token, threshold 2, the clock advances once | `LastAdministratorStays`; `KeepsRoster`: refinement of `AdminRoster`; `LockoutEngages`: the misses that the counter must not lose; `LockHolds`: a lock in force goes only by a completed reset or by a login that read the account before it was set |
| `nightly` | 2 scheduler processes, 2 imports out of 3 files, 1 handler that edits 2 teams, 1 dashboard request (363,642 states) | `AllOrNothing`: a night's facts, teams and counts appear together or not at all; `OnlyTeamEditsDoubleCount`: a name's sales of a date stand once unless a team was renamed or removed; `OnlyImportsOrphanDoctors`: a rename takes a doctor off a visit list only if an import brought that doctor behind the guard's back; `StampCoversFigures`; `SummaryShowsTheSource`: sums and latest rows; `HeadlineIsAMean`; `BrandsClassified` |
| `audience` | 2 users, one of them with a consent for a third number, 2 teams, 1 list, 1 template, 2 requests of any kind, 1 directory commit, 1 notification and its retries (2.0 million states) | `ResolvesOneMoment`: a resolution and read of the numbers beside which nothing was committed is exactly the committed state's audience, at its present numbers; `FirstSendsMatchTheirTemplate`: SID and variables of a first send belong to one version of a template; `NoLostListEdit` |

### Runs that refute what the repository says of itself

| Run | Claim | What happens |
|---|---|---|
| `deliveries_early_callback` | an unknown SID means "superseded by a retry" (`domain/notifications.py:581`) | the SID becomes visible only at the commit after the whole loop; a prompt callback is answered SUPERSEDED and lost, with no retry anywhere |
| `deliveries_callback_race` | no move between terminal statuses (`domain/notifications.py:549`) | two handlers read SENDING; one writes DELIVERED, the other overwrites it |
| `report_early` | the poll interval is the worst-case delay after the send time (`config.py:122`) | the due check uses the UTC date and the report the Dhaka date: with 07:00 Dhaka the report goes out at 00:00 Dhaka |
| `report_restart` | the unique index is the zero-duplicate guarantee for restarts (`domain/scheduled_notifications.py:108`) | a process that dies between its sends and its single commit leaves no row, and the next poll sends everything again |
| `directory_consent_race` | a number change blocks delivery until fresh consent (`USER_GUIDE.md:101`) | a grant that read the old number commits after the change: an active consent for a number the user no longer has lets messages go to the new one |
| `audience_retry` | the same sentence | the retry job reads the user's row at the poll and asks nobody for consent: a number set after the failed attempt is sent to without any consent for it |

### Bounds

`MaxRetryAttempts` and `BackoffSteps` are 1 in the passing delivery runs and 3, as in
the code, in the two refutations. One retry is enough for the passing ones
because all attempts after the first take the same path: there is a first
attempt, a last one that exhausts the budget, and a claim between them. The
proofs cover every value. With one Send Event and one poller no two dispatchers ever want one
row in these runs, so `KeepsLedger` and the accounting under an overlap of two retry jobs are
shown by `LedgerRefinement`, `SendsAreAccounted` and `GiveUpOnlyWhenSpent`, which are for any number of
dispatchers, and not by TLC.
Two rows are needed for a batch in which one row fails and another goes on; two
handlers for the read-then-write race. `LastSlot = 4` spans one UTC day
with the change of Dhaka date inside it; two schedulers are the overlap of a
rolling restart. The passing report run has one recipient, since recipients meet only in
the Notification they share; `report_restart` has two, and the proofs cover any number.
Version 3 lets a row be created or given, changed, and changed again
by a request that saw an older version.

In `accounts` two Administrators and two requests are the races that the guards are
for; a threshold of two is the smallest at which a lost increment shows, and one step of the
clock lets a lock, a link and a session expire. In `nightly` two runs are a night and its
correction or retry, and the second scheduler overlaps the first; the three files have a
repeated key, a rejected row, a team that moves between nights, a doctor that moves and
a doctor's row that cannot be read. Their percentages are in halves, and the headlines
reached are -9.5, 0.5 and -2.83: a tie on either side of zero and a negative fraction.
Two team rows suffice for a name to be held twice. In
`audience` the selections overlap (a user picked who is also in the team or on the list),
the second team is one to move to, and the two contents have their slots in opposite orders. There is one list, one template and one
name, so clashes of names are left to `Directory` and `NightlyImport`, which have the same
look-up, index and wait.

`MaxVersion`, `MaxRollbacks`, `MaxCrashes`, `MaxEdits`, `LastSlot`, `MaxClock`, `MaxRuns` and `MaxChanges` are
guards that bound the state space and nothing in the code. Symmetry is used only in runs
without liveness properties, over sets whose members play the same part at the start.

`CHECK_DEADLOCK FALSE` stands in the deliveries configurations because that
system may rightly stop: every Send Event is over, nothing is left to retry and
no message was accepted. It stands in `accounts`, `nightly` and the audience runs because ids, the
clock, the runs and the directory's commits are bounded and may be used up. The other runs
check deadlock.

### Fairness

`Deliveries!FairSpec` asks weak fairness of every dispatcher's own steps, since
a request or job that is not lost runs to its end, and strong fairness of the
retry job listing a row. The job is an interval trigger that
polls for ever (`scheduler/main.py`), a backoff is finite, and the query
takes every row whose backoff has elapsed: a row that is eligible at
infinitely many polls is listed. Strong rather than weak fairness is needed
because the job lists only when its last batch is done. No fairness is asked of
Twilio or of the webhook handlers: callbacks may never come. `DailyReport!FairSpec` asks weak fairness of
each scheduler's poll (interval trigger; a poll that is not lost runs on) and
none of the clock, the edits or the crashes.

## 4. What is proved

All theorems are over arbitrary sets of rows, dispatchers, handlers, recipients,
schedulers, Administrators, users, teams, lists and requests, arbitrary files and
arbitrary bounds; the sets that something is counted or summed over are finite: schedulers
and Administrators, and `Dashboard`'s dates, teams and names. They start from the
named assumptions, which TLC evaluates in every run:

| Assumption | What it asks |
|---|---|
| `DeliveriesAssumption`, `DailyReportAssumption`, `AccountsAssumption` | NULL is no id; the retry budget is within the backoff steps; a day has slots and the offset of Dhaka is at most a day; finitely many schedulers and Administrators; limits and times to live are positive |
| `DirectoryAssumption` | NULL is no number and no user; versions start at 1 |
| `NightlyImportAssumption` | NULL is no team, name or batch; files are sequences of rows |
| `DashboardAssumption` | dates are ordered, and the year starts before the month, the month before today; a percent is at least one unit; dates, teams and names are finite sets, being columns of a fixed width |
| `AudienceAssumption` | users have a number and a team, and a consent for any number or none; rows of different tables are different; a template's slots are a sequence |

Each module proves `Init => IInv`, `IInv /\ [Next]_vars => IInv'` with one lemma per
action, and draws the properties from `IInv`.

**DeliveriesProofs.** None of the properties is inductive alone. `IInv` says for
every dispatcher what its `step` implies about the rows it has locked, their
pending version, and what it has still to do; that a locked row's pending
attempt count is at most one ahead; and that `tries` is bounded by the counted
attempts plus the lost transactions. `SendsAccounted`, `NoOrphanedQueued`,
`SendingAwaitsNewest` and `NoEarlyGiveUp` follow. `LedgerRefinement` shows each step
to be a step or a stutter of `AttemptLedger`, with `attempts` the committed count and
`holder` the lock. `RetriesBounded` needs more: two scheduler processes can each list a
row and dispatch it in turn, so the bound is false for two. `OnePollerBounded`
assumes a single poller, which is what `docker-compose` runs, and proves it from
a second invariant.
`RacesUndoDelivered` is the action property `OnlyRacesUndoDelivered`: a row committed
as DELIVERED is in no dispatcher's transaction, and a handler that reads it so finds no
higher rank to give it and ends.

**DailyReportProofs.** `IInv` ties `lock` to the phases (only its holder is in
`resolve`, `insert` or `dispatch`), keeps an inserting run's rows disjoint from
the committed rows once it is dispatching, and states the payment argument
behind `RepeatNeedsCrash`: every copy handed to Twilio is paid for by a committed
row, by the open transaction that has taken the recipient off its `todo`, or by
a crash. The two calendars enter through arithmetic lemmas (`DivMonotonic`,
`TodayIsADay`, `DhakaToUtcIsASlot`). `Serialised` is `OneRunAtATime`, the part of `IInv` about
the lock; no run lists it, since `KeepsDailyLedger` shows what it is good for.
`LedgerRefinement` proves that refinement: a run dispatches alone (`OneOpenReport`), so
`BulkCreate` finds nothing open and opens a report whose rows the index found free
(`BulkCreateOpens`), a dispatch, a commit and a crash are the ledger's `Send`, `File` and
`Lose`, and every other step of a poll leaves the ledger as it is (`SameOpenReport`).

**AccountsProofs.** The guard of the last Administrator is a count that is followed by a
write, so `LastAdministratorStays` is not inductive. `IInv` says what each request has
read and nobody takes back: a bootstrap about to commit has seen a table that is still
empty (`Known`), and a removal that holds the advisory lock past its count has another
active Administrator (`Guarded`). It also says that the two advisory locks and each row
have one writer (`Apart`), and that only bootstraps and removals write a status
(`Pending`). `CommitRoster` sums up what a commit does to the roster, from which follow both
`IInv'` and `RosterRefinement`: `Accounts` implements `AdminRoster`, for any number of requests.
A removal of a target that was read as inactive takes no lock; the proof shows
why it needs none.
`EveryMissCounts` (`LockoutEngages`) rests on a second invariant, `Counted`: stored and
uncommitted counters agree with `misses`, because each is written from the row as it
stands and under its lock. `LocksAreKept` (`LockHolds`) rests on a third, `Locks`: a
login that gets as far as writing had read the account without a lock in force.

**DirectoryProofs.** A look-up before a write promises nothing by itself; what makes the
indexes and versions work is who may write what at the same time. `IInv` says that a written
row, an entered number and an added consent belong to one request (`Apart`), that an
entered number is nobody else's (`Reserved`), that a request has read an earlier state of
its row or the present one (`Read`), and that a pending row is one version ahead
(`Pending`). `NumbersUnique`, `ConsentsSingle`, `NoLostEdit` and `RemovalIsFinal` follow.
`ConsentsFollow` rests on `Unraced`: where no grant overlapped an edit, the edit has seen
every consent it must revoke.
`NoDeadlock` is the surprising one. An edit holds its row's lock while it waits in the
unique index, so two edits that want each other's numbers could wait for each other. They cannot:
each looked the number up and found it free, and the user who has it by now is being edited by
the other, which therefore began after that look (`Behind`). `InOrder` says that any
group of requests has one that is behind none of the others. So the advisory look-up
of `update_user` is what excludes a circle of waits, of any length.

**NightlyImportProofs.** `AllOrNothing` says that facts come from successful runs and that a
successful run's rows are shown or superseded by newer ones. `IInv` adds what the
transaction must know on its way: the number of a run is the latest (`Underway`,
`OneNightAtATime`), every name of its files is resolved to a team that is committed or that
it has inserted (`Resolved`), and an inserted name is held against edits and they against it
(`Reserved`), which gives the index (`NamesUnique`) and, with the names that facts
remember (`FactsKnown`), `EditsAloneDoubleCount`. `Read` says that a rename which has passed its
guard found no doctor of the territory among those imported so far; `RenamesAloneOrphanDoctors`
is what is left of the guard's promise. Upserts are described by positions in
the file (`LastOf`) instead of a recursion over rows, so that a well-founded order
(`LastIs`) and the cardinality of a split (`Split`) stand in for induction.

**TotalsProofs.** `Total` is the community modules' fold, whose definition chooses a function
on subsets. Induction over sets is out of the prover's reach, but a smallest counterexample
is not: the subsets of a finite set on which a claim fails have one of least cardinality
(`SmallestSet`). From this follow that the fold exists (`TotalExists`), that a sum splits
(`TotalSplit`), lies between bounds of its terms (`TotalWithin`), is zero only when its
terms are (`TotalZero`), and is the same under another set of keys that corresponds one to
one to the terms that are not zero (`TotalRekeyed`).

**DashboardProofs.** A summary is several statements between which imports commit. `BoardInv` is
`NightlyImportProofs`' `IInv` with what the figures rest on. `Stamped`: the newest run among
what has been read has succeeded; it stays so, and the badge is read last, hence `StampCovers`.
`Sourced`: every fact is the last valid row for its date and name in the file of the run that
wrote it. `CreatedActive`: a team at its first version has not been removed, so names and
teams correspond one to one while nobody edits teams. `Fresh`: a reading that
no import has overtaken has the sums and the latest rows that the facts have now. `SummariesShowTheSource` puts them
together: the facts are keyed by date and team and the files by date and name, and
`TotalRekeyed` says that the sums agree (`SourceIsOnRecord`, `SumIsSourceTotal`); the same
correspondence takes the latest row of a team to the latest row of its name.
`HeadlineIsMean` is arithmetic under `Headed`, which says that the headline was computed
from the rows read with it: a mean lies between the bounds of its terms (`WeightedMean`),
the floor of a doubled fraction is the nearest integer (`Nearest`), and what is nearest to a smaller
fraction is not greater. It holds for every `OnePercent`, so for percentages of any precision. `FiguresAreTyped` is
`BoardTypeOK`.
`BrandsAreClassified` rests on `FirstsCount`: of a finite, strictly ordered set the first n
are as many as they should be and before all others. It is proved by a smallest
counterexample; `Classifies` then holds for any finite set of brands and any limits, where
the run has three brands and limits up to two.

**AudienceProofs.** `ResolvesOneMoment` compares an audience collected over up to seven statements
with one state. `Resolves` says what every statement has collected so far, in terms of the
committed state, as long as `calm` holds. A commit leaves every other request at its
statement (`Same`), the list it is about as it was or not yet written (`Undisturbed`), and
either does not touch what a resolution reads or ends the calm (`Stirred`). `NoListEdit` rests on `Pending` and `Apart`: a list is
written at the version that was read, by one request. `FirstSendsMatch` is nearly inductive: a
compose request keeps the one content that it read.

**Only model-checked.** The liveness properties `RetryableIsRetried`,
`DueReportIsSent` and `LockIsReleased`: fairness is out of the prover's reach. Every invariant
and every action property of a passing run, and every refinement, is proved as well; of
`RetriesBounded` the case of one scheduler process, the only one in which it holds.

## 5. What is not modelled, and the plan

Not modelled: the portal, HTTP and JSON, message texts, Twilio's signature
arithmetic, audit entries, migrations, seed data. In `DailyReport` a row's later life is
left to `Deliveries`, and a scheduler that is down for the rest of a UTC day is not
distinguished from one that polls slowly. `Dashboard` leaves out
the staleness message, which is derived from the same stamp.
Some behaviours are reachable in the modules and stated by no property, because the code
does not keep them or nothing promises them: two completions of a password reset with one link may
both succeed when they overlap; a retry after a template was edited pairs the new SID
with the old variables; a night fails when a team is removed between the import's two looks at it,
or for one doctor's row with too many fields; and a failed night that crashes before
`RecordFailure` is not on record.

What is left, in this order:

1. In `AccountsProofs`, what a session and a reset link are worth after a removal.
2. The same theorems over a directory in which teams, users and lists change in one module.
