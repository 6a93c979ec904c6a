----------------------------- MODULE Deliveries -----------------------------
(***************************************************************************)
(* The life of a NotificationDelivery row: the transaction of a Send Event *)
(* (ManualNotificationService.compose_and_send, run_daily_report) creates  *)
(* the rows and dispatches them, the scheduler's retry job re-dispatches   *)
(* the failed ones, and Twilio's status callbacks move them on.            *)
(*                                                                         *)
(* The database is PostgreSQL at READ COMMITTED: readers see `committed`;  *)
(* a transaction that wrote a row holds its row lock (`lock`) and its own  *)
(* uncommitted version (`pending`) until it commits or rolls back, and     *)
(* every other writer of the row waits for it.                             *)
(***************************************************************************)
EXTENDS Naturals, FiniteSets

CONSTANTS
  Delivery,          \* notification_deliveries rows, by id
  Event,             \* Send Events: each is one request or job, one transaction
  EventOf,           \* the Send Event whose transaction inserts the row
  Poller,            \* scheduler processes running retry_failed_deliveries
  Hook,              \* API request handlers serving /webhooks/twilio/status
  None,              \* SQL NULL / nobody
  MaxRetryAttempts,  \* settings.notification_max_retry_attempts
  BackoffSteps,      \* attempt counts that have a backoff: 3 in the code
  MaxRollbacks       \* bound: transactions lost to a crash or an exception

Dispatcher == Event \cup Poller

ASSUME DeliveriesAssumption ==
  /\ EventOf \in [Delivery -> Event]
  /\ Event \cap Poller = {}
  /\ None \notin Dispatcher
  /\ None \notin Delivery
  /\ BackoffSteps \in Nat
  /\ MaxRetryAttempts \in 0..BackoffSteps
  /\ MaxRollbacks \in Nat

VARIABLES
  committed,  \* the row every other transaction reads
  lock,       \* the dispatcher whose open transaction wrote the row, or None
  pending,    \* the row as that transaction wrote it
  step,       \* where a dispatcher stands
  todo,       \* delivery_rows it has still to go through
  seen,       \* attempt_count of those rows as it read them
  cur,        \* the row it has claimed and not recorded an outcome for
  tries,      \* attempts made for the row, whatever became of the transaction
  accepted,   \* the attempts whose message Twilio accepted; SID = attempt
  hook,       \* what a webhook handler has decided
  rollbacks   \* transactions lost so far

store == <<committed, lock, pending>>
twilio == <<tries, accepted>>
vars == <<store, step, todo, seen, cur, twilio, hook, rollbacks>>

-----------------------------------------------------------------------------
(* Types *)

DeliveryStatus ==
  {"queued", "sending", "delivered", "failed_retryable", "failed"}

Row == [status: DeliveryStatus \cup {"absent"}, attempts: Nat, sid: Nat]

NoRow == [status |-> "absent", attempts |-> 0, sid |-> 0]

HookPhase == {"idle", "apply", "superseded", "rejected"}

HookState == [phase: HookPhase, row: Delivery \cup {None}, sid: Nat,
              status: DeliveryStatus \cup {"absent"}]

IdleHook == [phase |-> "idle", row |-> None, sid |-> 0, status |-> "absent"]

TypeOK ==
  /\ committed \in [Delivery -> Row]
  /\ lock \in [Delivery -> Dispatcher \cup {None}]
  /\ pending \in [Delivery -> Row]
  /\ step \in [Dispatcher -> {"new", "ready", "sending", "commit", "done"}]
  /\ todo \in [Dispatcher -> SUBSET Delivery]
  /\ seen \in [Dispatcher -> [Delivery -> Nat]]
  /\ cur \in [Dispatcher -> Delivery \cup {None}]
  /\ tries \in [Delivery -> Nat]
  /\ accepted \in [Delivery -> SUBSET Nat]
  /\ hook \in [Hook -> HookState]
  /\ rollbacks \in Nat

-----------------------------------------------------------------------------
(* Pure decisions. The definitions named Bug... are mutants: plausible errors  *)
(* in the operator that follows them, which the properties must notice.       *)

BugBudgetOffByOne(attempts) ==
  IF attempts < MaxRetryAttempts THEN "failed_retryable" ELSE "failed"

BugSaysRetrying(attempts) ==
  IF attempts < 1 + MaxRetryAttempts THEN "retrying" ELSE "failed"

StatusAfterFailedAttempt(attempts) ==
  IF attempts < 1 + MaxRetryAttempts THEN "failed_retryable" ELSE "failed"

BugFailureOutranksDelivered ==
  [s \in DeliveryStatus |->
     CASE s = "queued" -> 0 [] s = "sending" -> 1 [] s = "delivered" -> 2
       [] OTHER -> 3]

StatusRank ==
  [s \in DeliveryStatus |->
     CASE s = "queued" -> 0 [] s = "sending" -> 1 [] OTHER -> 2]

Claimable == {"queued", "failed_retryable"}

\* update_after_send: the SID is overwritten, also by NULL, and the count is the
\* database's own plus one.
BugCountsOnlyAccepted(row, status, sid) ==
  [status |-> status, sid |-> sid,
   attempts |-> IF sid = 0 THEN row.attempts ELSE row.attempts + 1]

BugKeepsFirstSid(row, status, sid) ==
  [status |-> status, sid |-> IF row.sid = 0 THEN sid ELSE row.sid,
   attempts |-> row.attempts + 1]

AfterSend(row, status, sid) ==
  [status |-> status, sid |-> sid, attempts |-> row.attempts + 1]

BugNoAttemptLimit ==
  {d \in Delivery : committed[d].status = "failed_retryable"}

BugForgetsLastBackoff ==
  {d \in Delivery : /\ committed[d].status = "failed_retryable"
                    /\ committed[d].attempts \in 1..(BackoffSteps - 1)}

\* list_retry_eligible, except that the backoff's clock is left open.
RetryEligible ==
  {d \in Delivery : /\ committed[d].status = "failed_retryable"
                    /\ committed[d].attempts \in 1..BackoffSteps}

\* The row as the transaction of p reads it.
View(p, d) == IF lock[d] = p THEN pending[d] ELSE committed[d]

RowsOf(e) == {d \in Delivery : EventOf[d] = e}

-----------------------------------------------------------------------------
Init ==
  /\ committed = [d \in Delivery |-> NoRow]
  /\ lock = [d \in Delivery |-> None]
  /\ pending = [d \in Delivery |-> NoRow]
  /\ step = [p \in Dispatcher |-> IF p \in Event THEN "new" ELSE "ready"]
  /\ todo = [p \in Dispatcher |-> {}]
  /\ seen = [p \in Dispatcher |-> [d \in Delivery |-> 0]]
  /\ cur = [p \in Dispatcher |-> None]
  /\ tries = [d \in Delivery |-> 0]
  /\ accepted = [d \in Delivery |-> {}]
  /\ hook = [h \in Hook |-> IdleHook]
  /\ rollbacks = 0

-----------------------------------------------------------------------------
(* The Send Event's transaction and the retry job *)

\* notifications.add and bulk_create: the rows are flushed, not committed.
StartEvent(e) ==
  /\ step[e] = "new"
  /\ step' = [step EXCEPT ![e] = "ready"]
  /\ todo' = [todo EXCEPT ![e] = RowsOf(e)]
  /\ lock' = [d \in Delivery |-> IF EventOf[d] = e THEN e ELSE lock[d]]
  /\ pending' = [d \in Delivery |->
                   IF EventOf[d] = e
                   THEN [status |-> "queued", attempts |-> 0, sid |-> 0]
                   ELSE pending[d]]
  /\ UNCHANGED <<committed, seen, cur, twilio, hook, rollbacks>>

\* One poll: the eligible rows whose backoff has elapsed, read once.
ListRetryEligible(p, rows) ==
  /\ step[p] = "ready"
  /\ todo[p] = {}
  /\ rows # {}
  /\ rows \subseteq RetryEligible
  /\ todo' = [todo EXCEPT ![p] = rows]
  /\ seen' = [seen EXCEPT ![p] =
                [d \in Delivery |->
                   IF d \in rows THEN committed[d].attempts ELSE 0]]
  /\ UNCHANGED <<store, step, cur, twilio, hook, rollbacks>>

\* UPDATE ... SET status = sending WHERE id = d AND status IN Claimable, which
\* waits while another transaction holds the row.
ClaimForDispatch(p, d) ==
  /\ step[p] = "ready"
  /\ d \in todo[p]
  /\ lock[d] \in {None, p}
  /\ todo' = [todo EXCEPT ![p] = @ \ {d}]
  /\ \/ /\ View(p, d).status \in Claimable
        /\ pending' = [pending EXCEPT
                         ![d] = [View(p, d) EXCEPT !.status = "sending"]]
        /\ lock' = [lock EXCEPT ![d] = p]
        /\ cur' = [cur EXCEPT ![p] = d]
        /\ step' = [step EXCEPT ![p] = "sending"]
     \/ /\ View(p, d).status \notin Claimable
        /\ UNCHANGED <<pending, lock, cur, step>>
  /\ UNCHANGED <<committed, seen, twilio, hook, rollbacks>>

\* send_template_message and update_after_send. "rejected": Twilio or the
\* transport refused it, or the recipient no longer exists; "lost": Twilio
\* accepted it but the call raised, so the code records a failure.
Send(p, outcome) ==
  LET d == cur[p]
      attempt == tries[d] + 1
  IN /\ step[p] = "sending"
     /\ tries' = [tries EXCEPT ![d] = attempt]
     /\ accepted' = [accepted EXCEPT
                       ![d] = IF outcome = "rejected" THEN @
                              ELSE @ \cup {attempt}]
     /\ pending' = [pending EXCEPT
          ![d] = IF outcome = "accepted"
                 THEN AfterSend(@, "sending", attempt)
                 ELSE AfterSend(@, StatusAfterFailedAttempt(seen[p][d] + 1), 0)]
     /\ step' = [step EXCEPT ![p] = IF p \in Event THEN "ready" ELSE "commit"]
     /\ cur' = [cur EXCEPT ![p] = None]
     /\ seen' = [seen EXCEPT ![p][d] = 0]
     /\ UNCHANGED <<committed, lock, todo, hook, rollbacks>>

\* Ends p's transaction without keeping its writes.
Release(p) ==
  /\ lock' = [d \in Delivery |-> IF lock[d] = p THEN None ELSE lock[d]]
  /\ pending' = [d \in Delivery |-> IF lock[d] = p THEN NoRow ELSE pending[d]]

BugCommitsBeforeTheLoop(p) ==
  /\ \/ /\ p \in Event
        /\ step[p] = "ready"
        /\ step' = [step EXCEPT ![p] = "done"]
     \/ /\ p \in Poller
        /\ step[p] = "commit"
        /\ step' = [step EXCEPT ![p] = "ready"]
  /\ committed' = [d \in Delivery |->
                     IF lock[d] = p THEN pending[d] ELSE committed[d]]
  /\ Release(p)
  /\ UNCHANGED <<todo, seen, cur, twilio, hook, rollbacks>>

\* session.commit(): once per Send Event, once per row in the retry job.
Commit(p) ==
  /\ \/ /\ p \in Event
        /\ step[p] = "ready"
        /\ todo[p] = {}
        /\ step' = [step EXCEPT ![p] = "done"]
     \/ /\ p \in Poller
        /\ step[p] = "commit"
        /\ step' = [step EXCEPT ![p] = "ready"]
  /\ committed' = [d \in Delivery |->
                     IF lock[d] = p THEN pending[d] ELSE committed[d]]
  /\ Release(p)
  /\ UNCHANGED <<todo, seen, cur, twilio, hook, rollbacks>>

\* The request, or the scheduler process, dies or raises: nothing it wrote
\* since its last commit is kept, and nothing is left to do.
Crash(p) ==
  /\ rollbacks < MaxRollbacks
  /\ step[p] \in {"ready", "sending", "commit"}
  /\ p \in Poller => step[p] # "ready" \/ todo[p] # {}
  /\ rollbacks' = rollbacks + 1
  /\ Release(p)
  /\ step' = [step EXCEPT ![p] = IF p \in Event THEN "done" ELSE "ready"]
  /\ todo' = [todo EXCEPT ![p] = {}]
  /\ seen' = [seen EXCEPT ![p] = [d \in Delivery |-> 0]]
  /\ cur' = [cur EXCEPT ![p] = None]
  /\ UNCHANGED <<committed, twilio, hook>>

BugSkipsWithoutRollback(p) ==
  /\ p \in Poller
  /\ rollbacks < MaxRollbacks
  /\ rollbacks' = rollbacks + 1
  /\ step[p] \in {"sending", "commit"}
  /\ step' = [step EXCEPT ![p] = "ready"]
  /\ cur' = [cur EXCEPT ![p] = None]
  /\ UNCHANGED <<store, todo, seen, twilio, hook>>

\* The retry job's `except Exception`: this row's work is rolled back and the
\* loop goes on with the next one.
SkipRow(p) ==
  /\ p \in Poller
  /\ rollbacks < MaxRollbacks
  /\ rollbacks' = rollbacks + 1
  /\ \/ /\ step[p] = "ready"
        /\ \E d \in todo[p] : todo' = [todo EXCEPT ![p] = @ \ {d}]
     \/ /\ step[p] \in {"sending", "commit"}
        /\ UNCHANGED todo
  /\ Release(p)
  /\ step' = [step EXCEPT ![p] = "ready"]
  /\ cur' = [cur EXCEPT ![p] = None]
  /\ UNCHANGED <<committed, seen, twilio, hook>>

-----------------------------------------------------------------------------
(* Twilio's status callbacks: any accepted message, any outcome, any number *)
(* of times, in any order.                                                  *)

\* apply_status_update up to its UPDATE: one SELECT by SID, then the decision.
ReadCallback(h, d, sid, outcome) ==
  LET row == committed[d]
      candidate == IF outcome = "delivered" THEN "delivered"
                   ELSE StatusAfterFailedAttempt(row.attempts)
      phase == IF row.sid # sid THEN "superseded"
               ELSE IF StatusRank[candidate] <= StatusRank[row.status]
                    THEN "rejected" ELSE "apply"
  IN /\ hook[h].phase = "idle"
     /\ sid \in accepted[d]
     /\ hook' = [hook EXCEPT ![h] =
                   [phase |-> phase, row |-> d, sid |-> sid,
                    status |-> IF phase = "apply" THEN candidate
                               ELSE "absent"]]
     /\ UNCHANGED <<store, step, todo, seen, cur, twilio, rollbacks>>

\* update_status_from_webhook: UPDATE ... WHERE id = d, and the route's commit.
ApplyCallback(h) ==
  LET d == hook[h].row
  IN /\ hook[h].phase = "apply"
     /\ lock[d] = None
     /\ committed' = [committed EXCEPT ![d].status = hook[h].status]
     /\ hook' = [hook EXCEPT ![h] = IdleHook]
     /\ UNCHANGED <<lock, pending, step, todo, seen, cur, twilio, rollbacks>>

\* The handler answers without a write, or dies before it.
EndCallback(h) ==
  /\ hook[h].phase # "idle"
  /\ hook' = [hook EXCEPT ![h] = IdleHook]
  /\ UNCHANGED <<store, step, todo, seen, cur, twilio, rollbacks>>

-----------------------------------------------------------------------------
Dispatch(p) ==
  \/ \E d \in Delivery : ClaimForDispatch(p, d)
  \/ \E outcome \in {"accepted", "rejected", "lost"} : Send(p, outcome)
  \/ Commit(p)

Next ==
  \/ \E e \in Event : StartEvent(e)
  \/ \E p \in Poller, rows \in SUBSET Delivery : ListRetryEligible(p, rows)
  \/ \E p \in Dispatcher : Dispatch(p) \/ Crash(p) \/ SkipRow(p)
  \/ \E h \in Hook, d \in Delivery, outcome \in {"delivered", "failure"} :
       \E sid \in accepted[d] : ReadCallback(h, d, sid, outcome)
  \/ \E h \in Hook : ApplyCallback(h) \/ EndCallback(h)

Spec == Init /\ [][Next]_vars

\* A dispatcher's loop runs on until it ends or is lost; the interval job polls
\* for ever, and a backoff is finite, so no eligible row is left out for ever.
Fairness ==
  /\ \A p \in Dispatcher : WF_vars(Dispatch(p))
  /\ \A p \in Poller, d \in Delivery :
       SF_vars(\E rows \in SUBSET Delivery :
                 d \in rows /\ ListRetryEligible(p, rows))

FairSpec == Spec /\ Fairness
-----------------------------------------------------------------------------
(* Properties *)

\* The row as the last statement that wrote it left it, committed or not.
Latest(d) == IF lock[d] = None THEN committed[d] ELSE pending[d]

\* attempt_count accounts for every message handed to Twilio, except those of
\* transactions that were lost: no dispatch path sends without counting.
SendsAccounted ==
  \A d \in Delivery : tries[d] <= Latest(d).attempts + rollbacks

\* A row is dispatched at most once more than there are backoff steps, even when
\* a stale callback makes a row that was given up retryable again.
RetriesBounded ==
  \A d \in Delivery : Latest(d).attempts <= 1 + BackoffSteps

\* No row is left QUEUED for others to see: nothing would ever pick it up, since
\* the retry job only lists FAILED_RETRYABLE rows.
NoOrphanedQueued ==
  \A d \in Delivery : committed[d].status # "queued"

\* A row that still waits for a callback waits for the message of its newest
\* attempt, and Twilio did accept that message.
SendingAwaitsNewest ==
  \A d \in Delivery :
    committed[d].status = "sending" =>
      committed[d].sid = tries[d] /\ tries[d] \in accepted[d]

\* FAILED is final, so it is given only when the retry budget is spent.
NoEarlyGiveUp ==
  \A d \in Delivery :
    Latest(d).status = "failed" => Latest(d).attempts > MaxRetryAttempts

\* A committed FAILED_RETRYABLE row within the backoff table is retried: it does
\* not stay as it is for ever.
RetryableIsRetried ==
  \A d \in Delivery, n \in 1..BackoffSteps :
    committed[d].status = "failed_retryable" /\ committed[d].attempts = n
      ~> committed[d].status # "failed_retryable" \/ committed[d].attempts # n

\* The claim, the row locks and the commits implement the attempt ledger.
Ledger == INSTANCE AttemptLedger
            WITH Holder <- Dispatcher, holder <- lock,
                 attempts <- [d \in Delivery |-> committed[d].attempts]

\* Every behaviour of the dispatchers is one of AttemptLedger: one holder at a
\* time, one attempt per held row and commit, none for a lost transaction.
KeepsLedger == Ledger!Spec

\* A callback is answered SUPERSEDED only for a message that a later attempt of
\* the same delivery has replaced (apply_status_update's comment).
SupersededByRetry ==
  \A h \in Hook :
    hook[h].phase = "superseded" => hook[h].sid < tries[hook[h].row]

\* A callback never takes a row out of DELIVERED again (the comment on
\* _STATUS_RANK: "DELIVERED -> FAILURE is rejected"), and no retry does.
DeliveredIsFinal ==
  [][\A d \in Delivery :
       committed[d].status = "delivered" => committed'[d].status = "delivered"]_vars

\* The weaker promise that the code keeps: no handler decides to write after it
\* has read DELIVERED, and a row leaves DELIVERED only by the write of a handler
\* that read it before; no retry and no later callback undoes a delivery.
OnlyRacesUndoDelivered ==
  [][\A d \in Delivery :
       committed[d].status = "delivered" =>
         /\ \A h \in Hook :
              hook'[h] # hook[h] /\ hook'[h].row = d => hook'[h].phase # "apply"
         /\ committed'[d].status # "delivered" =>
              \E h \in Hook : /\ hook[h].phase = "apply" /\ hook[h].row = d
                             /\ hook'[h] = IdleHook]_vars
=============================================================================
