-------------------------- MODULE DeliveriesProofs --------------------------
(***************************************************************************)
(* Theorems about Deliveries, for every set of rows, Send Events, scheduler *)
(* processes and webhook handlers and every retry setting.                 *)
(***************************************************************************)
EXTENDS Deliveries, TLAPS

-----------------------------------------------------------------------------
(* The inductive invariant: where a dispatcher stands says which rows it has *)
(* locked and how far its version of them is ahead of the committed one.     *)

ControlOK ==
  \A p \in Dispatcher :
    /\ step[p] = "sending" =>
         cur[p] \in Delivery /\ lock[cur[p]] = p /\ cur[p] \notin todo[p]
    /\ step[p] # "sending" => cur[p] = None
    /\ p \in Poller => step[p] \in {"ready", "sending", "commit"}
    /\ p \in Event => step[p] \in {"new", "ready", "sending", "done"}

\* Until it commits, a Send Event alone knows its rows.
EventRowsOK ==
  \A e \in Event :
    /\ todo[e] \subseteq RowsOf(e)
    /\ step[e] = "new" =>
         \A d \in RowsOf(e) : lock[d] = None /\ committed[d] = NoRow
    /\ step[e] \in {"ready", "sending"} =>
         \A d \in RowsOf(e) : lock[d] = e /\ committed[d] = NoRow

\* A lock is held by a dispatcher that is in a transaction, and by the retry job
\* for the one row of that transaction.
LocksOK ==
  \A d \in Delivery :
    /\ lock[d] \in Event => /\ EventOf[d] = lock[d]
                            /\ step[lock[d]] \in {"ready", "sending"}
    /\ lock[d] \in Poller =>
         /\ step[lock[d]] \in {"sending", "commit"}
         /\ d \notin todo[lock[d]]
         /\ \A other \in Delivery : lock[other] = lock[d] => other = d

\* attempt_count in a transaction: one ahead once the attempt is recorded.
Recorded(d) == d \notin todo[lock[d]] /\ cur[lock[d]] # d

PendingRowOK(d) ==
    /\ pending[d].status # "absent"
    /\ Recorded(d) => pending[d].attempts = committed[d].attempts + 1
    /\ ~Recorded(d) => pending[d].attempts = committed[d].attempts
    /\ committed[d].status \in {"absent", "failed_retryable"}
    /\ pending[d].status = "queued" <=> d \in todo[lock[d]]
    /\ pending[d].status = "sending" /\ Recorded(d) =>
         pending[d].sid = tries[d] /\ tries[d] \in accepted[d]
    /\ pending[d].status = "failed" => pending[d].attempts > MaxRetryAttempts

PendingOK == \A d \in Delivery : lock[d] # None => PendingRowOK(d)

CommittedRowOK(d) ==
    /\ committed[d].status = "absent" => committed[d] = NoRow
    /\ committed[d].status # "queued"
    /\ committed[d].status = "sending" =>
         committed[d].sid = tries[d] /\ tries[d] \in accepted[d]
    /\ committed[d].status = "failed" =>
         committed[d].attempts > MaxRetryAttempts

CommittedOK == \A d \in Delivery : CommittedRowOK(d)

\* What a dispatcher remembers of attempt_count is never ahead of the database.
SeenOK == \A p \in Dispatcher, d \in Delivery : seen[p][d] <= committed[d].attempts

\* A decided callback still fits its row, however late it is written.
HookOK(h) ==
  /\ hook[h].row \in Delivery
  /\ hook[h].status \in {"delivered", "failed_retryable", "failed"}
  /\ committed[hook[h].row].status # "absent"
  /\ hook[h].status = "failed" =>
       committed[hook[h].row].attempts > MaxRetryAttempts

HooksOK ==
  /\ \A d \in Delivery : 0 \notin accepted[d]
  /\ \A h \in Hook : hook[h].phase = "apply" => HookOK(h)

IInv ==
  /\ TypeOK
  /\ ControlOK
  /\ EventRowsOK
  /\ LocksOK
  /\ PendingOK
  /\ CommittedOK
  /\ SeenOK
  /\ HooksOK
  /\ SendsAccounted

-----------------------------------------------------------------------------
LEMMA InitIInv == Init => IInv
BY DeliveriesAssumption DEF Init, IInv, TypeOK, ControlOK, EventRowsOK, LocksOK,
   PendingOK, CommittedRowOK, CommittedOK, SeenOK, HooksOK, SendsAccounted, Row,
   NoRow, DeliveryStatus, HookState, HookPhase, IdleHook, Dispatcher, Latest,
   RowsOf, Recorded

LEMMA StartEventIInv ==
  ASSUME IInv, NEW e \in Event, StartEvent(e)
  PROVE  IInv'
<1> USE DeliveriesAssumption DEF IInv, Row, NoRow, DeliveryStatus, HookState,
   HookPhase, IdleHook, Dispatcher
<1>a. ASSUME NEW d \in Delivery, EventOf[d] = e
      PROVE  /\ lock[d] = None /\ committed[d] = NoRow
             /\ lock'[d] = e /\ d \in todo'[e] /\ cur[e] = None
             /\ pending'[d] = [status |-> "queued", attempts |-> 0, sid |-> 0]
  BY <1>a DEF StartEvent, TypeOK, EventRowsOK, RowsOf, ControlOK
<1>b. ASSUME NEW d \in Delivery, EventOf[d] # e
      PROVE  /\ lock[d] # e /\ lock'[d] = lock[d] /\ pending'[d] = pending[d]
             /\ lock[d] # None => todo'[lock[d]] = todo[lock[d]]
  BY <1>b DEF StartEvent, TypeOK, LocksOK
<1>c. UNCHANGED <<committed, seen, cur, tries, accepted, hook, rollbacks>>
  BY DEF StartEvent, twilio
<1>1. TypeOK'
  <2>1. lock' \in [Delivery -> Dispatcher \cup {None}]
    BY DEF StartEvent, TypeOK
  <2>2. pending' \in [Delivery -> Row]
    BY DEF StartEvent, TypeOK
  <2>3. /\ step' \in [Dispatcher -> {"new", "ready", "sending", "commit", "done"}]
        /\ todo' \in [Dispatcher -> SUBSET Delivery]
    BY DEF StartEvent, TypeOK, RowsOf
  <2> QED BY <1>c, <2>1, <2>2, <2>3 DEF TypeOK
<1>2. ControlOK'
  BY DEF ControlOK, EventRowsOK, RowsOf, StartEvent
<1>3. EventRowsOK'
  BY DEF TypeOK, EventRowsOK, RowsOf, StartEvent
<1>4. LocksOK'
  BY DEF TypeOK, LocksOK, StartEvent
<1>5. PendingOK'
  <2> SUFFICES ASSUME NEW d \in Delivery, lock'[d] # None
               PROVE  PendingRowOK(d)'
    BY DEF PendingOK
  <2>1. CASE EventOf[d] = e
    BY <2>1, <1>a, <1>c DEF PendingRowOK, Recorded
  <2>2. CASE EventOf[d] # e
    BY <2>2, <1>b, <1>c DEF PendingRowOK, PendingOK, Recorded
  <2> QED BY <2>1, <2>2
<1>6. CommittedOK'
  BY <1>c DEF CommittedOK, CommittedRowOK
<1>7. SeenOK'
  BY DEF SeenOK, StartEvent
<1>8. HooksOK'
  BY <1>c DEF HooksOK, HookOK
<1>9. SendsAccounted'
  <2> SUFFICES ASSUME NEW d \in Delivery
               PROVE  tries'[d] <= Latest(d)'.attempts + rollbacks'
    BY DEF SendsAccounted
  <2>1. tries[d] <= Latest(d).attempts + rollbacks
    BY DEF SendsAccounted
  <2>2. Latest(d)'.attempts = Latest(d).attempts
    BY <1>a, <1>b, <1>c DEF Latest
  <2> QED BY <1>c, <2>1, <2>2
<1> QED BY <1>1, <1>2, <1>3, <1>4, <1>5, <1>6, <1>7, <1>8, <1>9

LEMMA ListIInv ==
  ASSUME IInv, NEW p \in Poller, NEW rows \in SUBSET Delivery, ListRetryEligible(p, rows)
  PROVE  IInv'
<1> USE DeliveriesAssumption DEF IInv, Row, NoRow, DeliveryStatus, HookState,
   HookPhase, IdleHook, Dispatcher
<1>1. TypeOK'
  BY DEF TypeOK, ListRetryEligible, RetryEligible, store, twilio
<1>2. ControlOK'
  BY DEF ControlOK, ListRetryEligible, RetryEligible, store, twilio
<1>3. EventRowsOK'
  BY DEF EventRowsOK, RowsOf, ListRetryEligible, RetryEligible, store, twilio
<1>4. LocksOK'
  BY DEF LocksOK, ListRetryEligible, RetryEligible, store, twilio
<1>5. PendingOK'
  <2> SUFFICES ASSUME NEW d \in Delivery, lock[d] # None
               PROVE  PendingRowOK(d)'
    BY DEF PendingOK, ListRetryEligible, store
  <2>1. lock[d] # p
    BY DEF ListRetryEligible, LocksOK, TypeOK
  <2>2. todo'[lock[d]] = todo[lock[d]]
    BY <2>1 DEF ListRetryEligible, TypeOK
  <2> QED BY <2>2 DEF PendingOK, PendingRowOK, Recorded, ListRetryEligible,
     store, twilio
<1>6. CommittedOK'
  BY DEF CommittedRowOK, CommittedOK, ListRetryEligible, RetryEligible, store,
     twilio
<1>7. SeenOK'
  BY DEF TypeOK, SeenOK, ListRetryEligible, RetryEligible, store, twilio
<1>8. HooksOK'
  BY DEF HookOK, HooksOK, ListRetryEligible, RetryEligible, store, twilio
<1>9. SendsAccounted'
  BY DEF SendsAccounted, Latest, ListRetryEligible, RetryEligible, store, twilio
<1> QED BY <1>1, <1>2, <1>3, <1>4, <1>5, <1>6, <1>7, <1>8, <1>9

LEMMA ClaimIInv ==
  ASSUME IInv, NEW p \in Dispatcher, NEW d \in Delivery, ClaimForDispatch(p, d)
  PROVE  IInv'
<1> USE DeliveriesAssumption DEF IInv, Row, NoRow, DeliveryStatus, HookState,
   HookPhase, IdleHook, Dispatcher
<1>a. lock[d] # None => p \in Event /\ lock[d] = p
  BY DEF ClaimForDispatch, LocksOK
<1>b. ASSUME NEW x \in Delivery, x # d
      PROVE  /\ lock'[x] = lock[x] /\ pending'[x] = pending[x]
             /\ x \in todo'[lock[x]] <=> x \in todo[lock[x]]
             /\ lock[x] # None => (cur'[lock[x]] = x <=> cur[lock[x]] = x)
  BY <1>b DEF ClaimForDispatch, TypeOK, ControlOK
<1>c. /\ UNCHANGED <<committed, tries, accepted, rollbacks>>
      /\ cur[p] = None
  BY DEF ClaimForDispatch, ControlOK, twilio
<1>d. \/ /\ View(p, d).status \in Claimable
         /\ pending'[d] = [View(p, d) EXCEPT !.status = "sending"]
         /\ pending' \in [Delivery -> Row]
         /\ lock' = [lock EXCEPT ![d] = p]
         /\ cur' = [cur EXCEPT ![p] = d]
         /\ step' = [step EXCEPT ![p] = "sending"]
      \/ /\ View(p, d).status \notin Claimable
         /\ UNCHANGED <<pending, lock, cur, step>>
  <2>1. View(p, d) \in Row /\ "sending" \in DeliveryStatus
    BY DEF View, TypeOK
  <2>2. [View(p, d) EXCEPT !.status = "sending"] \in Row
    BY <2>1
  <2> DEFINE claimed == [View(p, d) EXCEPT !.status = "sending"]
  <2> HIDE DEF claimed
  <2>3. pending' = [pending EXCEPT ![d] = claimed] =>
          pending'[d] = claimed /\ pending' \in [Delivery -> Row]
    BY <2>2 DEF TypeOK, claimed
  <2> QED BY <2>3 DEF ClaimForDispatch, claimed
<1>1. TypeOK'
  <2>1. CASE UNCHANGED <<pending, lock, cur, step>>
    BY <2>1 DEF TypeOK, ClaimForDispatch, twilio
  <2>2. CASE /\ pending' \in [Delivery -> Row]
             /\ lock' = [lock EXCEPT ![d] = p]
             /\ cur' = [cur EXCEPT ![p] = d]
             /\ step' = [step EXCEPT ![p] = "sending"]
    BY <2>2 DEF TypeOK, ClaimForDispatch, twilio
  <2> QED BY <1>d, <2>1, <2>2
<1>2. ControlOK'
  <2> \A q \in Dispatcher : todo'[q] \subseteq todo[q]
    BY DEF ClaimForDispatch, TypeOK
  <2>1. CASE UNCHANGED <<pending, lock, cur, step>>
    BY <2>1 DEF ControlOK
  <2>2. CASE /\ lock' = [lock EXCEPT ![d] = p]
             /\ cur' = [cur EXCEPT ![p] = d]
             /\ step' = [step EXCEPT ![p] = "sending"]
    <3> SUFFICES ASSUME NEW q \in Dispatcher
                 PROVE  /\ step'[q] = "sending" =>
                             /\ cur'[q] \in Delivery /\ lock'[cur'[q]] = q
                             /\ cur'[q] \notin todo'[q]
                        /\ step'[q] # "sending" => cur'[q] = None
                        /\ q \in Poller => step'[q] \in {"ready", "sending", "commit"}
                        /\ q \in Event => step'[q] \in {"new", "ready", "sending", "done"}
      BY DEF ControlOK
    <3>1. CASE q = p
      BY <2>2, <3>1 DEF TypeOK, ClaimForDispatch
    <3>2. CASE q # p
      <4>1. step'[q] = step[q] /\ cur'[q] = cur[q]
        BY <2>2, <3>2 DEF TypeOK
      <4>2. cur[q] = d => step[q] # "sending"
        BY <3>2, <1>a DEF ControlOK, ClaimForDispatch
      <4>3. todo'[q] = todo[q]
        BY <3>2 DEF ClaimForDispatch, TypeOK
      <4> QED BY <2>2, <4>1, <4>2, <4>3 DEF ControlOK, TypeOK
    <3> QED BY <3>1, <3>2
  <2> QED BY <1>d, <2>1, <2>2
<1>3. EventRowsOK'
  BY DEF TypeOK, EventRowsOK, RowsOf, ClaimForDispatch, View, Claimable, twilio
<1>4. LocksOK'
  BY DEF TypeOK, LocksOK, EventRowsOK, ClaimForDispatch, View, Claimable, twilio
<1>5. PendingOK'
  <2> SUFFICES ASSUME NEW x \in Delivery, lock'[x] # None
               PROVE  PendingRowOK(x)'
    BY DEF PendingOK
  <2>1. CASE x # d
    BY <2>1, <1>b, <1>c DEF PendingOK, PendingRowOK, Recorded
  <2>2. CASE x = d /\ View(p, d).status \in Claimable
    <3>1. /\ lock'[d] = p /\ cur'[p] = d
          /\ pending'[d] = [View(p, d) EXCEPT !.status = "sending"]
      BY <2>2, <1>d DEF TypeOK
    <3>2. View(p, d).attempts = committed[d].attempts /\ View(p, d) \in Row
      BY <1>a, <1>c DEF View, PendingOK, PendingRowOK, Recorded,
         ClaimForDispatch, TypeOK
    <3>3. committed[d].status \in {"absent", "failed_retryable"}
      BY <1>a, <2>2 DEF View, PendingOK, PendingRowOK, CommittedRowOK,
         CommittedOK, Claimable, ClaimForDispatch
    <3>4. d \notin todo'[p] /\ committed'[d] = committed[d]
      BY <1>c DEF ClaimForDispatch, TypeOK
    <3>5. /\ pending'[d].status = "sending"
          /\ pending'[d].attempts = committed[d].attempts
      BY <3>1, <3>2
    <3> QED BY <2>2, <3>1, <3>3, <3>4, <3>5 DEF PendingRowOK, Recorded
  <2>3. CASE x = d /\ View(p, d).status \notin Claimable
    \* Not reached: a row locked by p is still QUEUED in its transaction.
    <3>1. UNCHANGED <<pending, lock, cur, step>> /\ lock[d] # None
      BY <2>3, <1>d
    <3>2. d \in todo[p] /\ lock[d] = p
      BY <3>1, <1>a DEF ClaimForDispatch
    <3>3. pending[d].status = "queued"
      BY <3>1, <3>2, <1>a, <1>c DEF PendingOK, PendingRowOK
    <3> QED BY <2>3, <3>2, <3>3 DEF View, Claimable
  <2> QED BY <2>1, <2>2, <2>3
<1>6. CommittedOK'
  BY DEF CommittedRowOK, CommittedOK, ClaimForDispatch, View, Claimable, twilio
<1>7. SeenOK'
  BY DEF SeenOK, ClaimForDispatch, View, Claimable, twilio
<1>8. HooksOK'
  BY DEF HookOK, HooksOK, ClaimForDispatch, View, Claimable, twilio
<1>9. SendsAccounted'
  <2> SUFFICES ASSUME NEW x \in Delivery
               PROVE  tries'[x] <= Latest(x)'.attempts + rollbacks'
    BY DEF SendsAccounted
  <2>1. tries[x] <= Latest(x).attempts + rollbacks
    BY DEF SendsAccounted
  <2>2. CASE x # d
    BY <2>1, <2>2, <1>b, <1>c DEF Latest
  <2>3. CASE x = d
    <3>1. Latest(d) = View(p, d) /\ View(p, d) \in Row
      BY <1>a DEF Latest, View, ClaimForDispatch, TypeOK
    <3>2. Latest(d)'.attempts = Latest(d).attempts
      BY <3>1, <1>c, <1>d DEF Latest, TypeOK
    <3> QED BY <2>1, <2>3, <3>2, <1>c
  <2> QED BY <2>2, <2>3
<1> QED BY <1>1, <1>2, <1>3, <1>4, <1>5, <1>6, <1>7, <1>8, <1>9

LEMMA SendIInv ==
  ASSUME IInv, NEW p \in Dispatcher, NEW outcome \in {"accepted", "rejected", "lost"}, Send(p, outcome)
  PROVE  IInv'
<1> USE DeliveriesAssumption DEF IInv, Row, NoRow, DeliveryStatus, HookState,
   HookPhase, IdleHook, Dispatcher
<1>a. PICK d \in Delivery : d = cur[p] /\ lock[d] = p /\ step[p] = "sending"
  BY DEF Send, ControlOK
<1>b. /\ pending[d].attempts = committed[d].attempts
      /\ committed[d].status \in {"absent", "failed_retryable"}
      /\ d \notin todo[p]
  <2>1. d = cur[p] /\ lock[d] # None
    BY <1>a
  <2> QED BY <1>a, <2>1 DEF PendingOK, PendingRowOK, Recorded, ControlOK
<1>c. /\ tries' = [tries EXCEPT ![d] = tries[d] + 1]
      /\ accepted' = [accepted EXCEPT ![d] =
                        IF outcome = "rejected" THEN @ ELSE @ \cup {tries[d] + 1}]
      /\ cur' = [cur EXCEPT ![p] = None]
      /\ seen' = [seen EXCEPT ![p][d] = 0]
      /\ UNCHANGED <<committed, lock, todo, hook, rollbacks>>
  BY <1>a DEF Send
<1>d. /\ pending' = [pending EXCEPT ![d] = pending'[d]]
      /\ pending'[d] \in Row
      /\ pending'[d].attempts = committed[d].attempts + 1
      /\ pending'[d].status \in {"sending", "failed_retryable", "failed"}
      /\ pending'[d].status = "sending" =>
           pending'[d].sid = tries[d] + 1 /\ outcome = "accepted"
      /\ pending'[d].status = "failed" => seen[p][d] + 1 >= 1 + MaxRetryAttempts
  <2> DEFINE failed == AfterSend(pending[d], StatusAfterFailedAttempt(seen[p][d] + 1), 0)
             sent == AfterSend(pending[d], "sending", tries[d] + 1)
  <2>1. pending' = [pending EXCEPT ![d] = IF outcome = "accepted" THEN sent ELSE failed]
    BY <1>a DEF Send
  <2>2. /\ failed \in Row /\ sent \in Row
        /\ failed.attempts = pending[d].attempts + 1
        /\ sent.attempts = pending[d].attempts + 1
        /\ sent.status = "sending" /\ sent.sid = tries[d] + 1
        /\ failed.status \in {"failed_retryable", "failed"}
        /\ failed.status = "failed" => seen[p][d] + 1 >= 1 + MaxRetryAttempts
    BY DEF AfterSend, StatusAfterFailedAttempt, TypeOK
  <2> HIDE DEF failed, sent
  <2>3. pending'[d] = IF outcome = "accepted" THEN sent ELSE failed
    BY <2>1 DEF TypeOK
  <2> QED BY <1>b, <2>1, <2>2, <2>3
<1>1. TypeOK'
  <2>1. /\ tries' \in [Delivery -> Nat]
        /\ accepted' \in [Delivery -> SUBSET Nat]
    BY <1>c DEF TypeOK
  <2>2. pending' \in [Delivery -> Row]
    BY <1>d DEF TypeOK
  <2>3. seen' \in [Dispatcher -> [Delivery -> Nat]]
    BY <1>c DEF TypeOK
  <2>4. cur' \in [Dispatcher -> Delivery \cup {None}]
    BY <1>c DEF TypeOK
  <2>5. step' \in [Dispatcher -> {"new", "ready", "sending", "commit", "done"}]
    BY DEF Send, TypeOK
  <2> QED BY <1>c, <2>1, <2>2, <2>3, <2>4, <2>5 DEF TypeOK
<1>2. ControlOK'
  BY DEF TypeOK, ControlOK, Send, AfterSend, StatusAfterFailedAttempt
<1>3. EventRowsOK'
  BY DEF EventRowsOK, RowsOf, Send, AfterSend, StatusAfterFailedAttempt
<1>4. LocksOK'
  BY DEF LocksOK, Send, AfterSend, StatusAfterFailedAttempt
<1>5. PendingOK'
  <2> SUFFICES ASSUME NEW x \in Delivery, lock[x] # None
               PROVE  PendingRowOK(x)'
    BY <1>c DEF PendingOK
  <2>1. CASE x = d
    <3>1. cur'[p] # d /\ d \notin todo'[p] /\ lock'[d] = p
      BY <1>a, <1>b, <1>c DEF TypeOK
    <3>2. pending'[d].status = "failed" => pending'[d].attempts > MaxRetryAttempts
      BY <1>d DEF SeenOK, TypeOK
    <3>3. pending'[d].status = "sending" =>
            pending'[d].sid = tries'[d] /\ tries'[d] \in accepted'[d]
      BY <1>c, <1>d DEF TypeOK
    <3> QED BY <2>1, <3>1, <3>2, <3>3, <1>b, <1>c, <1>d DEF PendingRowOK, Recorded
  <2>2. CASE x # d
    <3>1. /\ pending'[x] = pending[x] /\ tries'[x] = tries[x]
          /\ accepted'[x] = accepted[x]
      BY <2>2, <1>c, <1>d DEF TypeOK
    <3>2. cur'[lock[x]] = x <=> cur[lock[x]] = x
      BY <2>2, <1>a, <1>c DEF TypeOK
    <3> QED BY <3>1, <3>2, <1>c DEF PendingOK, PendingRowOK, Recorded
  <2> QED BY <2>1, <2>2
<1>6. CommittedOK'
  BY DEF CommittedRowOK, CommittedOK, ControlOK, PendingRowOK, PendingOK, Send,
     AfterSend, StatusAfterFailedAttempt
<1>7. SeenOK'
  BY DEF TypeOK, SeenOK, Send, AfterSend, StatusAfterFailedAttempt
<1>8. HooksOK'
  BY DEF TypeOK, HookOK, HooksOK, Send, AfterSend, StatusAfterFailedAttempt
<1>9. SendsAccounted'
  BY DEF TypeOK, SendsAccounted, Latest, ControlOK, Send, AfterSend,
     StatusAfterFailedAttempt
<1> QED BY <1>1, <1>2, <1>3, <1>4, <1>5, <1>6, <1>7, <1>8, <1>9

LEMMA CommitIInv ==
  ASSUME IInv, NEW p \in Dispatcher, Commit(p)
  PROVE  IInv'
<1> USE DeliveriesAssumption DEF IInv, Row, NoRow, DeliveryStatus, HookState,
   HookPhase, IdleHook, Dispatcher
<1>a. ASSUME NEW d \in Delivery, lock[d] = p
      PROVE  Recorded(d)
  <2>1. step[p] # "sending" /\ d \notin todo[p]
    BY <1>a DEF Commit, LocksOK
  <2> QED BY <1>a, <2>1 DEF Recorded, ControlOK
<1>b. ASSUME NEW d \in Delivery
      PROVE  /\ lock[d] = p => committed'[d] = pending[d] /\ lock'[d] = None
             /\ lock[d] # p => /\ committed'[d] = committed[d]
                               /\ lock'[d] = lock[d] /\ pending'[d] = pending[d]
  BY DEF Commit, Release
<1>c. UNCHANGED <<todo, seen, cur, tries, accepted, hook, rollbacks>>
  BY DEF Commit, twilio
<1>d. ASSUME NEW d \in Delivery
      PROVE  /\ committed'[d].attempts >= committed[d].attempts
             /\ committed[d].status # "absent" => committed'[d].status # "absent"
  <2>1. CASE lock[d] = p
    BY <2>1, <1>a, <1>b DEF PendingOK, PendingRowOK, TypeOK
  <2>2. CASE lock[d] # p
    BY <2>2, <1>b DEF TypeOK
  <2> QED BY <2>1, <2>2
<1>1. TypeOK'
  BY DEF TypeOK, Commit, Release, twilio
<1>2. ControlOK'
  BY DEF TypeOK, ControlOK, SeenOK, Commit, Release, twilio
<1>3. EventRowsOK'
  BY DEF TypeOK, EventRowsOK, RowsOf, Commit, Release, twilio
<1>4. LocksOK'
  BY DEF TypeOK, LocksOK, Commit, Release, twilio
<1>5. PendingOK'
  BY DEF PendingRowOK, PendingOK, Recorded, Commit, Release, twilio
<1>6. CommittedOK'
  <2> SUFFICES ASSUME NEW d \in Delivery
               PROVE  CommittedRowOK(d)'
    BY DEF CommittedOK
  <2>1. CASE lock[d] = p
    BY <2>1, <1>a, <1>b, <1>c DEF CommittedRowOK, PendingOK, PendingRowOK,
       Recorded
  <2>2. CASE lock[d] # p
    BY <2>2, <1>b, <1>c DEF CommittedRowOK, CommittedOK
  <2> QED BY <2>1, <2>2
<1>7. SeenOK'
  <2> SUFFICES ASSUME NEW q \in Dispatcher, NEW d \in Delivery
               PROVE  seen'[q][d] <= committed'[d].attempts
    BY DEF SeenOK
  <2>1. committed'[d].attempts \in Nat /\ committed[d].attempts \in Nat
    BY <1>1 DEF TypeOK
  <2> QED BY <1>c, <1>d, <2>1 DEF SeenOK, TypeOK
<1>8. HooksOK'
  <2> SUFFICES ASSUME NEW h \in Hook, hook[h].phase = "apply"
               PROVE  HookOK(h)'
    BY <1>c DEF HooksOK
  <2>1. HookOK(h)
    BY DEF HooksOK
  <2>2. committed'[hook[h].row].attempts \in Nat /\ committed[hook[h].row].attempts \in Nat
    BY <1>1, <2>1 DEF TypeOK, HookOK
  <2> QED BY <1>c, <1>d, <2>1, <2>2 DEF HookOK
<1>9. SendsAccounted'
  BY DEF SendsAccounted, Latest, Commit, Release, twilio
<1> QED BY <1>1, <1>2, <1>3, <1>4, <1>5, <1>6, <1>7, <1>8, <1>9

LEMMA CrashIInv ==
  ASSUME IInv, NEW p \in Dispatcher, Crash(p)
  PROVE  IInv'
<1> USE DeliveriesAssumption DEF IInv, Row, NoRow, DeliveryStatus, HookState,
   HookPhase, IdleHook, Dispatcher
<1>a. ASSUME NEW d \in Delivery
      PROVE  /\ lock[d] = p => lock'[d] = None
             /\ lock[d] # p => lock'[d] = lock[d] /\ pending'[d] = pending[d]
  BY DEF Crash, Release
<1>b. UNCHANGED <<committed, tries, accepted, hook>> /\ rollbacks' = rollbacks + 1
  BY DEF Crash, twilio
<1>1. TypeOK'
  BY DEF TypeOK, Crash, Release, twilio
<1>2. ControlOK'
  BY DEF TypeOK, ControlOK, Crash, Release, twilio
<1>3. EventRowsOK'
  BY DEF TypeOK, EventRowsOK, RowsOf, Crash, Release, twilio
<1>4. LocksOK'
  BY DEF LocksOK, Crash, Release, twilio
<1>5. PendingOK'
  BY DEF PendingRowOK, PendingOK, Recorded, Crash, Release, twilio
<1>6. CommittedOK'
  BY DEF CommittedRowOK, CommittedOK, Crash, Release, twilio
<1>7. SeenOK'
  BY DEF TypeOK, SeenOK, Crash, Release, twilio
<1>8. HooksOK'
  BY DEF HookOK, HooksOK, Crash, Release, twilio
<1>9. SendsAccounted'
  <2> SUFFICES ASSUME NEW d \in Delivery
               PROVE  tries'[d] <= Latest(d)'.attempts + rollbacks'
    BY DEF SendsAccounted
  <2>1. tries[d] <= Latest(d).attempts + rollbacks
    BY DEF SendsAccounted
  <2>2. CASE lock[d] = p
    <3>1. Latest(d)' = committed[d] /\ Latest(d) = pending[d]
      BY <2>2, <1>a, <1>b DEF Latest, TypeOK
    <3>2. PendingRowOK(d)
      BY <2>2 DEF PendingOK
    <3>3. pending[d].attempts <= committed[d].attempts + 1
      BY <3>2 DEF PendingRowOK, TypeOK
    <3> QED BY <2>1, <3>1, <3>3, <1>b DEF TypeOK
  <2>3. CASE lock[d] # p
    <3>1. Latest(d)' = Latest(d)
      BY <2>3, <1>a, <1>b DEF Latest
    <3>2. Latest(d).attempts \in Nat
      BY DEF Latest, TypeOK
    <3> QED BY <2>1, <3>1, <3>2, <1>b DEF TypeOK
  <2> QED BY <2>2, <2>3
<1> QED BY <1>1, <1>2, <1>3, <1>4, <1>5, <1>6, <1>7, <1>8, <1>9

LEMMA SkipIInv ==
  ASSUME IInv, NEW p \in Dispatcher, SkipRow(p)
  PROVE  IInv'
<1> USE DeliveriesAssumption DEF IInv, Row, NoRow, DeliveryStatus, HookState,
   HookPhase, IdleHook, Dispatcher
<1>a. ASSUME NEW d \in Delivery
      PROVE  /\ lock[d] = p => lock'[d] = None
             /\ lock[d] # p => lock'[d] = lock[d] /\ pending'[d] = pending[d]
  BY DEF SkipRow, Release
<1>b. UNCHANGED <<committed, tries, accepted, hook>> /\ rollbacks' = rollbacks + 1
  BY DEF SkipRow, twilio
<1>1. TypeOK'
  <2>1. /\ lock' \in [Delivery -> Dispatcher \cup {None}]
        /\ pending' \in [Delivery -> Row]
    <3>1. Release(p)
      BY DEF SkipRow
    <3>2. lock' \in [Delivery -> Dispatcher \cup {None}]
      BY <3>1 DEF Release, TypeOK
    <3>3. pending' \in [Delivery -> Row]
      BY <3>1 DEF Release, TypeOK
    <3> QED BY <3>2, <3>3
  <2>2. todo' \in [Dispatcher -> SUBSET Delivery]
    <3>1. CASE UNCHANGED todo
      BY <3>1 DEF TypeOK
    <3>2. ASSUME NEW d \in todo[p], todo' = [todo EXCEPT ![p] = @ \ {d}]
          PROVE  todo' \in [Dispatcher -> SUBSET Delivery]
      BY <3>2 DEF TypeOK
    <3> QED BY <3>1, <3>2 DEF SkipRow
  <2>3. /\ step' \in [Dispatcher -> {"new", "ready", "sending", "commit", "done"}]
        /\ cur' \in [Dispatcher -> Delivery \cup {None}]
        /\ seen' = seen
    BY DEF SkipRow, TypeOK
  <2> QED BY <2>1, <2>2, <2>3, <1>b DEF TypeOK
<1>2. ControlOK'
  BY DEF TypeOK, ControlOK, SkipRow, Release, twilio
<1>3. EventRowsOK'
  BY DEF TypeOK, EventRowsOK, RowsOf, SkipRow, Release, twilio
<1>4. LocksOK'
  BY DEF TypeOK, LocksOK, SkipRow, Release, twilio
<1>5. PendingOK'
  BY DEF TypeOK, PendingRowOK, PendingOK, Recorded, SkipRow, Release, twilio
<1>6. CommittedOK'
  BY DEF CommittedRowOK, CommittedOK, SkipRow, Release, twilio
<1>7. SeenOK'
  BY DEF SeenOK, SkipRow, Release, twilio
<1>8. HooksOK'
  BY DEF HookOK, HooksOK, SkipRow, Release, twilio
<1>9. SendsAccounted'
  <2> SUFFICES ASSUME NEW d \in Delivery
               PROVE  tries'[d] <= Latest(d)'.attempts + rollbacks'
    BY DEF SendsAccounted
  <2>1. tries[d] <= Latest(d).attempts + rollbacks
    BY DEF SendsAccounted
  <2>2. CASE lock[d] = p
    <3>1. Latest(d)' = committed[d] /\ Latest(d) = pending[d]
      BY <2>2, <1>a, <1>b DEF Latest, TypeOK
    <3>2. PendingRowOK(d)
      BY <2>2 DEF PendingOK
    <3>3. pending[d].attempts <= committed[d].attempts + 1
      BY <3>2 DEF PendingRowOK, TypeOK
    <3> QED BY <2>1, <3>1, <3>3, <1>b DEF TypeOK
  <2>3. CASE lock[d] # p
    <3>1. Latest(d)' = Latest(d)
      BY <2>3, <1>a, <1>b DEF Latest
    <3>2. Latest(d).attempts \in Nat
      BY DEF Latest, TypeOK
    <3> QED BY <2>1, <3>1, <3>2, <1>b DEF TypeOK
  <2> QED BY <2>2, <2>3
<1> QED BY <1>1, <1>2, <1>3, <1>4, <1>5, <1>6, <1>7, <1>8, <1>9

LEMMA ReadIInv ==
  ASSUME IInv, NEW h \in Hook, NEW d \in Delivery, NEW sid \in accepted[d], NEW outcome \in {"delivered", "failure"}, ReadCallback(h, d, sid, outcome)
  PROVE  IInv'
<1> USE DeliveriesAssumption DEF IInv, Row, NoRow, DeliveryStatus, HookState,
   HookPhase, IdleHook, Dispatcher
<1>1. TypeOK'
  BY DEF TypeOK, ReadCallback, StatusAfterFailedAttempt, StatusRank, store, twilio
<1>2. ControlOK'
  BY DEF ControlOK, ReadCallback, StatusAfterFailedAttempt, StatusRank, store,
     twilio
<1>3. EventRowsOK'
  BY DEF EventRowsOK, RowsOf, ReadCallback, StatusAfterFailedAttempt,
     StatusRank, store, twilio
<1>4. LocksOK'
  BY DEF LocksOK, ReadCallback, StatusAfterFailedAttempt, StatusRank, store,
     twilio
<1>5. PendingOK'
  BY DEF PendingRowOK, PendingOK, Recorded, ReadCallback,
     StatusAfterFailedAttempt, StatusRank, store, twilio
<1>6. CommittedOK'
  BY DEF CommittedRowOK, CommittedOK, ReadCallback, StatusAfterFailedAttempt,
     StatusRank, store, twilio
<1>7. SeenOK'
  BY DEF SeenOK, ReadCallback, StatusAfterFailedAttempt, StatusRank, store, twilio
<1>8. HooksOK'
  BY DEF TypeOK, HookOK, HooksOK, CommittedRowOK, CommittedOK, ReadCallback,
     StatusAfterFailedAttempt, StatusRank, store, twilio
<1>9. SendsAccounted'
  BY DEF SendsAccounted, Latest, ReadCallback, StatusAfterFailedAttempt,
     StatusRank, store, twilio
<1> QED BY <1>1, <1>2, <1>3, <1>4, <1>5, <1>6, <1>7, <1>8, <1>9

LEMMA ApplyIInv ==
  ASSUME IInv, NEW h \in Hook, ApplyCallback(h)
  PROVE  IInv'
<1> USE DeliveriesAssumption DEF IInv, Row, NoRow, DeliveryStatus, HookState,
   HookPhase, IdleHook, Dispatcher
<1>a. PICK d \in Delivery :
        /\ d = hook[h].row
        /\ lock[d] = None
        /\ hook[h].status \in {"delivered", "failed_retryable", "failed"}
        /\ committed[d].status # "absent"
        /\ hook[h].status = "failed" => committed[d].attempts > MaxRetryAttempts
  BY DEF ApplyCallback, HookOK, HooksOK, HookOK
<1>b. /\ committed' = [committed EXCEPT ![d].status = hook[h].status]
      /\ hook' = [hook EXCEPT ![h] = IdleHook]
      /\ UNCHANGED <<lock, pending, step, todo, seen, cur, tries, accepted, rollbacks>>
  BY <1>a DEF ApplyCallback, twilio
<1>c. /\ committed'[d] = [committed[d] EXCEPT !.status = hook[h].status]
      /\ committed'[d] \in Row
      /\ committed'[d].status = hook[h].status
      /\ committed'[d].attempts = committed[d].attempts
      /\ \A x \in Delivery : x # d => committed'[x] = committed[x]
  <2> DEFINE row == [committed[d] EXCEPT !.status = hook[h].status]
  <2>1. /\ row \in Row /\ row.status = hook[h].status
        /\ row.attempts = committed[d].attempts
    <3>1. committed[d] \in Row
      BY DEF TypeOK
    <3> QED BY <1>a, <3>1
  <2>2. committed' = [committed EXCEPT ![d] = row]
    BY <1>b
  <2> HIDE DEF row
  <2>3. committed'[d] = row /\ \A x \in Delivery : x # d => committed'[x] = committed[x]
    BY <2>2 DEF TypeOK
  <2> QED BY <2>1, <2>3 DEF row
<1>1. TypeOK'
  <2>1. committed' \in [Delivery -> Row]
    BY <1>b, <1>c DEF TypeOK
  <2>2. hook' \in [Hook -> HookState]
    BY <1>b DEF TypeOK
  <2> QED BY <1>b, <2>1, <2>2 DEF TypeOK
<1>2. ControlOK'
  BY DEF ControlOK, ApplyCallback, twilio
<1>3. EventRowsOK'
  BY <1>a, <1>b, <1>c DEF EventRowsOK, RowsOf
<1>4. LocksOK'
  BY DEF LocksOK, ApplyCallback, twilio
<1>5. PendingOK'
  BY DEF PendingRowOK, PendingOK, Recorded, ApplyCallback, twilio
<1>6. CommittedOK'
  <2> SUFFICES ASSUME NEW x \in Delivery
               PROVE  CommittedRowOK(x)'
    BY DEF CommittedOK
  <2>1. CASE x = d
    BY <2>1, <1>a, <1>c DEF CommittedRowOK
  <2>2. CASE x # d
    BY <2>2, <1>b, <1>c DEF CommittedRowOK, CommittedOK, CommittedRowOK
  <2> QED BY <2>1, <2>2
<1>7. SeenOK'
  BY DEF SeenOK, ApplyCallback, twilio
<1>8. HooksOK'
  <2>1. ASSUME NEW other \in Hook, hook'[other].phase = "apply"
        PROVE  HookOK(other)'
    <3>1. other # h /\ hook'[other] = hook[other]
      BY <2>1, <1>b DEF TypeOK
    <3> QED BY <3>1, <2>1, <1>a, <1>c DEF HooksOK, HookOK
  <2> QED BY <2>1, <1>b DEF HooksOK
<1>9. SendsAccounted'
  BY DEF SendsAccounted, Latest, ApplyCallback, twilio
<1> QED BY <1>1, <1>2, <1>3, <1>4, <1>5, <1>6, <1>7, <1>8, <1>9

LEMMA EndIInv ==
  ASSUME IInv, NEW h \in Hook, EndCallback(h)
  PROVE  IInv'
<1> USE DeliveriesAssumption DEF IInv, Row, NoRow, DeliveryStatus, HookState,
   HookPhase, IdleHook, Dispatcher
<1>1. TypeOK'
  BY DEF TypeOK, EndCallback, store, twilio
<1>2. ControlOK'
  BY DEF ControlOK, EndCallback, store, twilio
<1>3. EventRowsOK'
  BY DEF EventRowsOK, RowsOf, EndCallback, store, twilio
<1>4. LocksOK'
  BY DEF LocksOK, EndCallback, store, twilio
<1>5. PendingOK'
  BY DEF PendingRowOK, PendingOK, Recorded, EndCallback, store, twilio
<1>6. CommittedOK'
  BY DEF CommittedRowOK, CommittedOK, EndCallback, store, twilio
<1>7. SeenOK'
  BY DEF SeenOK, EndCallback, store, twilio
<1>8. HooksOK'
  BY DEF HookOK, HooksOK, EndCallback, store, twilio
<1>9. SendsAccounted'
  BY DEF SendsAccounted, Latest, EndCallback, store, twilio
<1> QED BY <1>1, <1>2, <1>3, <1>4, <1>5, <1>6, <1>7, <1>8, <1>9

LEMMA NextIInv == IInv /\ [Next]_vars => IInv'
<1> SUFFICES ASSUME IInv, [Next]_vars
             PROVE  IInv'
  OBVIOUS
<1>1. CASE UNCHANGED vars
  <2> USE <1>1 DEF vars, store, twilio
  <2>1. TypeOK' /\ ControlOK' /\ EventRowsOK' /\ LocksOK'
    BY DEF IInv, TypeOK, ControlOK, EventRowsOK, LocksOK
  <2>2. PendingOK' /\ CommittedOK'
    BY DEF IInv, PendingOK, PendingRowOK, Recorded, CommittedOK, CommittedRowOK
  <2>3. SeenOK' /\ HooksOK' /\ SendsAccounted'
    BY DEF IInv, SeenOK, HooksOK, HookOK, SendsAccounted, Latest
  <2> QED BY <2>1, <2>2, <2>3 DEF IInv
<1>2. CASE Next
  BY <1>2, StartEventIInv, ListIInv, ClaimIInv, SendIInv, CommitIInv, CrashIInv,
     SkipIInv, ReadIInv, ApplyIInv, EndIInv
  DEF Next, Dispatch
<1> QED BY <1>1, <1>2

\* Every reachable state satisfies the inductive invariant.
THEOREM InductiveInvariant == Spec => []IInv
BY InitIInv, NextIInv, PTL DEF Spec

\* Every variable keeps its type: no handler stores a status, an attempt count or
\* a SID outside the ranges of the notification_deliveries columns.
THEOREM TypeCorrect == Spec => []TypeOK
<1>1. IInv => TypeOK
  BY DEF IInv
<1> QED BY <1>1, InductiveInvariant, PTL

\* attempt_count plus the lost transactions accounts for every message handed to
\* Twilio, however many retry jobs and callbacks run (update_after_send).
THEOREM SendsAreAccounted == Spec => []SendsAccounted
<1>1. IInv => SendsAccounted
  BY DEF IInv
<1> QED BY <1>1, InductiveInvariant, PTL

\* No transaction leaves a row QUEUED for others to see (compose_and_send and
\* run_daily_report commit only after the dispatch loop).
THEOREM QueuedNeverCommitted == Spec => []NoOrphanedQueued
<1>1. IInv => NoOrphanedQueued
  BY DEF IInv, CommittedOK, CommittedRowOK, NoOrphanedQueued
<1> QED BY <1>1, InductiveInvariant, PTL

\* A SENDING row carries the SID of its newest attempt, which Twilio accepted.
THEOREM SendingWaitsForNewest == Spec => []SendingAwaitsNewest
<1>1. IInv => SendingAwaitsNewest
  BY DEF IInv, CommittedOK, CommittedRowOK, SendingAwaitsNewest
<1> QED BY <1>1, InductiveInvariant, PTL

\* FAILED is only given once 1 + MaxRetryAttempts attempts are on record, whether
\* a failed send or a late callback decided it (_status_after_failed_attempt).
THEOREM GiveUpOnlyWhenSpent == Spec => []NoEarlyGiveUp
<1>1. IInv => NoEarlyGiveUp
  BY DEF IInv, CommittedOK, CommittedRowOK, PendingOK, PendingRowOK, Latest,
         NoEarlyGiveUp
<1> QED BY <1>1, InductiveInvariant, PTL

-----------------------------------------------------------------------------
(* Refinement: the claims, locks and commits implement AttemptLedger. *)

LEMMA LedgerInit == Init => Ledger!Init
BY DEF Init, Ledger!Init, NoRow

LEMMA LedgerStep == IInv /\ [Next]_vars => [Ledger!Next]_Ledger!ledger
<1> SUFFICES ASSUME IInv, [Next]_vars
             PROVE  Ledger!Next \/ UNCHANGED Ledger!ledger
  OBVIOUS
<1> USE DeliveriesAssumption DEF IInv
<1>1. ASSUME NEW e \in Event, StartEvent(e)
      PROVE  Ledger!Take(e, RowsOf(e))
  <2>1. Ledger!Held(e) = {}
    BY <1>1 DEF Ledger!Held, LocksOK, StartEvent
  <2>2. \A d \in RowsOf(e) : lock[d] = None
    BY <1>1 DEF EventRowsOK, StartEvent
  <2> QED BY <1>1, <2>1, <2>2 DEF StartEvent, Ledger!Take, RowsOf
<1>2. ASSUME NEW p \in Dispatcher, NEW d \in Delivery, ClaimForDispatch(p, d),
             lock[d] = None, lock' # lock
      PROVE  Ledger!Take(p, {d})
  <2>1. p \in Poller
    <3>1. CASE p \in Event
      BY <1>2, <3>1 DEF ClaimForDispatch, EventRowsOK, Dispatcher, TypeOK
    <3> QED BY <3>1 DEF Dispatcher
  <2>2. Ledger!Held(p) = {}
    BY <1>2, <2>1 DEF Ledger!Held, LocksOK, ClaimForDispatch
  <2>3. /\ lock' = [x \in Delivery |-> IF x \in {d} THEN p ELSE lock[x]]
        /\ UNCHANGED committed
    BY <1>2 DEF ClaimForDispatch, TypeOK
  <2> QED BY <1>2, <2>2, <2>3 DEF Ledger!Take
<1>3. ASSUME NEW p \in Dispatcher, Commit(p)
      PROVE  Ledger!Record(p)
  <2>1. ASSUME NEW d \in Delivery, lock[d] = p
        PROVE  pending[d].attempts = committed[d].attempts + 1
    <3>1. step[p] # "sending" /\ d \notin todo[p]
      BY <1>3, <2>1 DEF Commit, LocksOK
    <3>2. Recorded(d) /\ lock[d] # None
      BY <2>1, <3>1 DEF Recorded, ControlOK
    <3> QED BY <3>2 DEF PendingOK, PendingRowOK
  <2>2. \A d \in Delivery :
          committed'[d].attempts = IF lock[d] = p THEN committed[d].attempts + 1
                                   ELSE committed[d].attempts
    BY <1>3, <2>1 DEF Commit
  <2> QED BY <1>3, <2>2 DEF Commit, Release, Ledger!Record, Ledger!LetGo
<1>4. ASSUME NEW p \in Dispatcher, Crash(p) \/ SkipRow(p)
      PROVE  Ledger!Lose(p)
  BY <1>4 DEF Crash, SkipRow, Release, Ledger!Lose, Ledger!LetGo
<1>5. ASSUME NEW h \in Hook, ApplyCallback(h)
      PROVE  UNCHANGED Ledger!ledger
  <2>1. hook[h].row \in Delivery
    BY <1>5 DEF ApplyCallback, HooksOK, HookOK
  <2>2. \A d \in Delivery : committed'[d].attempts = committed[d].attempts
    BY <1>5, <2>1 DEF ApplyCallback, TypeOK, Row
  <2> QED BY <1>5, <2>2 DEF ApplyCallback, Ledger!ledger
<1>6. ASSUME UNCHANGED <<committed, lock>>
      PROVE  UNCHANGED Ledger!ledger
  BY <1>6 DEF Ledger!ledger
<1>7. ASSUME NEW p \in Dispatcher, Dispatch(p)
      PROVE  Ledger!Next \/ UNCHANGED Ledger!ledger
  <2>1. ASSUME NEW d \in Delivery, ClaimForDispatch(p, d)
        PROVE  Ledger!Next \/ UNCHANGED Ledger!ledger
    <3>1. UNCHANGED committed
      BY <2>1 DEF ClaimForDispatch
    <3>2. CASE lock' = lock
      BY <3>1, <3>2, <1>6
    <3>3. CASE lock' # lock /\ lock[d] = None
      BY <2>1, <3>3, <1>2 DEF Ledger!Next
    <3>4. CASE lock[d] = p
      BY <2>1, <3>1, <3>4, <1>6 DEF ClaimForDispatch, TypeOK
    <3> QED BY <2>1, <3>2, <3>3, <3>4 DEF ClaimForDispatch
  <2>2. ASSUME NEW outcome \in {"accepted", "rejected", "lost"}, Send(p, outcome)
        PROVE  UNCHANGED Ledger!ledger
    BY <2>2, <1>6 DEF Send
  <2>3. CASE Commit(p)
    BY <2>3, <1>3 DEF Ledger!Next
  <2> QED BY <1>7, <2>1, <2>2, <2>3 DEF Dispatch
<1>8. CASE Next
  <2>1. ASSUME NEW e \in Event, StartEvent(e)
        PROVE  Ledger!Next
    BY <2>1, <1>1 DEF Ledger!Next, Dispatcher, RowsOf
  <2>2. ASSUME NEW p \in Poller, NEW rows \in SUBSET Delivery, ListRetryEligible(p, rows)
        PROVE  UNCHANGED Ledger!ledger
    BY <2>2, <1>6 DEF ListRetryEligible, store
  <2>3. ASSUME NEW p \in Dispatcher, Crash(p) \/ SkipRow(p)
        PROVE  Ledger!Next
    BY <2>3, <1>4 DEF Ledger!Next
  <2>4. ASSUME NEW h \in Hook, NEW d \in Delivery, NEW sid \in accepted[d],
               NEW outcome \in {"delivered", "failure"}, ReadCallback(h, d, sid, outcome)
        PROVE  UNCHANGED Ledger!ledger
    BY <2>4, <1>6 DEF ReadCallback, store
  <2>5. ASSUME NEW h \in Hook, EndCallback(h)
        PROVE  UNCHANGED Ledger!ledger
    BY <2>5, <1>6 DEF EndCallback, store
  <2> QED BY <1>8, <1>5, <1>7, <2>1, <2>2, <2>3, <2>4, <2>5 DEF Next
<1>9. CASE UNCHANGED vars
  BY <1>9, <1>6 DEF vars, store
<1> QED BY <1>8, <1>9

\* The dispatchers implement the attempt ledger: a delivery is in one
\* transaction's hands at a time, and a commit adds exactly one attempt to it.
THEOREM LedgerRefinement == Spec => KeepsLedger
BY InductiveInvariant, LedgerInit, LedgerStep, PTL DEF Spec, KeepsLedger,
   Ledger!Spec

-----------------------------------------------------------------------------
(* What undoes a delivery *)

\* A committed DELIVERED row is in nobody's transaction: retries leave it alone.
LEMMA DeliveredIsFree ==
  ASSUME IInv, NEW d \in Delivery, committed[d].status = "delivered"
  PROVE  lock[d] = None
BY DEF IInv, PendingOK, PendingRowOK

LEMMA CallbackRespectsDelivered ==
  ASSUME IInv, NEW d \in Delivery, committed[d].status = "delivered",
         NEW h \in Hook, NEW x \in Delivery, NEW sid \in accepted[x],
         NEW outcome \in {"delivered", "failure"}, ReadCallback(h, x, sid, outcome),
         NEW g \in Hook, hook'[g] # hook[g], hook'[g].row = d
  PROVE  hook'[g].phase # "apply"
<1>1. g = h /\ x = d
  BY DEF ReadCallback, IInv, TypeOK
<1> DEFINE candidate == IF outcome = "delivered" THEN "delivered"
                        ELSE StatusAfterFailedAttempt(committed[d].attempts)
<1>2. StatusRank[candidate] <= StatusRank["delivered"]
  BY DEF StatusRank, StatusAfterFailedAttempt, DeliveryStatus
<1> HIDE DEF candidate
<1>3. hook'[h].phase \in {"superseded", "rejected"}
  <2>1. \E status : \E phase \in {"superseded", "rejected"} :
          hook' = [hook EXCEPT ![h] = [phase |-> phase, row |-> x, sid |-> sid,
                                       status |-> status]]
    BY <1>1, <1>2 DEF ReadCallback, candidate
  <2> QED BY <2>1 DEF IInv, TypeOK
<1> QED BY <1>1, <1>3

\* No retry and no callback that finds DELIVERED undoes it: only a handler that
\* decided before (_STATUS_RANK, apply_status_update) takes a row out of DELIVERED.
THEOREM RacesUndoDelivered == Spec => OnlyRacesUndoDelivered
<1> DEFINE Kept(d) ==
      committed[d].status = "delivered" =>
        /\ \A h \in Hook :
             hook'[h] # hook[h] /\ hook'[h].row = d => hook'[h].phase # "apply"
        /\ committed'[d].status # "delivered" =>
             \E h \in Hook : /\ hook[h].phase = "apply" /\ hook[h].row = d
                            /\ hook'[h] = IdleHook
<1>1. ASSUME NEW d \in Delivery, UNCHANGED <<committed, hook>>
      PROVE  Kept(d)
  BY <1>1
<1>2. ASSUME IInv, NEW p \in Dispatcher, Commit(p), NEW d \in Delivery
      PROVE  Kept(d)
  BY <1>2, DeliveredIsFree, DeliveriesAssumption DEF Commit, Dispatcher
<1>3. ASSUME IInv, NEW h \in Hook, NEW x \in Delivery, NEW sid \in accepted[x],
             NEW outcome \in {"delivered", "failure"}, ReadCallback(h, x, sid, outcome),
             NEW d \in Delivery
      PROVE  Kept(d)
  BY <1>3, CallbackRespectsDelivered DEF ReadCallback, store
<1>4. ASSUME IInv, NEW h \in Hook, ApplyCallback(h) \/ EndCallback(h), NEW d \in Delivery
      PROVE  Kept(d)
  <2>1. /\ hook' = [hook EXCEPT ![h] = IdleHook]
        /\ hook'[h] = IdleHook /\ \A g \in Hook \ {h} : hook'[g] = hook[g]
    BY <1>4 DEF ApplyCallback, EndCallback, IInv, TypeOK
  <2>2. committed'[d].status # committed[d].status =>
          hook[h].phase = "apply" /\ hook[h].row = d
    BY <1>4 DEF ApplyCallback, EndCallback, store, IInv, TypeOK
  <2>3. IdleHook.phase # "apply"
    BY DEF IdleHook
  <2> QED BY <2>1, <2>2, <2>3
<1>5. ASSUME IInv, [Next]_vars, NEW d \in Delivery
      PROVE  Kept(d)
  <2>1. ASSUME NEW e \in Event, StartEvent(e) PROVE Kept(d)
    BY <2>1, <1>1 DEF StartEvent
  <2>2. ASSUME NEW p \in Poller, NEW rows \in SUBSET Delivery, ListRetryEligible(p, rows)
        PROVE  Kept(d)
    BY <2>2, <1>1 DEF ListRetryEligible, store
  <2>3. ASSUME NEW p \in Dispatcher, Crash(p) \/ SkipRow(p) PROVE Kept(d)
    BY <2>3, <1>1 DEF Crash, SkipRow
  <2>4. ASSUME NEW p \in Dispatcher, NEW x \in Delivery, ClaimForDispatch(p, x) PROVE Kept(d)
    BY <2>4, <1>1 DEF ClaimForDispatch
  <2>5. ASSUME NEW p \in Dispatcher, NEW outcome \in {"accepted", "rejected", "lost"},
               Send(p, outcome)
        PROVE  Kept(d)
    BY <2>5, <1>1 DEF Send
  <2>6. CASE UNCHANGED vars
    BY <2>6, <1>1 DEF vars, store
  <2> HIDE DEF Kept
  <2> QED
    BY <1>2, <1>3, <1>4, <1>5, <2>1, <2>2, <2>3, <2>4, <2>5, <2>6 DEF Next, Dispatch
<1>6. IInv /\ [Next]_vars => [\A d \in Delivery : Kept(d)]_vars
  BY <1>5
<1> QED BY <1>6, InductiveInvariant, PTL DEF OnlyRacesUndoDelivered, Spec

-----------------------------------------------------------------------------
(* With one scheduler process, the retry budget cannot be exceeded. *)

OnePoller == \A p, q \in Poller : p = q

\* What the one retry job has listed or locked is within the backoff table.
BudgetOK ==
  \A d \in Delivery :
    /\ committed[d].attempts <= 1 + BackoffSteps
    /\ lock[d] # None => committed[d].attempts <= BackoffSteps
    /\ \A p \in Poller : d \in todo[p] =>
         committed[d].status # "absent" /\ committed[d].attempts <= BackoffSteps

LEMMA BudgetInit == Init => BudgetOK
BY DeliveriesAssumption DEF Init, BudgetOK, NoRow, Dispatcher

LEMMA BudgetStep ==
  ASSUME OnePoller
  PROVE  IInv /\ IInv' /\ BudgetOK /\ [Next]_vars => BudgetOK'
<1> SUFFICES ASSUME IInv, IInv', BudgetOK, [Next]_vars
             PROVE  BudgetOK'
  OBVIOUS
<1> USE DeliveriesAssumption DEF IInv
<1>0. ASSUME UNCHANGED <<committed, lock>>,
             \A p \in Poller : todo'[p] \subseteq todo[p]
      PROVE  BudgetOK'
  BY <1>0 DEF BudgetOK
<1>1. ASSUME NEW e \in Event, StartEvent(e)
      PROVE  BudgetOK'
  <2>1. UNCHANGED committed /\ \A p \in Poller : todo'[p] = todo[p]
    BY <1>1 DEF StartEvent, TypeOK, Dispatcher
  <2>2. ASSUME NEW d \in Delivery, lock'[d] # None
        PROVE  committed[d].attempts <= BackoffSteps
    <3>1. CASE EventOf[d] = e
      BY <1>1, <3>1 DEF EventRowsOK, RowsOf, StartEvent, NoRow
    <3>2. CASE EventOf[d] # e
      BY <1>1, <2>2, <3>2 DEF BudgetOK, StartEvent
    <3> QED BY <3>1, <3>2
  <2> QED BY <2>1, <2>2 DEF BudgetOK
<1>2. ASSUME NEW p \in Poller, NEW rows \in SUBSET Delivery, ListRetryEligible(p, rows)
      PROVE  BudgetOK'
  <2>1. todo'[p] = rows /\ \A q \in Poller : q = p
    BY <1>2 DEF ListRetryEligible, TypeOK, OnePoller, Dispatcher
  <2>2. \A d \in rows : /\ committed[d].status # "absent"
                        /\ committed[d].attempts <= BackoffSteps
    BY <1>2 DEF ListRetryEligible, RetryEligible
  <2>3. UNCHANGED <<committed, lock>>
    BY <1>2 DEF ListRetryEligible, store
  <2> QED BY <2>1, <2>2, <2>3 DEF BudgetOK
<1>3. ASSUME NEW p \in Dispatcher, NEW d \in Delivery, ClaimForDispatch(p, d)
      PROVE  BudgetOK'
  <2>1. UNCHANGED committed /\ \A q \in Poller : todo'[q] \subseteq todo[q]
    BY <1>3 DEF ClaimForDispatch, TypeOK, Dispatcher
  <2>2. ASSUME NEW x \in Delivery, lock'[x] # None
        PROVE  committed[x].attempts <= BackoffSteps
    <3>1. CASE lock[x] # None
      BY <3>1 DEF BudgetOK
    <3>2. CASE lock[x] = None
      <4>1. x = d /\ d \in todo[p]
        BY <1>3, <2>2, <3>2 DEF ClaimForDispatch, TypeOK
      <4>2. p \in Poller
        BY <1>3, <3>2, <4>1 DEF ClaimForDispatch, EventRowsOK, Dispatcher
      <4> QED BY <4>1, <4>2 DEF BudgetOK
    <3> QED BY <3>1, <3>2
  <2> QED BY <2>1, <2>2 DEF BudgetOK
<1>4. ASSUME NEW p \in Dispatcher, Commit(p)
      PROVE  BudgetOK'
  <2> SUFFICES ASSUME NEW d \in Delivery
               PROVE  /\ committed'[d].attempts <= 1 + BackoffSteps
                      /\ lock'[d] # None => committed'[d].attempts <= BackoffSteps
                      /\ \A q \in Poller : d \in todo[q] =>
                           /\ committed'[d].status # "absent"
                           /\ committed'[d].attempts <= BackoffSteps
    BY <1>4 DEF BudgetOK, Commit
  <2>1. CASE lock[d] # p
    BY <1>4, <2>1 DEF BudgetOK, Commit, Release
  <2>2. CASE lock[d] = p
    <3>1. committed'[d] = pending[d] /\ lock'[d] = None
      BY <1>4, <2>2 DEF Commit, Release
    <3>2. PendingRowOK(d)
      BY <2>2 DEF PendingOK
    <3>3. pending[d].attempts <= 1 + BackoffSteps
      <4>1. committed[d].attempts \in Nat /\ committed[d].attempts <= BackoffSteps
        BY <2>2 DEF BudgetOK, TypeOK, Row
      <4>2. pending[d].attempts \in {committed[d].attempts, committed[d].attempts + 1}
        BY <3>2 DEF PendingRowOK
      <4> QED BY <4>1, <4>2
    <3>4. \A q \in Poller : d \notin todo[q]
      <4>1. CASE p \in Poller
        BY <2>2, <4>1 DEF LocksOK, OnePoller
      <4>2. CASE p \in Event
        BY <1>4, <2>2, <4>2 DEF LocksOK, EventRowsOK, RowsOf, BudgetOK, NoRow
      <4> QED BY <4>1, <4>2 DEF Dispatcher
    <3> QED BY <3>1, <3>3, <3>4
  <2> QED BY <2>1, <2>2
<1>5. ASSUME NEW p \in Dispatcher, Crash(p) \/ SkipRow(p)
      PROVE  BudgetOK'
  <2>1. UNCHANGED committed /\ Release(p)
    BY <1>5 DEF Crash, SkipRow
  <2>3. \A d \in Delivery : lock'[d] = lock[d] \/ lock'[d] = None
    BY <2>1 DEF Release
  <2>2. \A q \in Poller : todo'[q] \subseteq todo[q]
    <3>1. CASE Crash(p)
      BY <3>1 DEF Crash, TypeOK, Dispatcher
    <3>2. CASE SkipRow(p) /\ UNCHANGED todo
      BY <3>2
    <3>3. ASSUME NEW d \in todo[p], todo' = [todo EXCEPT ![p] = @ \ {d}]
          PROVE  \A q \in Poller : todo'[q] \subseteq todo[q]
      BY <3>3 DEF TypeOK, Dispatcher
    <3> QED BY <1>5, <3>1, <3>2, <3>3 DEF SkipRow
  <2> QED BY <2>1, <2>2, <2>3 DEF BudgetOK
<1>6. ASSUME NEW h \in Hook, ApplyCallback(h)
      PROVE  BudgetOK'
  <2>1. PICK d \in Delivery : d = hook[h].row /\ hook[h].status # "absent"
    BY <1>6 DEF ApplyCallback, HooksOK, HookOK
  <2>2. \A x \in Delivery : /\ committed'[x].attempts = committed[x].attempts
                            /\ committed[x].status # "absent" => committed'[x].status # "absent"
    BY <1>6, <2>1 DEF ApplyCallback, TypeOK, Row
  <2> QED BY <1>6, <2>2 DEF ApplyCallback, BudgetOK
<1>7. CASE Next
  <2>1. ASSUME NEW p \in Dispatcher, NEW outcome \in {"accepted", "rejected", "lost"},
               Send(p, outcome)
        PROVE  BudgetOK'
    BY <2>1, <1>0 DEF Send
  <2>2. ASSUME NEW h \in Hook, NEW d \in Delivery, NEW sid \in accepted[d],
               NEW outcome \in {"delivered", "failure"}, ReadCallback(h, d, sid, outcome)
        PROVE  BudgetOK'
    BY <2>2, <1>0 DEF ReadCallback, store
  <2>3. ASSUME NEW h \in Hook, EndCallback(h)
        PROVE  BudgetOK'
    BY <2>3, <1>0 DEF EndCallback, store
  <2> QED BY <1>7, <1>1, <1>2, <1>3, <1>4, <1>5, <1>6, <2>1, <2>2, <2>3 DEF
     Next, Dispatch
<1>8. CASE UNCHANGED vars
  BY <1>8, <1>0 DEF vars, store
<1> QED BY <1>7, <1>8

LEMMA BudgetImpliesBounded == IInv /\ BudgetOK => RetriesBounded
<1> SUFFICES ASSUME IInv, BudgetOK, NEW d \in Delivery
             PROVE  Latest(d).attempts <= 1 + BackoffSteps
  BY DEF RetriesBounded
<1>1. CASE lock[d] = None
  BY <1>1 DEF Latest, BudgetOK
<1>2. CASE lock[d] # None
  <2>1. PendingRowOK(d)
    BY <1>2 DEF IInv, PendingOK
  <2> QED BY <1>2, <2>1, DeliveriesAssumption
          DEF PendingRowOK, Latest, BudgetOK, IInv, TypeOK, Row
<1> QED BY <1>1, <1>2

\* One scheduler process never dispatches a row more than 1 + BackoffSteps times,
\* whatever stale callbacks write meanwhile (list_retry_eligible's three branches).
THEOREM OnePollerBounded ==
  ASSUME OnePoller
  PROVE  Spec => []RetriesBounded
BY InductiveInvariant, BudgetInit, BudgetStep, BudgetImpliesBounded, PTL DEF Spec
=============================================================================
