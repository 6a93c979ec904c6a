-------------------------- MODULE DailyReportProofs --------------------------
(***************************************************************************)
(* Theorems about DailyReport, for any recipients, any number of scheduler  *)
(* processes, any clock resolution and any number of edits and crashes.    *)
(***************************************************************************)
EXTENDS DailyReport, FiniteSetTheorems, TLAPS

-----------------------------------------------------------------------------
(* The inductive invariant.  The lock makes the run that is past it the only *)
(* one, so what that run learnt about the committed rows stays true until it *)
(* commits, and a copy of a report is either paid for by a committed row, or *)
(* by the open transaction that sent it, or by a lost one.                   *)

\* A run past the unique index holds rows nobody has reported, not an empty set.
JobsOK ==
  \A s \in Scheduler :
    /\ job[s].phase \in {"insert", "dispatch"} => job[s].rows # {}
    /\ job[s].phase = "dispatch" => /\ job[s].rows \cap Reported(job[s].day) = {}
                                    /\ job[s].todo \subseteq job[s].rows

\* Recipient r was dealt with by an open transaction for day d.
InHand(d, r) ==
  \E s \in Scheduler : /\ job[s].phase = "dispatch"
                       /\ job[s].day = d
                       /\ r \in job[s].rows \ job[s].todo

Paid(d, r) == r \in Reported(d) \/ InHand(d, r)

CopiesOK ==
  \A d \in Day, r \in Recipient :
    /\ Paid(d, r) => messages[d][r] <= crashes + 1
    /\ ~Paid(d, r) => messages[d][r] <= crashes

IInv ==
  /\ TypeOK
  /\ IsFiniteSet(reports)
  /\ OneRunAtATime
  /\ OneRowPerDay
  /\ NoOrphanNotification
  /\ JobsOK
  /\ CopiesOK
-----------------------------------------------------------------------------
(* The calendars *)

\* Later instants are never on earlier days.
LEMMA DivMonotonic ==
  ASSUME NEW n \in Nat \ {0}, NEW a \in Nat, NEW b \in Nat, a <= b
  PROVE  /\ a \div n \in Nat
         /\ a \div n <= b \div n
<1> DEFINE p == a \div n
           q == b \div n
<1>1. /\ p \in Int /\ q \in Int
      /\ n * p <= a /\ a < n * p + n
      /\ n * q <= b /\ b < n * q + n
  OBVIOUS
<1> HIDE DEF p, q
<1>2. p >= 0
  <2> SUFFICES ASSUME p <= -1 PROVE FALSE
    BY <1>1
  <2>1. n * p <= n * (-1)
    BY <1>1
  <2> QED BY <1>1, <2>1
<1>3. p <= q
  <2> SUFFICES ASSUME q + 1 <= p PROVE FALSE
    BY <1>1
  <2>1. n * (q + 1) <= n * p
    BY <1>1
  <2>2. n * (q + 1) = n * q + n
    BY <1>1
  <2> QED BY <1>1, <2>1, <2>2
<1> QED BY <1>1, <1>2, <1>3 DEF p, q

\* The clock's Operational Day is one of the days the model keeps.
LEMMA TodayIsADay ==
  ASSUME NEW t \in 0..LastSlot
  PROVE  DhakaDay(t) \in Day
<1>1. /\ t + DhakaOffset \in Nat /\ LastSlot + DhakaOffset \in Nat
      /\ t + DhakaOffset <= LastSlot + DhakaOffset
      /\ SlotsPerDay \in Nat \ {0}
  BY DailyReportAssumption
<1>2. /\ DhakaDay(t) \in Nat
      /\ DhakaDay(LastSlot) \in Nat
      /\ DhakaDay(t) <= DhakaDay(LastSlot)
  BY <1>1, DivMonotonic DEF DhakaDay
<1> QED BY <1>2 DEF Day

\* The API's conversion always yields a slot of the UTC day.
LEMMA DhakaToUtcIsASlot ==
  ASSUME NEW slot \in Slot
  PROVE  DhakaToUtc(slot) \in Slot
BY DailyReportAssumption DEF Slot, DhakaToUtc

-----------------------------------------------------------------------------
(* Every action preserves the invariant *)

\* Before the first poll nothing is reported, locked or sent.
LEMMA InitIInv == Init => IInv
<1> SUFFICES ASSUME Init PROVE IInv
  OBVIOUS
<1> USE DEF Init
<1>1. 0 \in Day
  BY TodayIsADay, DailyReportAssumption DEF Day
<1>2. TypeOK
  BY <1>1, DailyReportAssumption
  DEF TypeOK, Job, Idle, Phase, Slot
<1>3. IsFiniteSet(reports)
  BY FS_EmptySet
<1>4. OneRunAtATime
  BY DailyReportAssumption DEF OneRunAtATime, Idle
<1>5. OneRowPerDay /\ NoOrphanNotification
  BY DEF OneRowPerDay, NoOrphanNotification
<1>6. JobsOK
  BY DEF JobsOK, Idle
<1>7. CopiesOK
  BY DEF CopiesOK, Paid, InHand, Reported, Idle
<1> QED BY <1>2, <1>3, <1>4, <1>5, <1>6, <1>7 DEF IInv

\* A run that ends without committing: a poll that is skipped, or, when it may
\* have sent something, a crash.
LEMMA EndIInv ==
  ASSUME IInv, NEW s \in Scheduler, EndJob(s),
         UNCHANGED <<now, schedule, directory, reports, messages, edits>>,
         crashes' \in 0..MaxCrashes,
         \/ crashes' = crashes /\ job[s].phase # "dispatch"
         \/ crashes' = crashes + 1
  PROVE  IInv'
<1> USE DailyReportAssumption DEF IInv
<1>1. /\ job' = [job EXCEPT ![s] = Idle]
      /\ job \in [Scheduler -> Job] /\ Idle \in Job
  <2>1. 0 \in Day
    BY TodayIsADay DEF Day
  <2> QED BY <2>1 DEF EndJob, TypeOK, Idle, Job, Phase
<1>2. TypeOK'
  <2>1. job' \in [Scheduler -> Job]
    BY <1>1
  <2> QED BY <2>1 DEF TypeOK, EndJob, directory
<1>3. OneRunAtATime'
  BY <1>1 DEF OneRunAtATime, EndJob, Idle, TypeOK
<1>4. OneRowPerDay' /\ NoOrphanNotification' /\ IsFiniteSet(reports)'
  BY DEF OneRowPerDay, NoOrphanNotification
<1>5. JobsOK'
  BY <1>1 DEF JobsOK, Reported, Idle
<1>6. CopiesOK'
  <2> SUFFICES ASSUME NEW d \in Day, NEW r \in Recipient
               PROVE  /\ Paid(d, r)' => messages[d][r] <= crashes' + 1
                      /\ ~Paid(d, r)' => messages[d][r] <= crashes'
    BY DEF CopiesOK
  <2>1. /\ messages[d][r] \in Nat /\ crashes \in Nat /\ crashes' \in Nat
        /\ messages[d][r] <= crashes + 1
        /\ ~Paid(d, r) => messages[d][r] <= crashes
    BY DEF TypeOK, CopiesOK
  <2>2. CASE crashes' = crashes + 1
    BY <2>1, <2>2
  <2>3. CASE crashes' = crashes /\ job[s].phase # "dispatch"
    <3>1. Paid(d, r)' <=> Paid(d, r)
      BY <1>1, <2>3 DEF Paid, InHand, Reported, Idle
    <3> QED BY <2>1, <2>3, <3>1 DEF CopiesOK
  <2> QED BY <2>2, <2>3
<1> QED BY <1>2, <1>3, <1>4, <1>5, <1>6

\* A run that moves on without sending, committing or ending.
LEMMA AdvanceIInv ==
  ASSUME IInv, NEW s \in Scheduler, NEW j \in Job,
         job' = [job EXCEPT ![s] = j],
         UNCHANGED <<now, schedule, directory, reports, messages, edits, crashes>>,
         lock' \in {lock, s}, lock' = s => lock \in {None, s},
         j.phase \in {"resolve", "insert", "dispatch"} <=> lock' = s,
         job[s].phase # "dispatch",
         j.phase \in {"insert", "dispatch"} => j.rows # {},
         j.phase = "dispatch" =>
           j.todo = j.rows /\ j.rows \cap Reported(j.day) = {}
  PROVE  IInv'
<1> USE DailyReportAssumption DEF IInv
<1>1. /\ job'[s] = j /\ \A t \in Scheduler : t # s => job'[t] = job[t]
      /\ job' \in [Scheduler -> Job]
  BY DEF TypeOK
<1>2. TypeOK'
  BY <1>1 DEF TypeOK, directory
<1>3. OneRunAtATime'
  BY <1>1 DEF OneRunAtATime
<1>4. OneRowPerDay' /\ NoOrphanNotification' /\ IsFiniteSet(reports)'
  BY DEF OneRowPerDay, NoOrphanNotification
<1>5. JobsOK'
  BY <1>1 DEF JobsOK, Reported
<1>6. CopiesOK'
  <2>1. ASSUME NEW d \in Day, NEW r \in Recipient
        PROVE  Paid(d, r)' <=> Paid(d, r)
    <3>1. \A t \in Scheduler :
            /\ job'[t].phase = "dispatch" /\ job'[t].day = d
            /\ r \in job'[t].rows \ job'[t].todo
            <=>
            /\ job[t].phase = "dispatch" /\ job[t].day = d
            /\ r \in job[t].rows \ job[t].todo
      BY <1>1
    <3> QED BY <3>1 DEF Paid, InHand, Reported
  <2> QED BY <2>1 DEF CopiesOK
<1> QED BY <1>2, <1>3, <1>4, <1>5, <1>6

\* One more message, for a row no other transaction has dealt with.
LEMMA DispatchIInv ==
  ASSUME IInv, NEW s \in Scheduler, NEW r \in Recipient, Dispatch(s, r)
  PROVE  IInv'
<1> USE DailyReportAssumption DEF IInv
<1> DEFINE day == job[s].day
           todo == job[s].todo \ {r}
<1>1. /\ job[s] \in Job /\ job[s].phase = "dispatch" /\ r \in job[s].todo
      /\ job' = [job EXCEPT ![s].todo = todo]
      /\ UNCHANGED <<now, schedule, directory, reports, lock, edits, crashes>>
      /\ day \in Day /\ crashes \in Nat
  BY DEF Dispatch, TypeOK, Job
<1>2. /\ job' \in [Scheduler -> Job]
      /\ job'[s] = [job[s] EXCEPT !.todo = todo]
      /\ \A t \in Scheduler : t # s => job'[t] = job[t]
  BY <1>1 DEF TypeOK, Job
<1>3. messages' \in [Day -> [Recipient -> Nat]]
  BY <1>1 DEF Dispatch, TypeOK
<1>4. TypeOK'
  BY <1>1, <1>2, <1>3 DEF TypeOK, directory
<1>5. /\ \A t \in Scheduler : job'[t].phase = job[t].phase
      /\ \A t \in Scheduler : job'[t].rows = job[t].rows
      /\ \A t \in Scheduler : job'[t].day = job[t].day
      /\ job'[s].todo = todo
  BY <1>1, <1>2 DEF Job
<1>6. OneRunAtATime'
  BY <1>1, <1>5 DEF OneRunAtATime
<1>7. OneRowPerDay' /\ NoOrphanNotification' /\ IsFiniteSet(reports)'
  BY <1>1 DEF OneRowPerDay, NoOrphanNotification
<1>8. JobsOK'
  BY <1>1, <1>5 DEF JobsOK, Reported
<1>9. CopiesOK'
  <2> SUFFICES ASSUME NEW d \in Day, NEW x \in Recipient
               PROVE  /\ Paid(d, x)' => messages'[d][x] <= crashes + 1
                      /\ ~Paid(d, x)' => messages'[d][x] <= crashes
    BY <1>1 DEF CopiesOK
  <2>a. messages[d][x] \in Nat /\ messages'[d][x] \in Nat
    BY <1>3 DEF TypeOK
  <2>b. ASSUME ~Paid(d, x)' PROVE ~Paid(d, x)
    <3>1. \A t \in Scheduler : job[t].rows \ job[t].todo \subseteq
                                 job'[t].rows \ job'[t].todo
      BY <1>1, <1>2, <1>5
    <3> QED BY <2>b, <3>1, <1>1, <1>5 DEF Paid, InHand, Reported
  <2>1. CASE d = day /\ x = r
    <3>1. ~Paid(d, x) /\ r \in job[s].rows
      <4>1. \A t \in Scheduler : job[t].phase = "dispatch" => t = s
        BY <1>1 DEF OneRunAtATime
      <4> QED BY <1>1, <2>1, <4>1 DEF Paid, InHand, JobsOK
    <3>2. messages'[d][x] <= messages[d][x] + 1
      BY <1>1, <2>a, <2>1 DEF Dispatch, TypeOK
    <3>3. Paid(d, x)'
      BY <1>1, <1>5, <2>1, <3>1 DEF Paid, InHand
    <3> QED BY <2>a, <3>1, <3>2, <3>3, <1>1 DEF CopiesOK
  <2>2. CASE ~(d = day /\ x = r)
    <3>1. messages'[d][x] = messages[d][x]
      BY <1>1, <2>2 DEF Dispatch, TypeOK
    <3>2. Paid(d, x)' => Paid(d, x)
      <4>1. \A t \in Scheduler : 
               job[t].day = d /\ x \in job'[t].rows \ job'[t].todo
                 => x \in job[t].rows \ job[t].todo
        BY <1>1, <1>2, <1>5, <2>2
      <4> QED BY <4>1, <1>1, <1>5 DEF Paid, InHand, Reported
    <3> QED BY <2>b, <3>1, <3>2 DEF CopiesOK
  <2> QED BY <2>1, <2>2
<1> QED BY <1>4, <1>6, <1>7, <1>8, <1>9

\* The rows become everybody's, and the copies they stand for with them.
LEMMA CommitIInv ==
  ASSUME IInv, NEW s \in Scheduler, Commit(s)
  PROVE  IInv'
<1> USE DailyReportAssumption DEF IInv
<1> DEFINE new == [id |-> Cardinality(reports), day |-> job[s].day,
                   rows |-> job[s].rows]
<1>1. /\ job[s] \in Job /\ job[s].phase = "dispatch" /\ job[s].todo = {}
      /\ reports' = reports \cup {new}
      /\ job' = [job EXCEPT ![s] = Idle]
      /\ UNCHANGED <<now, schedule, directory, messages, edits, crashes>>
      /\ lock' = IF lock = s THEN None ELSE lock
  BY DEF Commit, EndJob, TypeOK
<1>2. new \in Report /\ new.day = job[s].day /\ new.rows = job[s].rows
  <2>1. Cardinality(reports) \in Nat
    BY FS_CardinalityType
  <2> QED BY <1>1, <2>1 DEF Report, Job
<1> HIDE DEF new
<1>3. Idle \in Job
  BY TodayIsADay DEF Idle, Job, Phase, Day
<1>4. TypeOK'
  BY <1>1, <1>2, <1>3 DEF TypeOK, directory
<1>5. IsFiniteSet(reports)'
  BY <1>1, FS_AddElement
<1>6. OneRunAtATime'
  BY <1>1 DEF OneRunAtATime, Idle, TypeOK
<1>7. OneRowPerDay'
  <2>1. \A a \in reports : a.day = new.day => a.rows \cap new.rows = {}
    BY <1>1, <1>2 DEF JobsOK, Reported
  <2> QED BY <1>1, <2>1 DEF OneRowPerDay
<1>8. NoOrphanNotification'
  BY <1>1, <1>2 DEF NoOrphanNotification, JobsOK
<1>9. \A d \in Day : Reported(d)' = Reported(d) \cup
                        (IF d = job[s].day THEN job[s].rows ELSE {})
  BY <1>1, <1>2 DEF Reported
<1>10. \A t \in Scheduler : t # s => job'[t] = job[t] /\ job[t].phase # "dispatch"
  BY <1>1 DEF OneRunAtATime, TypeOK
<1>11. JobsOK'
  BY <1>1, <1>10 DEF JobsOK, Idle, TypeOK
<1>12. CopiesOK'
  <2> SUFFICES ASSUME NEW d \in Day, NEW r \in Recipient
               PROVE  Paid(d, r)' <=> Paid(d, r)
    BY <1>1 DEF CopiesOK
  <2>1. Paid(d, r)' <=> r \in Reported(d)'
    BY <1>1, <1>10 DEF Paid, InHand, Idle, TypeOK
  <2>2. Paid(d, r) <=> r \in Reported(d) \/ (d = job[s].day /\ r \in job[s].rows)
    BY <1>1, <1>10 DEF Paid, InHand
  <2> QED BY <1>9, <2>1, <2>2
<1> QED BY <1>4, <1>5, <1>6, <1>7, <1>8, <1>11, <1>12

\* The clock, the settings and the directory leave the polls as they are.
LEMMA SurroundingsIInv ==
  ASSUME IInv, UNCHANGED <<reports, lock, job, messages, crashes>>,
         \/ Tick
         \/ \E slot \in Slot : UpdateSchedule(slot)
         \/ EditDirectory
  PROVE  IInv'
<1> USE DailyReportAssumption DEF IInv
<1>1. TypeOK'
  <2>1. CASE Tick
    BY <2>1 DEF TypeOK, Tick, directory
  <2>2. ASSUME NEW slot \in Slot, UpdateSchedule(slot) PROVE TypeOK'
    BY <2>2, DhakaToUtcIsASlot DEF TypeOK, UpdateSchedule, directory
  <2>3. CASE EditDirectory
    <3>1. edits' \in 0..MaxEdits /\ eligible' \subseteq Recipient
      BY <2>3 DEF TypeOK, EditDirectory
    <3>2. template' \in BOOLEAN
      BY <2>3, Zenon DEF TypeOK, EditDirectory
    <3> QED BY <2>3, <3>1, <3>2 DEF TypeOK, EditDirectory
  <2> QED BY <2>1, <2>2, <2>3
<1>2. OneRunAtATime' /\ OneRowPerDay' /\ NoOrphanNotification' /\ IsFiniteSet(reports)'
  BY DEF OneRunAtATime, OneRowPerDay, NoOrphanNotification
<1>3. JobsOK'
  BY DEF JobsOK, Reported
<1>4. CopiesOK'
  BY DEF CopiesOK, Paid, InHand, Reported
<1> QED BY <1>1, <1>2, <1>3, <1>4

\* One step of a poll.
LEMMA PollIInv ==
  ASSUME IInv, NEW s \in Scheduler, Poll(s)
  PROVE  IInv'
<1> USE DailyReportAssumption
<1>0. /\ TypeOK /\ OneRunAtATime /\ JobsOK
      /\ job[s] \in Job /\ crashes \in 0..MaxCrashes
      /\ \A d \in Day : Reported(d) = UNION {r.rows : r \in {x \in reports : x.day = d}}
  BY DEF IInv, TypeOK, Reported
<1>1. CASE EndJob(s) /\ job[s].phase # "dispatch"
           /\ UNCHANGED <<now, schedule, directory, reports, messages, edits, crashes>>
  BY <1>0, <1>1, EndIInv
<1>2. CASE Wake(s)
  <2> DEFINE j == [job[s] EXCEPT !.phase = "schedule", !.at = now,
                                 !.day = DhakaDay(now)]
  <2>1. /\ j \in Job /\ j.phase = "schedule" /\ job' = [job EXCEPT ![s] = j]
        /\ lock # s
    BY <1>0, <1>2, TodayIsADay DEF Wake, TypeOK, Job, Phase, OneRunAtATime
  <2> QED BY <1>0, <1>2, <2>1, AdvanceIInv DEF Wake
<1>3. CASE CheckSchedule(s)
  <2> DEFINE j == [job[s] EXCEPT !.phase = "exists", !.at = 0]
  <2>1. CASE job' = [job EXCEPT ![s] = j] /\ lock' = lock
    <3>1. lock # s
      BY <1>0, <1>3 DEF CheckSchedule, OneRunAtATime
    <3>2. j \in Job /\ j.phase = "exists"
      <4>1. 0 \in 0..LastSlot
        OBVIOUS
      <4> QED BY <1>0, <4>1 DEF Job, Phase
    <3> QED BY <1>0, <1>3, <2>1, <3>1, <3>2, AdvanceIInv DEF CheckSchedule
  <2> QED BY <1>0, <1>1, <1>3, <2>1 DEF CheckSchedule, TypeOK
<1>4. CASE CheckExists(s)
  <2> DEFINE j == [job[s] EXCEPT !.phase = "lock"]
  <2>1. CASE job' = [job EXCEPT ![s] = j] /\ lock' = lock
    <3>1. j \in Job /\ j.phase = "lock" /\ lock # s
      BY <1>0, <1>4 DEF CheckExists, TypeOK, Job, Phase, OneRunAtATime
    <3> QED BY <1>0, <1>4, <2>1, <3>1, AdvanceIInv DEF CheckExists
  <2> QED BY <1>0, <1>1, <1>4, <2>1 DEF CheckExists, TypeOK
<1>5. CASE TryLock(s)
  <2> DEFINE j == [job[s] EXCEPT !.phase = "resolve"]
  <2>1. CASE lock = None /\ lock' = s /\ job' = [job EXCEPT ![s] = j]
    <3>1. j \in Job /\ j.phase = "resolve"
      BY <1>0 DEF Job, Phase
    <3> QED BY <1>0, <1>5, <2>1, <3>1, AdvanceIInv DEF TryLock
  <2> QED BY <1>0, <1>1, <1>5, <2>1 DEF TryLock, TypeOK
<1>6. CASE Resolve(s)
  <2> DEFINE j == [job[s] EXCEPT !.phase = "insert", !.rows = eligible]
  <2>1. CASE eligible # {} /\ lock' = lock /\ job' = [job EXCEPT ![s] = j]
    <3>1. j \in Job /\ j.phase = "insert" /\ j.rows # {} /\ lock = s
      BY <1>0, <1>6, <2>1 DEF Resolve, TypeOK, Job, Phase, OneRunAtATime
    <3> QED BY <1>0, <1>6, <2>1, <3>1, AdvanceIInv DEF Resolve
  <2> QED BY <1>0, <1>1, <1>6, <2>1 DEF Resolve, TypeOK
<1>7. CASE BulkCreate(s)
  <2> DEFINE j == [job[s] EXCEPT !.phase = "dispatch", !.todo = job[s].rows]
  <2>1. CASE /\ job[s].rows \cap Reported(job[s].day) = {}
             /\ lock' = lock /\ job' = [job EXCEPT ![s] = j]
    <3>1. /\ j \in Job /\ j.phase = "dispatch" /\ j.rows = job[s].rows
          /\ j.day = job[s].day /\ j.todo = j.rows /\ j.rows # {} /\ lock = s
      BY <1>0, <1>7, <2>1 DEF BulkCreate, Job, Phase, OneRunAtATime, JobsOK
    <3> QED BY <1>0, <1>7, <2>1, <3>1, AdvanceIInv DEF BulkCreate
  <2> QED BY <1>0, <1>1, <1>7, <2>1 DEF BulkCreate, TypeOK
<1>8. ASSUME NEW r \in Recipient, Dispatch(s, r) PROVE IInv'
  BY <1>8, DispatchIInv
<1>9. CASE Commit(s)
  BY <1>9, CommitIInv
<1> QED BY <1>2, <1>3, <1>4, <1>5, <1>6, <1>7, <1>8, <1>9 DEF Poll

\* Every step preserves the invariant.
LEMMA NextIInv == IInv /\ [Next]_vars => IInv'
<1> SUFFICES ASSUME IInv, [Next]_vars PROVE IInv'
  OBVIOUS
<1>1. ASSUME NEW s \in Scheduler, Poll(s) PROVE IInv'
  BY <1>1, PollIInv
<1>2. ASSUME NEW s \in Scheduler, Crash(s) PROVE IInv'
  <2>1. crashes' = crashes + 1 /\ crashes' \in 0..MaxCrashes
    BY <1>2, DailyReportAssumption DEF Crash, IInv, TypeOK
  <2> QED BY <1>2, <2>1, EndIInv DEF Crash
<1>3. CASE Tick
  BY <1>3, SurroundingsIInv DEF Tick
<1>4. CASE \E slot \in Slot : UpdateSchedule(slot)
  BY <1>4, SurroundingsIInv DEF UpdateSchedule
<1>5. CASE EditDirectory
  BY <1>5, SurroundingsIInv DEF EditDirectory
<1>6. CASE UNCHANGED vars
  BY <1>6 DEF vars, directory, IInv, TypeOK, OneRunAtATime, OneRowPerDay,
     NoOrphanNotification, JobsOK, CopiesOK, Paid, InHand, Reported
<1> QED BY <1>1, <1>2, <1>3, <1>4, <1>5, <1>6 DEF Next

-----------------------------------------------------------------------------
(* The theorems *)

\* Every reachable state satisfies the inductive invariant.
THEOREM InductiveInvariant == Spec => []IInv
BY InitIInv, NextIInv, PTL DEF Spec

\* Every variable keeps its type; in particular a schedule saved through the
\* Dhaka-to-UTC conversion (api/settings/routes.py) is a slot of the UTC day.
THEOREM TypeCorrect == Spec => []TypeOK
<1>1. IInv => TypeOK
  BY DEF IInv
<1> QED BY <1>1, InductiveInvariant, PTL

\* However many scheduler processes overlap, a recipient has at most one delivery
\* row per Operational Day (bulk_create and the partial unique index).
THEOREM AtMostOneRow == Spec => []OneRowPerDay
<1>1. IInv => OneRowPerDay
  BY DEF IInv
<1> QED BY <1>1, InductiveInvariant, PTL

\* A skipped or rejected run leaves no Notification behind.
THEOREM NoOrphans == Spec => []NoOrphanNotification
<1>1. IInv => NoOrphanNotification
  BY DEF IInv
<1> QED BY <1>1, InductiveInvariant, PTL

\* The advisory lock serialises everything from the resolution to the commit.
THEOREM Serialised == Spec => []OneRunAtATime
<1>1. IInv => OneRunAtATime
  BY DEF IInv
<1> QED BY <1>1, InductiveInvariant, PTL

\* A recipient is sent a day's report at most once more than transactions were
\* lost: without a crash, zero duplicates (run_daily_report's promise).
THEOREM DuplicatesNeedCrashes == Spec => []RepeatNeedsCrash
<1>1. IInv => RepeatNeedsCrash
  BY DEF IInv, CopiesOK, RepeatNeedsCrash, TypeOK
<1> QED BY <1>1, InductiveInvariant, PTL

-----------------------------------------------------------------------------
(* Refinement: the lock, the index and the one commit implement DailyLedger. *)

\* The run that dispatches is the only one, so its report is the one open.
LEMMA OneOpenReport ==
  ASSUME IInv, NEW s \in Scheduler, job[s].phase = "dispatch"
  PROVE  OpenReport = {[day |-> job[s].day, rows |-> job[s].rows, todo |-> job[s].todo]}
<1>1. \A t \in Scheduler : job[t].phase = "dispatch" => t = s
  BY DEF IInv, OneRunAtATime
<1>2. Dispatching = {s}
  BY <1>1 DEF Dispatching
<1> QED BY <1>2 DEF OpenReport

\* Nothing is open while a run is on its way to the dispatch.
LEMMA NoOpenReport ==
  ASSUME \A s \in Scheduler : job[s].phase # "dispatch"
  PROVE  OpenReport = {}
BY DEF OpenReport, Dispatching

\* A poll that neither reaches nor leaves the dispatch changes no open report.
LEMMA SameOpenReport ==
  ASSUME NEW s \in Scheduler, \A t \in Scheduler \ {s} : job'[t] = job[t],
         job[s].phase # "dispatch", job'[s].phase # "dispatch"
  PROVE  OpenReport' = OpenReport
<1>1. Dispatching' = Dispatching
  BY DEF Dispatching
<1>2. \A t \in Dispatching : job'[t] = job[t]
  BY DEF Dispatching
<1> QED BY <1>1, <1>2 DEF OpenReport

LEMMA LedgerInit == Init => Daily!Init
<1> SUFFICES ASSUME Init PROVE Daily!Init
  OBVIOUS
<1>1. OpenReport = {}
  BY NoOpenReport DEF Init, Idle
<1> QED BY <1>1 DEF Init, Daily!Init, Filed

\* The rows pass the unique index: a report is opened, and no other one is.
LEMMA BulkCreateOpens ==
  ASSUME IInv, NEW s \in Scheduler, BulkCreate(s), job'[s].phase = "dispatch"
  PROVE  Daily!Next
<1> USE DailyReportAssumption DEF IInv
<1>1. /\ job[s] \in Job /\ job[s].phase = "insert" /\ job[s].rows # {}
      /\ job[s].rows \cap Reported(job[s].day) = {}
      /\ job' = [job EXCEPT ![s].phase = "dispatch", ![s].todo = job[s].rows]
      /\ UNCHANGED <<reports, messages, crashes>>
  BY DEF BulkCreate, EndJob, Idle, TypeOK, JobsOK
<1>2. /\ job'[s].day = job[s].day /\ job'[s].rows = job[s].rows
      /\ job'[s].todo = job[s].rows
      /\ \A t \in Scheduler \ {s} : job'[t] = job[t]
  BY <1>1 DEF TypeOK, Job
<1>3. \A t \in Scheduler : job[t].phase # "dispatch"
  BY <1>1 DEF OneRunAtATime
<1>4. OpenReport = {}
  BY <1>3, NoOpenReport
<1>5. Dispatching' = {s}
  BY <1>2, <1>3 DEF Dispatching
<1>6. OpenReport' =
        {[day |-> job[s].day, rows |-> job[s].rows, todo |-> job[s].rows]}
  BY <1>2, <1>5 DEF OpenReport
<1>7. \A f \in Filed : f.day = job[s].day => f.rows \cap job[s].rows = {}
  BY <1>1 DEF Filed, Reported
<1>8. UNCHANGED <<Filed, messages, crashes>>
  BY <1>1 DEF Filed
<1>9. Daily!Open(job[s].day, job[s].rows)
  BY <1>1, <1>4, <1>6, <1>7, <1>8 DEF Daily!Open
<1> QED BY <1>1, <1>9 DEF Daily!Next, Job

\* One row of the open report is dealt with.
LEMMA DispatchSends ==
  ASSUME IInv, NEW s \in Scheduler, NEW r \in Recipient, Dispatch(s, r)
  PROVE  Daily!Next
<1> USE DailyReportAssumption DEF IInv
<1> DEFINE o == [day |-> job[s].day, rows |-> job[s].rows, todo |-> job[s].todo]
<1>1. /\ job[s] \in Job /\ job[s].phase = "dispatch" /\ r \in job[s].todo
      /\ job' = [job EXCEPT ![s].todo = job[s].todo \ {r}]
      /\ UNCHANGED <<reports, crashes>>
  BY DEF Dispatch, TypeOK
<1>2. /\ job'[s].day = job[s].day /\ job'[s].rows = job[s].rows
      /\ job'[s].todo = job[s].todo \ {r}
      /\ \A t \in Scheduler : job'[t].phase = job[t].phase
  BY <1>1 DEF TypeOK, Job
<1>3. OpenReport = {o}
  BY <1>1, OneOpenReport
<1>4. Dispatching' = {s}
  BY <1>1, <1>2 DEF Dispatching, OneRunAtATime
<1>5. OpenReport' = {[day |-> o.day, rows |-> o.rows, todo |-> o.todo \ {r}]}
  BY <1>2, <1>4 DEF OpenReport
<1>6. messages' \in {messages, [messages EXCEPT ![o.day][r] = @ + 1]}
  BY DEF Dispatch
<1>7. UNCHANGED <<Filed, crashes>>
  BY <1>1 DEF Filed
<1>8. Daily!Send(o, r) /\ r \in o.todo
  BY <1>1, <1>5, <1>6, <1>7 DEF Daily!Send
<1> QED BY <1>3, <1>8 DEF Daily!Next

\* The commit files the open report, with every row of it dealt with.
LEMMA CommitFiles ==
  ASSUME IInv, NEW s \in Scheduler, Commit(s)
  PROVE  Daily!Next
<1> USE DailyReportAssumption DEF IInv
<1> DEFINE o == [day |-> job[s].day, rows |-> job[s].rows, todo |-> job[s].todo]
           new == [id |-> Cardinality(reports), day |-> job[s].day,
                   rows |-> job[s].rows]
<1>1. /\ job[s].phase = "dispatch" /\ o.todo = {}
      /\ reports' = reports \cup {new}
      /\ job' = [job EXCEPT ![s] = Idle]
      /\ UNCHANGED <<messages, crashes>>
  BY DEF Commit, EndJob
<1>2. OpenReport = {o}
  BY <1>1, OneOpenReport
<1>3. \A t \in Scheduler : job'[t].phase # "dispatch"
  BY <1>1 DEF OneRunAtATime, TypeOK, Idle
<1>4. OpenReport' = {}
  BY <1>3 DEF OpenReport, Dispatching
<1>5. Filed' = Filed \cup {[day |-> o.day, rows |-> o.rows]}
  <2>1. new.day = o.day /\ new.rows = o.rows
    OBVIOUS
  <2> HIDE DEF new
  <2>2. Filed' = {[day |-> a.day, rows |-> a.rows] : a \in reports \cup {new}}
    BY <1>1 DEF Filed
  <2> QED BY <2>1, <2>2 DEF Filed
<1>6. Daily!File(o)
  BY <1>1, <1>4, <1>5 DEF Daily!File
<1> QED BY <1>2, <1>6 DEF Daily!Next

\* A lost run takes its open report with it, and no other run's.
LEMMA CrashLoses ==
  ASSUME IInv, NEW s \in Scheduler, Crash(s)
  PROVE  Daily!Next
<1> USE DailyReportAssumption DEF IInv
<1>1. /\ job' = [job EXCEPT ![s] = Idle] /\ crashes' = crashes + 1
      /\ UNCHANGED <<reports, messages>>
  BY DEF Crash, EndJob
<1>2. /\ job'[s].phase # "dispatch"
      /\ \A t \in Scheduler \ {s} : job'[t] = job[t]
  BY <1>1 DEF TypeOK, Idle
<1>3. OpenReport' \in {{}, OpenReport}
  <2>1. CASE job[s].phase = "dispatch"
    <3>1. \A t \in Scheduler : job'[t].phase # "dispatch"
      BY <1>2, <2>1 DEF OneRunAtATime
    <3>2. OpenReport' = {}
      BY <3>1 DEF OpenReport, Dispatching
    <3> QED BY <3>2
  <2>2. CASE job[s].phase # "dispatch"
    BY <1>2, <2>2, SameOpenReport
  <2> QED BY <2>1, <2>2
<1>4. UNCHANGED <<Filed, messages>>
  BY <1>1 DEF Filed
<1>5. Daily!Lose
  BY <1>1, <1>3, <1>4 DEF Daily!Lose
<1> QED BY <1>5 DEF Daily!Next

LEMMA LedgerStep == IInv /\ [Next]_vars => [Daily!Next]_Daily!ledger
<1> SUFFICES ASSUME IInv, [Next]_vars
             PROVE  Daily!Next \/ UNCHANGED Daily!ledger
  OBVIOUS
<1> USE DailyReportAssumption DEF IInv
<1>1. ASSUME UNCHANGED <<reports, messages, crashes>>, OpenReport' = OpenReport
      PROVE  UNCHANGED Daily!ledger
  BY <1>1 DEF Daily!ledger, Filed
<1>2. ASSUME NEW s \in Scheduler, UNCHANGED <<reports, messages, crashes>>,
             NEW j, job' = [job EXCEPT ![s] = j],
             job[s].phase # "dispatch", j.phase # "dispatch"
      PROVE  UNCHANGED Daily!ledger
  <2>1. job'[s] = j /\ \A t \in Scheduler \ {s} : job'[t] = job[t]
    BY <1>2 DEF TypeOK
  <2> QED BY <1>1, <1>2, <2>1, SameOpenReport
<1>3. ASSUME NEW s \in Scheduler, EndJob(s), job[s].phase # "dispatch",
             UNCHANGED <<reports, messages, crashes>>
      PROVE  UNCHANGED Daily!ledger
  <2>1. job' = [job EXCEPT ![s] = Idle] /\ Idle.phase # "dispatch"
    BY <1>3 DEF EndJob, Idle
  <2> QED BY <1>2, <1>3, <2>1
<1>4. ASSUME NEW s \in Scheduler, Poll(s)
      PROVE  Daily!Next \/ UNCHANGED Daily!ledger
  <2>0. job[s] \in Job
    BY DEF TypeOK
  <2>1. CASE Wake(s)
    <3> DEFINE j == [job[s] EXCEPT !.phase = "schedule", !.at = now,
                                   !.day = DhakaDay(now)]
    <3>1. job' = [job EXCEPT ![s] = j] /\ j.phase = "schedule"
      BY <2>0, <2>1 DEF Wake, TypeOK, Job
    <3> QED BY <1>2, <2>1, <3>1 DEF Wake
  <2>2. CASE CheckSchedule(s)
    <3> DEFINE j == [job[s] EXCEPT !.phase = "exists", !.at = 0]
    <3>1. CASE job' = [job EXCEPT ![s] = j]
      <4>1. j.phase = "exists"
        BY <2>0 DEF Job
      <4> QED BY <1>2, <2>2, <3>1, <4>1 DEF CheckSchedule
    <3> QED BY <1>3, <2>0, <2>2, <3>1 DEF CheckSchedule, TypeOK
  <2>3. CASE CheckExists(s)
    <3> DEFINE j == [job[s] EXCEPT !.phase = "lock"]
    <3>1. CASE job' = [job EXCEPT ![s] = j]
      <4>1. j.phase = "lock"
        BY <2>0 DEF Job
      <4> QED BY <1>2, <2>3, <3>1, <4>1 DEF CheckExists
    <3> QED BY <1>3, <2>0, <2>3, <3>1 DEF CheckExists, TypeOK
  <2>4. CASE TryLock(s)
    <3> DEFINE j == [job[s] EXCEPT !.phase = "resolve"]
    <3>1. CASE job' = [job EXCEPT ![s] = j]
      <4>1. j.phase = "resolve"
        BY <2>0 DEF Job
      <4> QED BY <1>2, <2>4, <3>1, <4>1 DEF TryLock
    <3> QED BY <1>3, <2>0, <2>4, <3>1 DEF TryLock, TypeOK
  <2>5. CASE Resolve(s)
    <3> DEFINE j == [job[s] EXCEPT !.phase = "insert", !.rows = eligible]
    <3>1. CASE job' = [job EXCEPT ![s] = j]
      <4>1. j.phase = "insert"
        BY <2>0 DEF Job
      <4> QED BY <1>2, <2>5, <3>1, <4>1 DEF Resolve
    <3> QED BY <1>3, <2>0, <2>5, <3>1 DEF Resolve, TypeOK
  <2>6. CASE BulkCreate(s)
    <3>1. CASE job'[s].phase = "dispatch"
      BY <2>6, <3>1, BulkCreateOpens
    <3>2. CASE job'[s].phase # "dispatch"
      <4>1. EndJob(s)
        BY <2>0, <2>6, <3>2 DEF BulkCreate, TypeOK, Job
      <4> QED BY <1>3, <2>6, <4>1 DEF BulkCreate
    <3> QED BY <3>1, <3>2
  <2>7. ASSUME NEW r \in Recipient, Dispatch(s, r) PROVE Daily!Next
    BY <2>7, DispatchSends
  <2>8. CASE Commit(s)
    BY <2>8, CommitFiles
  <2> QED BY <1>4, <2>1, <2>2, <2>3, <2>4, <2>5, <2>6, <2>7, <2>8 DEF Poll
<1>5. ASSUME NEW s \in Scheduler, Crash(s) PROVE Daily!Next
  BY <1>5, CrashLoses
<1>6. ASSUME UNCHANGED <<reports, job, messages, crashes>>
      PROVE  UNCHANGED Daily!ledger
  BY <1>1, <1>6 DEF OpenReport, Dispatching
<1>7. CASE Tick
  BY <1>6, <1>7 DEF Tick
<1>8. ASSUME NEW slot \in Slot, UpdateSchedule(slot) PROVE UNCHANGED Daily!ledger
  BY <1>6, <1>8 DEF UpdateSchedule
<1>9. CASE EditDirectory
  BY <1>6, <1>9 DEF EditDirectory
<1>10. CASE UNCHANGED vars
  BY <1>6, <1>10 DEF vars
<1> QED BY <1>4, <1>5, <1>7, <1>8, <1>9, <1>10 DEF Next

\* The overlapping polls implement the ledger: reports go out one at a time, each
\* recipient of one is dealt with once, and only a finished one is on file.
THEOREM LedgerRefinement == Spec => KeepsDailyLedger
BY InductiveInvariant, LedgerInit, LedgerStep, PTL DEF Spec, KeepsDailyLedger,
   Daily!Spec
=============================================================================
