---------------------------- MODULE AudienceProofs ----------------------------
(***************************************************************************)
(* Proofs about Audience, for any users, lists, templates, selections and  *)
(* handlers: types, that no list edit is lost, that a first send carries   *)
(* one template's content, and that a resolution reads one audience.       *)
(***************************************************************************)
EXTENDS Audience, TLAPS
-----------------------------------------------------------------------------
(* The inductive invariant *)

ListOps == {"createList", "updateList", "removeList"}
TemplateOps == {"createTemplate", "updateTemplate"}

\* Which statements a request of each kind runs, and on which row.
Flow(job) ==
  /\ job.op = "none" => job.phase = "idle"
  /\ job.op \in ListOps =>
       /\ job.phase \in {"name", "members", "write", "commit"} /\ job.id \in List
       /\ job.op # "removeList" => job.name \in Name
       /\ job.op = "createList" => lists[job.id] = NoList /\ job.version = 0
       /\ job.op # "createList" => lists[job.id] # NoList
  /\ job.op \in TemplateOps =>
       /\ job.phase \in {"name", "write", "commit"} /\ job.id \in Template
       /\ job.name \in Name /\ job.content \in Content
  /\ job.op = "compose" =>
       /\ job.phase \in {"teams", "teamMembers", "lists", "listMembers", "users", "consents",
                         "numbers", "send"}
       /\ job.id \in Notification /\ job.content \in Content
       /\ job.row \in Template /\ templates[job.row] # NoTemplate
       /\ job.phase = "listMembers" => job.pick.list \in List
       /\ job.phase = "send" => \A u \in job.to : job.mobiles[u] # None

\* What a request has written and not committed: a list at the version it read.
Pending(job) ==
  job.phase = "commit" =>
    /\ job.op \in ListOps =>
         /\ job.row = WrittenList(job) /\ job.row \in ListRow
         /\ job.op # "removeList" => job.version = lists[job.id].version
    /\ job.op \in TemplateOps =>
         job.row = [name |-> job.name, content |-> job.content]

\* Nobody else makes the list that a request is making, and two requests do not
\* have the same list written.
Apart(job, other) ==
  /\ job.op = "createList" => other.id # job.id
  /\ job.phase = "commit" /\ other.phase = "commit"
       /\ job.op \in ListOps /\ other.op \in ListOps => job.id # other.id

\* Whom a selection reaches by itself and through its team, and with its list.
Direct(pick) ==
  pick.users \cup {u \in User : people[u].team = pick.team /\ people[u].team \in live}
Reached(pick) ==
  Direct(pick) \cup
    {u \in User : \E l \in List : l = pick.list /\ lists[l].status = "active" /\ u \in members[l]}

\* The resolution so far agrees with the committed state, while nothing it reads
\* has been committed.
Resolves(job) ==
  job.op = "compose" /\ job.calm =>
    /\ job.phase = "teamMembers" => job.found = job.pick.users /\ job.pick.team \in live
    /\ job.phase \in {"lists", "listMembers"} => job.found = Direct(job.pick)
    /\ job.phase = "listMembers" => lists[job.pick.list].status = "active"
    /\ job.phase = "users" => job.found = Reached(job.pick)
    /\ job.phase = "consents" => job.found = {u \in Reached(job.pick) : people[u].active}
    /\ job.phase = "numbers" => job.to = AudienceOf(job.pick)
    /\ job.phase = "send" =>
         /\ \A u \in job.to : job.mobiles[u] = people[u].mobile
         /\ job.to \subseteq AudienceOf(job.pick)
         /\ \A u \in AudienceOf(job.pick) :
              \/ u \in job.to \cup job.failed
              \/ \E m \in sent : m.note = job.id /\ m.user = u

\* A delivery that failed has a template, which stays; a retry has read one.
RetriesKnown ==
  /\ \A k \in Notification : notes[k].failed # {} =>
       notes[k].template \in Template /\ templates[notes[k].template] # NoTemplate
  /\ retry.note # None => /\ retry.user \in User /\ retry.mobile \in Mobile
                          /\ retry.sid \in {c.sid : c \in Content}

IInv ==
  /\ TypeOK
  /\ \A h \in Handler : Flow(jobs[h]) /\ Pending(jobs[h]) /\ Resolves(jobs[h])
  /\ \A h, k \in Handler : h # k => Apart(jobs[h], jobs[k])
  /\ RetriesKnown
  /\ FirstSendsMatchTheirTemplate

-----------------------------------------------------------------------------
(* Rows and requests *)

LEMMA ListRows ==
  ASSUME NEW row \in ListRow
  PROVE  /\ row.version \in 0..MaxVersion /\ row.version \in Nat
         /\ row.status \in {"absent", "active", "inactive"}
         /\ row = NoList <=> row.status = "absent"
         /\ row = NoList <=> row.version = 0
         /\ row \in [status: {"absent", "active", "inactive"}, name: Name \cup {None},
                     version: Nat]
         /\ row # NoList => row.name \in Name
  BY AudienceAssumption DEF ListRow, NoList

LEMMA BlankList == NoList \in ListRow /\ NoList.version = 0 /\ NoList.status = "absent"
  BY DEF NoList, ListRow

LEMMA TemplateRows ==
  ASSUME NEW row \in TemplateRow
  PROVE  /\ row # NoTemplate => row.name \in Name /\ row.content \in Content
         /\ row = NoTemplate <=> row.name = None
  BY AudienceAssumption DEF TemplateRow, NoTemplate

LEMMA Contents ==
  ASSUME NEW c \in Content
  PROVE  /\ c.sid \in {d.sid : d \in Content} /\ c.slots \in Seq(Slot)
         /\ [sid |-> c.sid, slots |-> c.slots] \in Content
  BY AudienceAssumption

LEMMA JobFields ==
  ASSUME NEW job \in Job
  PROVE  /\ job.op \in {"none", "createList", "updateList", "removeList", "createTemplate",
                        "updateTemplate", "compose"}
         /\ job.phase \in {"idle", "name", "members", "write", "commit", "teams", "teamMembers",
                           "lists", "listMembers", "users", "consents", "numbers", "send"}
         /\ job.id \in List \cup Template \cup Notification \cup {None}
         /\ job.name \in Name \cup {None} /\ job.members \in SUBSET User
         /\ job.version \in 0..MaxVersion
         /\ job.row \in ListRow \cup TemplateRow \cup Template \cup {None}
         /\ job.content \in Content \cup {None} /\ job.pick \in Pick \cup {NoPick}
         /\ job.found \in SUBSET User /\ job.mobiles \in [User -> Mobile \cup {None}]
         /\ job.to \in SUBSET User /\ job.failed \in SUBSET User /\ job.calm \in BOOLEAN
  BY DEF Job

LEMMA BlankJob ==
  /\ NoJob \in Job /\ NoJob.op = "none" /\ NoJob.phase = "idle" /\ NoJob.id = None
  /\ NoJob.version = 0 /\ NoJob.calm = TRUE
  <1>1. 0 \in 0..MaxVersion
    BY AudienceAssumption
  <1> DEFINE nobody == [u \in User |-> None]
  <1>2. nobody \in [User -> Mobile \cup {None}]
    OBVIOUS
  <1>3. NoJob = [op |-> "none", phase |-> "idle", id |-> None, name |-> None,
          members |-> {}, version |-> 0, row |-> None, content |-> None,
          pick |-> NoPick, found |-> {}, mobiles |-> nobody,
          to |-> {}, failed |-> {}, calm |-> TRUE]
    BY DEF NoJob
  <1> HIDE DEF nobody
  <1> QED
    BY <1>1, <1>2, <1>3 DEF Job

LEMMA BlankFits == Flow(NoJob) /\ Pending(NoJob) /\ Resolves(NoJob)
  BY BlankJob DEF Flow, Pending, Resolves, ListOps, TemplateOps

LEMMA Typed ==
  ASSUME TypeOK
  PROVE  /\ \A h \in Handler : jobs[h] \in Job
         /\ \A l \in List : lists[l] \in ListRow /\ members[l] \in SUBSET User
         /\ \A m \in Template : templates[m] \in TemplateRow
         /\ \A k \in Notification : notes[k] \in NoteRow
         /\ \A u \in User : /\ people[u] \in Person /\ people[u].mobile \in Mobile
                            /\ people[u].mobile # None
  BY AudienceAssumption DEF TypeOK, Person

LEMMA Apartness ==
  ASSUME IInv, NEW h \in Handler, NEW k \in Handler, h # k
  PROVE  /\ Flow(jobs[k]) /\ Flow(jobs[h]) /\ jobs[k] \in Job /\ jobs[h] \in Job
         /\ Apart(jobs[h], jobs[k]) /\ Apart(jobs[k], jobs[h])
  BY Typed DEF IInv

LEMMA InitInv == Init => IInv
  <1> SUFFICES ASSUME Init PROVE IInv
    OBVIOUS
  <1> USE AudienceAssumption
  <1>1. TypeOK
    <2>1. people \in [User -> Person]
      BY DEF Init, Person
    <2>2. lists \in [List -> ListRow] /\ members \in [List -> SUBSET User]
      BY BlankList DEF Init
    <2>3. templates \in [Template -> TemplateRow] /\ notes \in [Notification -> NoteRow]
      BY DEF Init, TemplateRow, NoTemplate, NoNote, NoteRow
    <2>4. jobs \in [Handler -> Job] /\ live \in SUBSET Team /\ sent \in SUBSET Message
      BY BlankJob DEF Init
    <2>5. retry \in [note: Notification \cup {None},
                    user: User \cup {None}, sid: {c.sid : c \in Content} \cup {None},
                    mobile: Mobile \cup {None}]
      BY DEF Init, NoRetry
    <2>6. /\ agreed \in [User -> SUBSET Mobile] /\ had \in [User -> SUBSET Mobile]
          /\ checked \in [User -> SUBSET Team] /\ changes \in 0..MaxChanges
      BY DEF Init
    <2> QED
      BY <2>1, <2>2, <2>3, <2>4, <2>5, <2>6 DEF TypeOK
  <1>3. \A h \in Handler : jobs[h] = NoJob
    BY DEF Init
  <1>4. \A h, k \in Handler : h # k => Apart(jobs[h], jobs[k])
    BY <1>3, BlankJob DEF Apart
  <1>5. RetriesKnown /\ FirstSendsMatchTheirTemplate
    BY DEF Init, RetriesKnown, NoNote, NoRetry, FirstSendsMatchTheirTemplate
  <1> QED
    BY <1>1, <1>3, <1>4, <1>5, BlankFits DEF IInv

-----------------------------------------------------------------------------
(* Steps of one request that commit nothing *)

\* What a request has resolved stays so when messages are added.
LEMMA ResolvesOn ==
  ASSUME NEW job, Resolves(job), UNCHANGED <<people, live, lists, members>>, sent \subseteq sent'
  PROVE  Resolves(job)'
  <1>1. \A u \in User : u \in AudienceOf(job.pick) <=> (u \in AudienceOf(job.pick))'
    BY DEF AudienceOf
  <1>2. Direct(job.pick)' = Direct(job.pick) /\ Reached(job.pick)' = Reached(job.pick)
    BY DEF Direct, Reached
  <1>3. AudienceOf(job.pick)' = AudienceOf(job.pick)
    BY DEF AudienceOf
  <1> QED
    BY <1>2, <1>3 DEF Resolves

LEMMA JobStep ==
  ASSUME IInv, NEW h \in Handler, NEW job \in Job, jobs' = [jobs EXCEPT ![h] = job],
         UNCHANGED <<directory, groups, templates, notes, retry>>,
         sent \subseteq sent', sent' \in SUBSET Message, FirstSendsMatchTheirTemplate',
         Flow(job), Pending(job), Resolves(job)',
         \A k \in Handler \ {h} : Apart(job, jobs[k]) /\ Apart(jobs[k], job)
  PROVE  IInv'
  <1>1. jobs'[h] = job /\ \A k \in Handler \ {h} : jobs'[k] = jobs[k]
    BY DEF IInv, TypeOK
  <1>2. UNCHANGED <<people, live, agreed, had, checked, changes, lists, members, templates, notes, retry>>
    BY DEF directory, groups
  <1>3. TypeOK'
    BY <1>2 DEF IInv, TypeOK
  <1>4. RetriesKnown'
    BY <1>2 DEF IInv, RetriesKnown
  <1>5. ASSUME NEW k \in Handler, NEW j, jobs'[k] = j, Flow(j), Pending(j), Resolves(j)'
        PROVE  (Flow(jobs[k]) /\ Pending(jobs[k]) /\ Resolves(jobs[k]))'
    <2>1. Flow(jobs[k])'
      BY <1>2, <1>5 DEF Flow
    <2>2. Pending(jobs[k])'
      BY <1>2, <1>5 DEF Pending, WrittenList
    <2>3. Resolves(jobs[k])'
      BY <1>5 DEF Resolves, Direct, Reached, AudienceOf
    <2> QED
      BY <2>1, <2>2, <2>3
  <1>6. ASSUME NEW k \in Handler
        PROVE  (Flow(jobs[k]) /\ Pending(jobs[k]) /\ Resolves(jobs[k]))'
    <2>1. CASE k = h
      BY <1>1, <1>5, <2>1
    <2>2. CASE k # h
      <3>1. ASSUME NEW j, j = jobs[k] PROVE jobs'[k] = j /\ Flow(j) /\ Pending(j) /\ Resolves(j)'
        BY <1>1, <1>2, <2>2, <3>1, ResolvesOn DEF IInv
      <3> QED
        BY <1>5, <3>1
    <2> QED
      BY <2>1, <2>2
  <1>7. ASSUME NEW k \in Handler, NEW l \in Handler, k # l PROVE Apart(jobs[k], jobs[l])'
    BY <1>1, <1>7, Apartness DEF Apart
  <1> QED
    BY <1>3, <1>4, <1>6, <1>7 DEF IInv

-----------------------------------------------------------------------------
(* Requests as their forms make them *)

LEMMA CreateListForm ==
  ASSUME NEW h \in Handler, NEW l \in List, NEW n \in Name, NEW users \in SUBSET User,
         CreateList(h, l, n, users)
  PROVE  \E job \in Job :
           /\ Begin(h, job) /\ lists[l] = NoList /\ Fresh(l) /\ job.op = "createList"
           /\ job.phase = "name" /\ job.id = l /\ job.name = n /\ job.version = 0
  <1>1. ASSUME NEW job, Begin(h, job),
               job = [NoJob EXCEPT !.op = "createList", !.phase = "name", !.id = l,
                                   !.name = n, !.members = users]
        PROVE  job \in Job /\ job.op = "createList" /\ job.phase = "name" /\ job.id = l
               /\ job.name = n /\ job.version = 0
    <2>1. NoJob \in Job /\ NoJob.version = 0
      BY BlankJob
    <2>2. job \in Job
      BY <1>1, <2>1 DEF Job
    <2>3. /\ job.op = "createList" /\ job.phase = "name" /\ job.id = l /\ job.name = n
          /\ job.version = 0
      BY <1>1, <2>1 DEF Job
    <2> QED
      BY <2>2, <2>3
  <1> DEFINE job == [NoJob EXCEPT !.op = "createList", !.phase = "name", !.id = l,
                                  !.name = n, !.members = users]
  <1>2. Begin(h, job) /\ lists[l] = NoList /\ Fresh(l)
    BY DEF CreateList
  <1>3. job \in Job /\ job.op = "createList" /\ job.phase = "name" /\ job.id = l
        /\ job.name = n /\ job.version = 0
    BY <1>1, <1>2
  <1> HIDE DEF job
  <1> QED
    BY <1>2, <1>3

LEMMA UpdateListForm ==
  ASSUME NEW h \in Handler, NEW l \in List, NEW n \in Name, NEW users \in SUBSET User,
         UpdateList(h, l, n, users), lists[l].version \in 0..MaxVersion
  PROVE  \E job \in Job :
           /\ Begin(h, job) /\ lists[l] # NoList /\ job.op = "updateList"
           /\ job.phase = "name" /\ job.id = l /\ job.name = n
  <1>1. ASSUME NEW job, Begin(h, job),
               job = [NoJob EXCEPT !.op = "updateList", !.phase = "name", !.id = l,
                        !.name = n, !.members = users, !.version = lists[l].version]
        PROVE  job \in Job /\ job.op = "updateList" /\ job.phase = "name" /\ job.id = l
               /\ job.name = n
    <2>1. NoJob \in Job
      BY BlankJob
    <2>2. job \in Job
      BY <1>1, <2>1 DEF Job
    <2>3. job.op = "updateList" /\ job.phase = "name" /\ job.id = l /\ job.name = n
      BY <1>1, <2>1 DEF Job
    <2> QED
      BY <2>2, <2>3
  <1> DEFINE job == [NoJob EXCEPT !.op = "updateList", !.phase = "name", !.id = l,
                       !.name = n, !.members = users, !.version = lists[l].version]
  <1>2. Begin(h, job) /\ lists[l] # NoList
    BY DEF UpdateList
  <1>3. job \in Job /\ job.op = "updateList" /\ job.phase = "name" /\ job.id = l
        /\ job.name = n
    BY <1>1, <1>2
  <1> HIDE DEF job
  <1> QED
    BY <1>2, <1>3

LEMMA RemoveForm ==
  ASSUME NEW h \in Handler, NEW l \in List, RemoveList(h, l)
  PROVE  \E job \in Job : /\ Begin(h, job) /\ lists[l] # NoList
                          /\ job.op = "removeList" /\ job.phase = "write" /\ job.id = l
  <1>1. ASSUME NEW job, Begin(h, job),
               job = [NoJob EXCEPT !.op = "removeList", !.phase = "write", !.id = l]
        PROVE  job \in Job /\ job.op = "removeList" /\ job.phase = "write" /\ job.id = l
    <2>1. NoJob \in Job
      BY BlankJob
    <2>2. job \in Job
      BY <1>1, <2>1 DEF Job
    <2>3. job.op = "removeList" /\ job.phase = "write" /\ job.id = l
      BY <1>1, <2>1 DEF Job
    <2> QED
      BY <2>2, <2>3
  <1> DEFINE job == [NoJob EXCEPT !.op = "removeList", !.phase = "write", !.id = l]
  <1>2. Begin(h, job) /\ lists[l] # NoList
    BY DEF RemoveList
  <1>3. job \in Job /\ job.op = "removeList" /\ job.phase = "write" /\ job.id = l
    BY <1>1, <1>2
  <1> HIDE DEF job
  <1> QED
    BY <1>2, <1>3

LEMMA TemplateForm ==
  ASSUME NEW h \in Handler, NEW m \in Template, NEW n \in Name, NEW c \in Content,
         CreateTemplate(h, m, n, c) \/ UpdateTemplate(h, m, n, c)
  PROVE  \E job \in Job :
           /\ Begin(h, job) /\ job.op \in TemplateOps /\ job.phase = "name" /\ job.id = m
           /\ job.name = n /\ job.content = c
  <1>1. ASSUME NEW op \in TemplateOps, NEW job, Begin(h, job),
               job = [NoJob EXCEPT !.op = op, !.phase = "name", !.id = m, !.name = n,
                                   !.content = c]
        PROVE  /\ job \in Job /\ Begin(h, job) /\ job.op \in TemplateOps /\ job.phase = "name"
               /\ job.id = m /\ job.name = n /\ job.content = c
    <2>1. NoJob \in Job
      BY BlankJob
    <2>2. job \in Job
      BY <1>1, <2>1 DEF Job, TemplateOps
    <2>3. job.op \in TemplateOps /\ job.phase = "name" /\ job.id = m /\ job.name = n
          /\ job.content = c
      BY <1>1, <2>1 DEF Job
    <2> QED
      BY <1>1, <2>2, <2>3
  <1>2. CASE CreateTemplate(h, m, n, c)
    <2> DEFINE job == [NoJob EXCEPT !.op = "createTemplate", !.phase = "name", !.id = m,
                                    !.name = n, !.content = c]
    <2>1. Begin(h, job) /\ "createTemplate" \in TemplateOps
      BY <1>2 DEF CreateTemplate, TemplateOps
    <2>2. /\ job \in Job /\ Begin(h, job) /\ job.op \in TemplateOps /\ job.phase = "name"
          /\ job.id = m /\ job.name = n /\ job.content = c
      BY <1>1, <2>1
    <2> HIDE DEF job
    <2> QED
      BY <2>2
  <1>3. CASE UpdateTemplate(h, m, n, c)
    <2> DEFINE job == [NoJob EXCEPT !.op = "updateTemplate", !.phase = "name", !.id = m,
                                    !.name = n, !.content = c]
    <2>1. Begin(h, job) /\ "updateTemplate" \in TemplateOps
      BY <1>3 DEF UpdateTemplate, TemplateOps
    <2>2. /\ job \in Job /\ Begin(h, job) /\ job.op \in TemplateOps /\ job.phase = "name"
          /\ job.id = m /\ job.name = n /\ job.content = c
      BY <1>1, <2>1
    <2> HIDE DEF job
    <2> QED
      BY <2>2
  <1> QED
    BY <1>2, <1>3

LEMMA ComposeForm ==
  ASSUME NEW h \in Handler, NEW k \in Notification, NEW m \in Template, NEW pick \in Pick,
         Compose(h, k, m, pick), templates[m].content \in Content
  PROVE  \E job \in Job :
           /\ Begin(h, job) /\ templates[m] # NoTemplate /\ job.op = "compose"
           /\ job.phase = "teams" /\ job.id = k /\ job.row = m
           /\ job.content = templates[m].content
  <1>1. ASSUME NEW job, Begin(h, job),
               job = [NoJob EXCEPT !.op = "compose", !.phase = "teams", !.id = k, !.row = m,
                        !.content = templates[m].content, !.pick = pick]
        PROVE  /\ job \in Job /\ job.op = "compose" /\ job.phase = "teams" /\ job.id = k
               /\ job.row = m /\ job.content = templates[m].content
    <2>1. NoJob \in Job
      BY BlankJob
    <2>2. job \in Job
      BY <1>1, <2>1 DEF Job
    <2>3. /\ job.op = "compose" /\ job.phase = "teams" /\ job.id = k
          /\ job.row = m /\ job.content = templates[m].content
      BY <1>1, <2>1 DEF Job
    <2> QED
      BY <2>2, <2>3
  <1> DEFINE job == [NoJob EXCEPT !.op = "compose", !.phase = "teams", !.id = k, !.row = m,
                       !.content = templates[m].content, !.pick = pick]
  <1>2. Begin(h, job) /\ templates[m] # NoTemplate
    BY DEF Compose
  <1>3. /\ job \in Job /\ job.op = "compose" /\ job.phase = "teams" /\ job.id = k
        /\ job.row = m /\ job.content = templates[m].content
    BY <1>1, <1>2
  <1> HIDE DEF job
  <1> QED
    BY <1>2, <1>3

\* A request that goes on to its next statement.
LEMMA GoOn ==
  ASSUME IInv, NEW h \in Handler, NEW job \in Job, Go(h, job),
         job.op = jobs[h].op, job.id = jobs[h].id, job.phase # "commit",
         Flow(job), Resolves(job)
  PROVE  IInv'
  <1>1. /\ jobs' = [jobs EXCEPT ![h] = job] /\ sent' = sent
        /\ UNCHANGED <<directory, groups, templates, notes, retry>>
    BY DEF Go
  <1>2. sent' \in SUBSET Message /\ FirstSendsMatchTheirTemplate'
    BY <1>1 DEF IInv, TypeOK, FirstSendsMatchTheirTemplate
  <1>3. Pending(job)
    BY DEF Pending
  <1>4. Resolves(job)'
    BY <1>1, ResolvesOn DEF directory, groups
  <1>5. \A k \in Handler \ {h} : Apart(job, jobs[k]) /\ Apart(jobs[k], job)
    <2> SUFFICES ASSUME NEW k \in Handler \ {h} PROVE Apart(job, jobs[k]) /\ Apart(jobs[k], job)
      OBVIOUS
    <2>1. Apart(jobs[h], jobs[k]) /\ Apart(jobs[k], jobs[h])
      BY Apartness
    <2> QED
      BY <2>1 DEF Apart
  <1> QED
    BY <1>1, <1>2, <1>3, <1>4, <1>5, JobStep

LEMMA EndInv ==
  ASSUME IInv, NEW h \in Handler, End(h)
  PROVE  IInv'
  <1>1. /\ jobs' = [jobs EXCEPT ![h] = NoJob] /\ sent' = sent
        /\ UNCHANGED <<directory, groups, templates, notes, retry>>
    BY DEF End, Go
  <1>2. sent' \in SUBSET Message /\ FirstSendsMatchTheirTemplate'
    BY <1>1 DEF IInv, TypeOK, FirstSendsMatchTheirTemplate
  <1>3. Resolves(NoJob)'
    BY BlankJob DEF Resolves
  <1>4. \A k \in Handler \ {h} : Apart(NoJob, jobs[k]) /\ Apart(jobs[k], NoJob)
    <2> SUFFICES ASSUME NEW k \in Handler \ {h}
                 PROVE  Apart(NoJob, jobs[k]) /\ Apart(jobs[k], NoJob)
      OBVIOUS
    <2>1. jobs[k].op = "createList" => jobs[k].id \in List
      BY Apartness DEF Flow, ListOps
    <2> QED
      BY <2>1, BlankJob, AudienceAssumption DEF Apart
  <1> QED
    BY <1>1, <1>2, <1>3, <1>4, BlankJob, BlankFits, JobStep

LEMMA BeginInv ==
  ASSUME IInv, NEW h \in Handler, NEW job \in Job, Begin(h, job),
         job.phase \in {"name", "write", "teams"}, Flow(job),
         job.op = "createList" => Fresh(job.id),
         job.op \notin ListOps => job.id \notin List
  PROVE  IInv'
  <1>1. /\ jobs' = [jobs EXCEPT ![h] = job] /\ sent' = sent
        /\ UNCHANGED <<directory, groups, templates, notes, retry>>
    BY DEF Begin
  <1>2. sent' \in SUBSET Message /\ FirstSendsMatchTheirTemplate'
    BY <1>1 DEF IInv, TypeOK, FirstSendsMatchTheirTemplate
  <1>3. Pending(job)
    BY DEF Pending
  <1>4. Resolves(job)'
    BY DEF Resolves
  <1>5. \A k \in Handler \ {h} : Apart(job, jobs[k]) /\ Apart(jobs[k], job)
    <2> SUFFICES ASSUME NEW k \in Handler \ {h} PROVE Apart(job, jobs[k]) /\ Apart(jobs[k], job)
      OBVIOUS
    <2>1. jobs[k].op = "createList" => jobs[k].id \in List /\ lists[jobs[k].id] = NoList
      BY Apartness DEF Flow, ListOps
    <2>2. job.op \in ListOps /\ job.op # "createList" => lists[job.id] # NoList
      BY DEF Flow
    <2>3. Fresh(job.id) => jobs[k].id # job.id
      BY DEF Fresh
    <2> QED
      BY <2>1, <2>2, <2>3 DEF Apart
  <1> QED
    BY <1>1, <1>2, <1>3, <1>4, <1>5, JobStep

-----------------------------------------------------------------------------
(* List and template requests, up to their commits *)

LEMMA BeginListInv ==
  ASSUME IInv, NEW h \in Handler, NEW l \in List, NEW n \in Name, NEW users \in Roster,
         CreateList(h, l, n, users) \/ UpdateList(h, l, n, users)
  PROVE  IInv'
  <1>1. users \in SUBSET User /\ lists[l].version \in 0..MaxVersion
    BY AudienceAssumption, Typed, ListRows DEF IInv
  <1>2. CASE CreateList(h, l, n, users)
    <2>1. PICK job \in Job :
            /\ Begin(h, job) /\ lists[l] = NoList /\ Fresh(l) /\ job.op = "createList"
            /\ job.phase = "name" /\ job.id = l /\ job.name = n /\ job.version = 0
      BY <1>1, <1>2, CreateListForm
    <2>2. Flow(job)
      BY <2>1 DEF Flow, ListOps, TemplateOps
    <2> QED
      BY <2>1, <2>2, BeginInv DEF ListOps
  <1>3. CASE UpdateList(h, l, n, users)
    <2>1. PICK job \in Job :
            /\ Begin(h, job) /\ lists[l] # NoList /\ job.op = "updateList"
            /\ job.phase = "name" /\ job.id = l /\ job.name = n
      BY <1>1, <1>3, UpdateListForm
    <2>2. Flow(job)
      BY <2>1 DEF Flow, ListOps, TemplateOps
    <2> QED
      BY <2>1, <2>2, BeginInv DEF ListOps
  <1> QED
    BY <1>2, <1>3

LEMMA RemoveListInv ==
  ASSUME IInv, NEW h \in Handler, NEW l \in List, RemoveList(h, l)
  PROVE  IInv'
  <1>1. PICK job \in Job : /\ Begin(h, job) /\ lists[l] # NoList
                           /\ job.op = "removeList" /\ job.phase = "write" /\ job.id = l
    BY RemoveForm
  <1>2. Flow(job)
    BY <1>1 DEF Flow, ListOps, TemplateOps
  <1> QED
    BY <1>1, <1>2, BeginInv DEF ListOps

LEMMA BeginTemplateInv ==
  ASSUME IInv, NEW h \in Handler, NEW m \in Template, NEW n \in Name, NEW c \in Content,
         CreateTemplate(h, m, n, c) \/ UpdateTemplate(h, m, n, c)
  PROVE  IInv'
  <1>1. PICK job \in Job :
          /\ Begin(h, job) /\ job.op \in TemplateOps /\ job.phase = "name" /\ job.id = m
          /\ job.name = n /\ job.content = c
    BY TemplateForm
  <1>2. Flow(job) /\ job.op # "createList"
    BY <1>1 DEF Flow, ListOps, TemplateOps
  <1>3. m \notin List
    BY AudienceAssumption
  <1> QED
    BY <1>1, <1>2, <1>3, BeginInv

LEMMA ComposeInv ==
  ASSUME IInv, NEW h \in Handler, NEW k \in Notification, NEW m \in Template,
         NEW pick \in Pick, Compose(h, k, m, pick)
  PROVE  IInv'
  <1>1. templates[m] # NoTemplate
    BY DEF Compose
  <1>2. templates[m].content \in Content
    BY <1>1, Typed, TemplateRows DEF IInv
  <1>3. PICK job \in Job :
          /\ Begin(h, job) /\ templates[m] # NoTemplate /\ job.op = "compose"
          /\ job.phase = "teams" /\ job.id = k /\ job.row = m
          /\ job.content = templates[m].content
    BY <1>2, ComposeForm
  <1>4. Flow(job)
    BY <1>2, <1>3 DEF Flow, ListOps, TemplateOps
  <1>5. k \notin List
    BY AudienceAssumption
  <1> QED
    BY <1>3, <1>4, <1>5, BeginInv

\* The same request at another statement.
LEMMA Moved ==
  ASSUME NEW j \in Job, NEW job,
         NEW p \in {"idle", "name", "members", "write", "commit", "teams", "teamMembers",
                    "lists", "listMembers", "users", "consents", "numbers", "send"},
         job = [j EXCEPT !.phase = p]
  PROVE  /\ job \in Job /\ job.phase = p /\ job.op = j.op /\ job.id = j.id
         /\ job.name = j.name /\ job.version = j.version /\ job.row = j.row
         /\ job.content = j.content /\ job.pick = j.pick /\ job.found = j.found
         /\ job.mobiles = j.mobiles /\ job.to = j.to /\ job.failed = j.failed
         /\ job.calm = j.calm
  BY DEF Job

LEMMA CheckListNameInv ==
  ASSUME IInv, NEW h \in Handler, CheckListName(h)
  PROVE  IInv'
  <1>1. CASE End(h)
    BY <1>1, EndInv
  <1>2. CASE ~End(h)
    <2> DEFINE job == [jobs[h] EXCEPT !.phase = "members"]
    <2>1. Go(h, job) /\ jobs[h].op \in {"createList", "updateList"}
      BY <1>2 DEF CheckListName
    <2>2. jobs[h] \in Job /\ Flow(jobs[h])
      BY Typed DEF IInv
    <2> HIDE DEF job
    <2>3. /\ job \in Job /\ job.phase = "members" /\ job.op = jobs[h].op
          /\ job.id = jobs[h].id /\ job.name = jobs[h].name /\ job.version = jobs[h].version
      BY <2>2, Moved DEF job
    <2>4. Flow(job) /\ Resolves(job)
      BY <2>1, <2>2, <2>3 DEF Flow, Resolves, ListOps, TemplateOps
    <2> QED
      BY <2>1, <2>3, <2>4, GoOn
  <1> QED
    BY <1>1, <1>2

LEMMA CheckMembersInv ==
  ASSUME IInv, NEW h \in Handler, CheckMembers(h)
  PROVE  IInv'
  <1>1. CASE End(h)
    BY <1>1, EndInv
  <1>2. CASE ~End(h)
    <2> DEFINE job == [jobs[h] EXCEPT !.phase = "write"]
    <2>1. Go(h, job) /\ jobs[h].phase = "members"
      BY <1>2 DEF CheckMembers
    <2>2. jobs[h] \in Job /\ Flow(jobs[h])
      BY Typed DEF IInv
    <2> HIDE DEF job
    <2>3. /\ job \in Job /\ job.phase = "write" /\ job.op = jobs[h].op
          /\ job.id = jobs[h].id /\ job.name = jobs[h].name /\ job.version = jobs[h].version
      BY <2>2, Moved DEF job
    <2>5. jobs[h].op \in ListOps
      BY <2>1, <2>2, JobFields DEF Flow, ListOps, TemplateOps
    <2>4. Flow(job) /\ Resolves(job)
      BY <2>2, <2>3, <2>5 DEF Flow, Resolves, ListOps, TemplateOps
    <2> QED
      BY <2>1, <2>3, <2>4, GoOn
  <1> QED
    BY <1>1, <1>2

LEMMA CheckTemplateNameInv ==
  ASSUME IInv, NEW h \in Handler, CheckTemplateName(h)
  PROVE  IInv'
  <1>1. CASE End(h)
    BY <1>1, EndInv
  <1>2. CASE ~End(h)
    <2> DEFINE job == [jobs[h] EXCEPT !.phase = "write"]
    <2>1. Go(h, job) /\ jobs[h].op \in TemplateOps
      BY <1>2 DEF CheckTemplateName, TemplateOps
    <2>2. jobs[h] \in Job /\ Flow(jobs[h])
      BY Typed DEF IInv
    <2> HIDE DEF job
    <2>3. /\ job \in Job /\ job.phase = "write" /\ job.op = jobs[h].op
          /\ job.id = jobs[h].id /\ job.name = jobs[h].name /\ job.content = jobs[h].content
      BY <2>2, Moved DEF job
    <2>4. Flow(job) /\ Resolves(job)
      BY <2>1, <2>2, <2>3 DEF Flow, Resolves, ListOps, TemplateOps
    <2> QED
      BY <2>1, <2>3, <2>4, GoOn
  <1> QED
    BY <1>1, <1>2

-----------------------------------------------------------------------------
(* Writes of list and template requests *)

\* A request at its write, by the row it writes.
LEMMA Writers ==
  ASSUME IInv, NEW h \in Handler, jobs[h].phase = "write" \/ jobs[h].phase = "commit"
  PROVE  /\ jobs[h].op \in ListOps \/ jobs[h].op \in TemplateOps
         /\ jobs[h].id \in List => jobs[h].op \in ListOps
         /\ jobs[h].id \in Template => jobs[h].op \in TemplateOps
         /\ jobs[h].op \notin {"none", "compose"}
  <1>1. jobs[h] \in Job /\ Flow(jobs[h])
    BY Typed DEF IInv
  <1>2. jobs[h].op \in ListOps \/ jobs[h].op \in TemplateOps
    BY <1>1, JobFields DEF Flow, ListOps, TemplateOps
  <1>3. jobs[h].op \in ListOps => jobs[h].id \in List
    BY <1>1 DEF Flow
  <1>4. jobs[h].op \in TemplateOps => jobs[h].id \in Template
    BY <1>1 DEF Flow
  <1>5. List \cap Template = {}
    BY AudienceAssumption
  <1> QED
    BY <1>2, <1>3, <1>4, <1>5 DEF ListOps, TemplateOps

LEMMA WrittenRows ==
  ASSUME IInv, NEW job \in Job, Flow(job), job.op \in ListOps,
         WrittenList(job).version <= MaxVersion
  PROVE  WrittenList(job) \in ListRow
  <1> DEFINE row == lists[job.id]
  <1>1. row \in ListRow /\ (job.op # "createList" => row # NoList)
    BY Typed DEF IInv, Flow
  <1>2. job.op # "removeList" => job.name \in Name
    BY DEF Flow
  <1>3. 1 \in 1..MaxVersion
    BY AudienceAssumption
  <1>4. CASE job.op = "createList"
    BY <1>2, <1>3, <1>4 DEF WrittenList, ListRow
  <1>5. CASE job.op \in {"updateList", "removeList"}
    <2>1. row \in [status: {"active", "inactive"}, name: Name, version: 1..MaxVersion]
      BY <1>1, <1>5 DEF ListRow
    <2> HIDE DEF row
    <2>2. CASE job.op = "updateList"
      <3>1. WrittenList(job) = [row EXCEPT !.name = job.name, !.version = @ + 1]
        BY <2>2 DEF WrittenList, row
      <3>2. row.version + 1 \in 1..MaxVersion
        BY <2>1, <3>1, AudienceAssumption
      <3> QED
        BY <1>2, <2>1, <2>2, <3>1, <3>2 DEF ListRow
    <2>3. CASE job.op = "removeList"
      <3>1. WrittenList(job) = [row EXCEPT !.status = "inactive", !.version = @ + 1]
        BY <2>3 DEF WrittenList, row
      <3>2. row.version + 1 \in 1..MaxVersion
        BY <2>1, <3>1, AudienceAssumption
      <3> QED
        BY <2>1, <3>1, <3>2 DEF ListRow
    <2> QED
      BY <1>5, <2>2, <2>3
  <1> QED
    BY <1>4, <1>5 DEF ListOps

\* A write that leaves its request with the row to commit.
LEMMA Wrote ==
  ASSUME IInv, NEW h \in Handler, NEW job \in Job, Go(h, job), jobs[h].phase = "write",
         job.phase = "commit", job.op = jobs[h].op, job.id = jobs[h].id,
         Flow(job), Pending(job),
         job.op \in ListOps => \A k \in Handler \ {h} : ~Writing(k, job.id)
  PROVE  IInv'
  <1>1. /\ jobs' = [jobs EXCEPT ![h] = job] /\ sent' = sent
        /\ UNCHANGED <<directory, groups, templates, notes, retry>>
    BY DEF Go
  <1>2. sent' \in SUBSET Message /\ FirstSendsMatchTheirTemplate'
    BY <1>1 DEF IInv, TypeOK, FirstSendsMatchTheirTemplate
  <1>3. job.op # "compose"
    BY Writers
  <1>4. Resolves(job)'
    BY <1>3 DEF Resolves
  <1>5. \A k \in Handler \ {h} : Apart(job, jobs[k]) /\ Apart(jobs[k], job)
    <2> SUFFICES ASSUME NEW k \in Handler \ {h} PROVE Apart(job, jobs[k]) /\ Apart(jobs[k], job)
      OBVIOUS
    <2>1. Apart(jobs[h], jobs[k]) /\ Apart(jobs[k], jobs[h])
      BY Apartness
    <2>2. job.op \in ListOps => ~(jobs[k].phase = "commit" /\ jobs[k].id = job.id)
      BY DEF Writing
    <2> QED
      BY <2>1, <2>2 DEF Apart
  <1> QED
    BY <1>1, <1>2, <1>4, <1>5, JobStep

LEMMA WriteListInv ==
  ASSUME IInv, NEW h \in Handler, WriteList(h)
  PROVE  IInv'
  <1>1. CASE End(h)
    BY <1>1, EndInv
  <1>2. CASE ~End(h)
    <2> DEFINE row == WrittenList(jobs[h])
    <2>1. /\ jobs[h].phase = "write" /\ jobs[h].id \in List /\ ~Stale(h)
          /\ row.version <= MaxVersion /\ Go(h, [jobs[h] EXCEPT !.phase = "commit", !.row = row])
          /\ \A k \in Handler \ {h} : ~Writing(k, jobs[h].id)
      BY <1>2 DEF WriteList
    <2>2. jobs[h] \in Job /\ Flow(jobs[h]) /\ jobs[h].op \in ListOps
      BY <2>1, Typed, Writers DEF IInv
    <2>3. row \in ListRow
      BY <2>1, <2>2, WrittenRows
    <2> HIDE DEF row
    <2>4. ASSUME NEW job, job = [jobs[h] EXCEPT !.phase = "commit", !.row = row], Go(h, job)
          PROVE  IInv'
      <3>1. /\ job \in Job /\ job.phase = "commit" /\ job.op = jobs[h].op /\ job.id = jobs[h].id
            /\ job.name = jobs[h].name /\ job.version = jobs[h].version /\ job.row = row
        <4>1. job \in Job
          BY <2>2, <2>3, <2>4 DEF Job
        <4>2. /\ job.phase = "commit" /\ job.op = jobs[h].op /\ job.id = jobs[h].id
              /\ job.name = jobs[h].name /\ job.version = jobs[h].version /\ job.row = row
          BY <2>2, <2>3, <2>4 DEF Job
        <4> QED
          BY <4>1, <4>2
      <3>2. Flow(job)
        BY <2>2, <3>1 DEF Flow, ListOps, TemplateOps
      <3>3. job.row = WrittenList(job)
        BY <3>1 DEF WrittenList, row
      <3>4. job.op # "removeList" => job.version = lists[job.id].version
        <4>1. job.op = "updateList" => job.version = lists[job.id].version
          BY <2>1, <3>1 DEF Stale
        <4>2. job.op = "createList" => job.version = lists[job.id].version
          BY <2>2, <3>2, <3>1, BlankList DEF Flow
        <4> QED
          BY <2>2, <3>1, <4>1, <4>2 DEF ListOps
      <3>5. Pending(job)
        BY <2>2, <2>3, <3>1, <3>3, <3>4 DEF Pending, ListOps, TemplateOps
      <3> QED
        BY <2>1, <2>4, <3>1, <3>2, <3>5, Wrote
    <2> QED
      BY <2>1, <2>4
  <1> QED
    BY <1>1, <1>2

LEMMA WriteTemplateInv ==
  ASSUME IInv, NEW h \in Handler, WriteTemplate(h)
  PROVE  IInv'
  <1>1. CASE End(h)
    BY <1>1, EndInv
  <1>2. CASE ~End(h)
    <2> DEFINE row == [name |-> jobs[h].name, content |-> jobs[h].content]
    <2>1. /\ jobs[h].phase = "write" /\ jobs[h].id \in Template
          /\ Go(h, [jobs[h] EXCEPT !.phase = "commit", !.row = row])
      BY <1>2 DEF WriteTemplate
    <2>2. jobs[h] \in Job /\ Flow(jobs[h]) /\ jobs[h].op \in TemplateOps
      BY <2>1, Typed, Writers DEF IInv
    <2>3. row \in TemplateRow
      BY <2>2 DEF Flow, TemplateRow
    <2> HIDE DEF row
    <2>4. ASSUME NEW job, job = [jobs[h] EXCEPT !.phase = "commit", !.row = row], Go(h, job)
          PROVE  IInv'
      <3>1. /\ job \in Job /\ job.phase = "commit" /\ job.op = jobs[h].op /\ job.id = jobs[h].id
            /\ job.name = jobs[h].name /\ job.content = jobs[h].content /\ job.row = row
        <4>1. job \in Job
          BY <2>2, <2>3, <2>4 DEF Job
        <4>2. /\ job.phase = "commit" /\ job.op = jobs[h].op /\ job.id = jobs[h].id
              /\ job.name = jobs[h].name /\ job.content = jobs[h].content /\ job.row = row
          BY <2>2, <2>3, <2>4 DEF Job
        <4> QED
          BY <4>1, <4>2
      <3>2. Flow(job)
        BY <2>2, <3>1 DEF Flow, ListOps, TemplateOps
      <3>3. Pending(job)
        BY <2>2, <3>1 DEF Pending, ListOps, TemplateOps, row
      <3> QED
        BY <2>1, <2>2, <2>4, <3>1, <3>2, <3>3, Wrote DEF ListOps, TemplateOps
    <2> QED
      BY <2>1, <2>4
  <1> QED
    BY <1>1, <1>2

-----------------------------------------------------------------------------
(* The statements of a resolution *)

LEMMA Composing ==
  ASSUME IInv, NEW h \in Handler,
         jobs[h].phase \in {"teams", "teamMembers", "lists", "listMembers", "users", "consents",
                           "numbers", "send"}
  PROVE  /\ jobs[h] \in Job /\ jobs[h].op = "compose" /\ Flow(jobs[h]) /\ Resolves(jobs[h])
         /\ jobs[h].id \in Notification /\ jobs[h].content \in Content
         /\ jobs[h].row \in Template /\ templates[jobs[h].row] # NoTemplate
         /\ jobs[h].pick.users \in SUBSET User
  <1>1. jobs[h] \in Job /\ Flow(jobs[h]) /\ Resolves(jobs[h])
    BY Typed DEF IInv
  <1>2. jobs[h].op = "compose"
    BY <1>1, JobFields DEF Flow, ListOps, TemplateOps
  <1>3. jobs[h].pick \in Pick \cup {NoPick}
    BY <1>1, JobFields
  <1>4. jobs[h].pick.users \in SUBSET User
    BY <1>3, AudienceAssumption DEF NoPick
  <1> QED
    BY <1>1, <1>2, <1>4 DEF Flow

\* A request whose resolution goes on: the same selection, another statement.
LEMMA ResolveOn ==
  ASSUME IInv, NEW h \in Handler, NEW job \in Job, Go(h, job),
         jobs[h].phase \in {"teams", "teamMembers", "lists", "listMembers", "users",
                           "consents", "numbers"},
         job.phase \in {"teamMembers", "lists", "listMembers", "users", "consents",
                       "numbers", "send"},
         job.op = jobs[h].op, job.id = jobs[h].id, job.row = jobs[h].row,
         job.content = jobs[h].content,
         job.phase = "listMembers" => job.pick.list \in List,
         job.phase = "send" => \A u \in job.to : job.mobiles[u] # None,
         Resolves(job)
  PROVE  IInv'
  <1>1. Flow(job)
    BY Composing DEF Flow, ListOps, TemplateOps
  <1> QED
    BY <1>1, GoOn

LEMMA ReadTeamsInv ==
  ASSUME IInv, NEW h \in Handler, ReadTeams(h)
  PROVE  IInv'
  <1> DEFINE users == jobs[h].pick.users
             p == IF jobs[h].pick.team \in live THEN "teamMembers" ELSE "lists"
  <1>1. jobs[h].phase = "teams" /\ Go(h, [jobs[h] EXCEPT !.found = users, !.phase = p])
    BY DEF ReadTeams
  <1>2. users \in SUBSET User /\ jobs[h] \in Job
    BY <1>1, Composing
  <1>3. /\ p \in {"teamMembers", "lists"} /\ users = jobs[h].pick.users
        /\ p = "teamMembers" => jobs[h].pick.team \in live
        /\ p = "lists" => users = Direct(jobs[h].pick)
    BY DEF Direct
  <1> HIDE DEF users, p
  <1>4. ASSUME NEW job, job = [jobs[h] EXCEPT !.found = users, !.phase = p], Go(h, job)
        PROVE  IInv'
    <2>1. /\ job \in Job /\ job.phase = p /\ job.op = jobs[h].op /\ job.id = jobs[h].id
          /\ job.row = jobs[h].row /\ job.content = jobs[h].content /\ job.pick = jobs[h].pick
          /\ job.found = users
      <3>1. job \in Job
        <4>1. p \in {"idle", "name", "members", "write", "commit", "teams", "teamMembers",
                     "lists", "listMembers", "users", "consents", "numbers", "send"}
          BY <1>3
        <4>2. jobs[h] \in Job /\ users \in SUBSET User
          BY <1>2
        <4> HIDE DEF p
        <4> QED
          BY <4>1, <4>2, <1>4 DEF Job
      <3>2. /\ job.phase = p /\ job.op = jobs[h].op /\ job.id = jobs[h].id
            /\ job.row = jobs[h].row /\ job.content = jobs[h].content /\ job.pick = jobs[h].pick
            /\ job.found = users
        BY <1>2, <1>4 DEF Job
      <3> QED
        BY <3>1, <3>2
    <2>2. Resolves(job)
      BY <1>3, <2>1 DEF Resolves
    <2> QED
      BY <1>1, <1>3, <1>4, <2>1, <2>2, ResolveOn
  <1> QED
    BY <1>1, <1>4

LEMMA ReadTeamMembersInv ==
  ASSUME IInv, NEW h \in Handler, ReadTeamMembers(h)
  PROVE  IInv'
  <1> DEFINE found == jobs[h].found \cup {u \in User : people[u].team = jobs[h].pick.team}
  <1>1. /\ jobs[h].phase = "teamMembers"
        /\ Go(h, [jobs[h] EXCEPT !.phase = "lists", !.found = found])
    BY DEF ReadTeamMembers
  <1>2. jobs[h] \in Job /\ jobs[h].op = "compose" /\ Resolves(jobs[h])
    BY <1>1, Composing
  <1>3. found \in SUBSET User
    BY <1>2, JobFields
  <1>4. jobs[h].calm => found = Direct(jobs[h].pick)
    <2>1. jobs[h].calm =>
            jobs[h].found = jobs[h].pick.users /\ jobs[h].pick.team \in live
      BY <1>1, <1>2 DEF Resolves
    <2> QED
      BY <2>1 DEF Direct
  <1> HIDE DEF found
  <1>5. ASSUME NEW job, job = [jobs[h] EXCEPT !.phase = "lists", !.found = found], Go(h, job)
        PROVE  IInv'
    <2>1. /\ job \in Job /\ job.phase = "lists" /\ job.op = jobs[h].op /\ job.id = jobs[h].id
          /\ job.row = jobs[h].row /\ job.content = jobs[h].content /\ job.pick = jobs[h].pick
          /\ job.found = found /\ job.calm = jobs[h].calm
      <3>1. job \in Job
        BY <1>2, <1>3, <1>5 DEF Job
      <3>2. /\ job.phase = "lists" /\ job.op = jobs[h].op /\ job.id = jobs[h].id
            /\ job.row = jobs[h].row /\ job.content = jobs[h].content /\ job.pick = jobs[h].pick
            /\ job.found = found /\ job.calm = jobs[h].calm
        BY <1>2, <1>5 DEF Job
      <3> QED
        BY <3>1, <3>2
    <2>2. Resolves(job)
      BY <1>4, <2>1 DEF Resolves
    <2> QED
      BY <1>1, <1>5, <2>1, <2>2, ResolveOn
  <1> QED
    BY <1>1, <1>5

LEMMA ReadListsInv ==
  ASSUME IInv, NEW h \in Handler, ReadLists(h)
  PROVE  IInv'
  <1> DEFINE active == \E l \in List : l = jobs[h].pick.list /\ lists[l].status = "active"
             p == IF active THEN "listMembers" ELSE "users"
             job == [jobs[h] EXCEPT !.phase = p]
  <1>1. jobs[h].phase = "lists" /\ Go(h, job)
    BY DEF ReadLists
  <1>2. /\ jobs[h] \in Job /\ jobs[h].op = "compose" /\ Resolves(jobs[h])
    BY <1>1, Composing
  <1>3. p \in {"listMembers", "users"} /\ (p = "listMembers" <=> active)
    OBVIOUS
  <1> HIDE DEF p
  <1>4. /\ job \in Job /\ job.phase = p /\ job.op = jobs[h].op /\ job.id = jobs[h].id
        /\ job.row = jobs[h].row /\ job.content = jobs[h].content /\ job.pick = jobs[h].pick
        /\ job.found = jobs[h].found /\ job.calm = jobs[h].calm
    BY <1>2, <1>3, Moved
  <1> HIDE DEF job
  <1>5. job.calm => job.found = Direct(job.pick)
    BY <1>1, <1>2, <1>4 DEF Resolves
  <1>6. job.phase = "listMembers" =>
          job.pick.list \in List /\ lists[job.pick.list].status = "active"
    BY <1>3, <1>4
  <1>7. job.phase = "users" => Reached(job.pick) = Direct(job.pick)
    BY <1>3, <1>4 DEF Reached
  <1>8. Resolves(job)
    BY <1>3, <1>4, <1>5, <1>6, <1>7 DEF Resolves
  <1> QED
    BY <1>1, <1>3, <1>4, <1>6, <1>8, ResolveOn

LEMMA ReadListMembersInv ==
  ASSUME IInv, NEW h \in Handler, ReadListMembers(h)
  PROVE  IInv'
  <1> DEFINE found == jobs[h].found \cup members[jobs[h].pick.list]
  <1>1. /\ jobs[h].phase = "listMembers"
        /\ Go(h, [jobs[h] EXCEPT !.phase = "users", !.found = found])
    BY DEF ReadListMembers
  <1>2. /\ jobs[h] \in Job /\ jobs[h].op = "compose" /\ Flow(jobs[h]) /\ Resolves(jobs[h])
    BY <1>1, Composing
  <1>3. jobs[h].pick.list \in List
    BY <1>1, <1>2 DEF Flow
  <1>4. members[jobs[h].pick.list] \in SUBSET User /\ jobs[h].found \in SUBSET User
    BY <1>2, <1>3, Typed, JobFields DEF IInv
  <1>5. found \in SUBSET User
    BY <1>4
  <1>6. jobs[h].calm => found = Reached(jobs[h].pick)
    <2> SUFFICES ASSUME jobs[h].calm PROVE found = Reached(jobs[h].pick)
      OBVIOUS
    <2>1. jobs[h].found = Direct(jobs[h].pick) /\ lists[jobs[h].pick.list].status = "active"
      BY <1>1, <1>2 DEF Resolves
    <2> QED
      BY <2>1, <1>3, <1>4 DEF Reached
  <1> HIDE DEF found
  <1>7. ASSUME NEW job, job = [jobs[h] EXCEPT !.phase = "users", !.found = found], Go(h, job)
        PROVE  IInv'
    <2>1. /\ job \in Job /\ job.phase = "users" /\ job.op = jobs[h].op /\ job.id = jobs[h].id
          /\ job.row = jobs[h].row /\ job.content = jobs[h].content /\ job.pick = jobs[h].pick
          /\ job.found = found /\ job.calm = jobs[h].calm
      <3>1. job \in Job
        BY <1>2, <1>5, <1>7 DEF Job
      <3>2. /\ job.phase = "users" /\ job.op = jobs[h].op /\ job.id = jobs[h].id
            /\ job.row = jobs[h].row /\ job.content = jobs[h].content /\ job.pick = jobs[h].pick
            /\ job.found = found /\ job.calm = jobs[h].calm
        BY <1>2, <1>5, <1>7 DEF Job
      <3> QED
        BY <3>1, <3>2
    <2>2. Resolves(job)
      BY <1>6, <2>1 DEF Resolves
    <2> QED
      BY <1>1, <1>7, <2>1, <2>2, ResolveOn
  <1> QED
    BY <1>1, <1>7

LEMMA ReadUsersInv ==
  ASSUME IInv, NEW h \in Handler, ReadUsers(h)
  PROVE  IInv'
  <1> DEFINE found == {u \in jobs[h].found : people[u].active}
  <1>1. /\ jobs[h].phase = "users"
        /\ Go(h, [jobs[h] EXCEPT !.phase = "consents", !.found = found])
    BY DEF ReadUsers
  <1>2. jobs[h] \in Job /\ jobs[h].op = "compose" /\ Resolves(jobs[h])
    BY <1>1, Composing
  <1>3. found \in SUBSET User
    BY <1>2, JobFields
  <1>4. jobs[h].calm => found = {u \in Reached(jobs[h].pick) : people[u].active}
    BY <1>1, <1>2 DEF Resolves
  <1> HIDE DEF found
  <1>5. ASSUME NEW job, job = [jobs[h] EXCEPT !.phase = "consents", !.found = found],
               Go(h, job)
        PROVE  IInv'
    <2>1. /\ job \in Job /\ job.phase = "consents" /\ job.op = jobs[h].op
          /\ job.id = jobs[h].id /\ job.row = jobs[h].row /\ job.content = jobs[h].content
          /\ job.pick = jobs[h].pick /\ job.found = found /\ job.calm = jobs[h].calm
      <3>1. job \in Job
        BY <1>2, <1>3, <1>5 DEF Job
      <3>2. /\ job.phase = "consents" /\ job.op = jobs[h].op
            /\ job.id = jobs[h].id /\ job.row = jobs[h].row /\ job.content = jobs[h].content
            /\ job.pick = jobs[h].pick /\ job.found = found /\ job.calm = jobs[h].calm
        BY <1>2, <1>5 DEF Job
      <3> QED
        BY <3>1, <3>2
    <2>2. Resolves(job)
      BY <1>4, <2>1 DEF Resolves
    <2> QED
      BY <1>1, <1>5, <2>1, <2>2, ResolveOn
  <1> QED
    BY <1>1, <1>5

\* Whom a selection reaches, with an active status and a consent, is its audience.
LEMMA Audiences ==
  ASSUME NEW pick, NEW u \in User
  PROVE  u \in AudienceOf(pick) <=>
           u \in Reached(pick) /\ people[u].active /\ people[u].consent # None
  <1>1. u \in Reached(pick) <=>
          \/ u \in pick.users
          \/ people[u].team = pick.team /\ people[u].team \in live
          \/ \E l \in List : l = pick.list /\ lists[l].status = "active" /\ u \in members[l]
    BY DEF Reached, Direct
  <1> QED
    BY <1>1 DEF AudienceOf

LEMMA ReadConsentsInv ==
  ASSUME IInv, NEW h \in Handler, ReadConsents(h)
  PROVE  IInv'
  <1> DEFINE to == {u \in jobs[h].found : people[u].consent # None}
  <1>1. CASE End(h)
    BY <1>1, EndInv
  <1>2. CASE ~End(h)
    <2>1. /\ jobs[h].phase = "consents"
          /\ Go(h, [jobs[h] EXCEPT !.phase = "numbers", !.to = to])
      BY <1>2 DEF ReadConsents
    <2>2. /\ jobs[h] \in Job /\ jobs[h].op = "compose" /\ Resolves(jobs[h])
          /\ jobs[h].found \in SUBSET User
      BY <2>1, Composing, JobFields
    <2>3. to \in SUBSET User
      BY <2>2
    <2>4. jobs[h].calm => to = AudienceOf(jobs[h].pick)
      <3> SUFFICES ASSUME jobs[h].calm PROVE to = AudienceOf(jobs[h].pick)
        OBVIOUS
      <3>1. jobs[h].found = {u \in Reached(jobs[h].pick) : people[u].active}
        BY <2>1, <2>2 DEF Resolves
      <3>2. \A u \in User : u \in to <=> u \in AudienceOf(jobs[h].pick)
        BY <3>1, Audiences
      <3> QED
        BY <2>3, <3>2 DEF AudienceOf
    <2> HIDE DEF to
    <2>5. ASSUME NEW job, job = [jobs[h] EXCEPT !.phase = "numbers", !.to = to], Go(h, job)
          PROVE  IInv'
      <3>1. /\ job \in Job /\ job.phase = "numbers" /\ job.op = jobs[h].op
            /\ job.id = jobs[h].id /\ job.row = jobs[h].row /\ job.content = jobs[h].content
            /\ job.pick = jobs[h].pick /\ job.to = to /\ job.calm = jobs[h].calm
        <4>1. job \in Job
          BY <2>2, <2>3, <2>5 DEF Job
        <4>2. /\ job.phase = "numbers" /\ job.op = jobs[h].op
              /\ job.id = jobs[h].id /\ job.row = jobs[h].row /\ job.content = jobs[h].content
              /\ job.pick = jobs[h].pick /\ job.to = to /\ job.calm = jobs[h].calm
          BY <2>2, <2>5 DEF Job
        <4> QED
          BY <4>1, <4>2
      <3>2. Resolves(job)
        BY <2>4, <3>1 DEF Resolves
      <3> QED
        BY <2>1, <2>5, <3>1, <3>2, ResolveOn
    <2> QED
      BY <2>1, <2>5
  <1> QED
    BY <1>1, <1>2

LEMMA ReadNumbersInv ==
  ASSUME IInv, NEW h \in Handler, ReadNumbers(h)
  PROVE  IInv'
  <1> DEFINE mobiles == [u \in User |-> IF u \in jobs[h].to THEN people[u].mobile ELSE None]
  <1>1. /\ jobs[h].phase = "numbers"
        /\ Go(h, [jobs[h] EXCEPT !.phase = "send", !.mobiles = mobiles])
    BY DEF ReadNumbers
  <1>2. /\ jobs[h] \in Job /\ jobs[h].op = "compose" /\ Resolves(jobs[h])
        /\ jobs[h].to \in SUBSET User
    BY <1>1, Composing, JobFields
  <1>3. mobiles \in [User -> Mobile \cup {None}]
    BY Typed DEF IInv
  <1>4. \A u \in jobs[h].to : mobiles[u] = people[u].mobile /\ mobiles[u] # None
    BY <1>2, Typed DEF IInv
  <1>5. jobs[h].calm => jobs[h].to = AudienceOf(jobs[h].pick)
    BY <1>1, <1>2 DEF Resolves
  <1> HIDE DEF mobiles
  <1>6. ASSUME NEW job, job = [jobs[h] EXCEPT !.phase = "send", !.mobiles = mobiles],
               Go(h, job)
        PROVE  IInv'
    <2>1. /\ job \in Job /\ job.phase = "send" /\ job.op = jobs[h].op
          /\ job.id = jobs[h].id /\ job.row = jobs[h].row /\ job.content = jobs[h].content
          /\ job.pick = jobs[h].pick /\ job.mobiles = mobiles /\ job.to = jobs[h].to
          /\ job.calm = jobs[h].calm
      <3>1. job \in Job
        BY <1>2, <1>3, <1>6 DEF Job
      <3>2. /\ job.phase = "send" /\ job.op = jobs[h].op
            /\ job.id = jobs[h].id /\ job.row = jobs[h].row /\ job.content = jobs[h].content
            /\ job.pick = jobs[h].pick /\ job.mobiles = mobiles /\ job.to = jobs[h].to
            /\ job.calm = jobs[h].calm
        BY <1>2, <1>6 DEF Job
      <3> QED
        BY <3>1, <3>2
    <2>2. Resolves(job)
      BY <1>4, <1>5, <2>1 DEF Resolves
    <2>3. \A u \in job.to : job.mobiles[u] # None
      BY <1>4, <2>1
    <2> QED
      BY <1>1, <1>6, <2>1, <2>2, <2>3, ResolveOn
  <1> QED
    BY <1>1, <1>6

-----------------------------------------------------------------------------
(* Sends *)

LEMMA SendInv ==
  ASSUME IInv, NEW h \in Handler, NEW u \in User, Send(h, u)
  PROVE  IInv'
  <1> DEFINE message == [note |-> jobs[h].id, user |-> u, mobile |-> jobs[h].mobiles[u],
                         sid |-> SidOf(h), vars |-> jobs[h].content.slots, retry |-> FALSE]
             to == jobs[h].to \ {u}
             failed == jobs[h].failed \cup {u}
  <1>1. jobs[h].phase = "send" /\ u \in jobs[h].to
    BY DEF Send
  <1>2. /\ jobs[h] \in Job /\ jobs[h].op = "compose" /\ Flow(jobs[h]) /\ Resolves(jobs[h])
        /\ jobs[h].id \in Notification /\ jobs[h].content \in Content
        /\ jobs[h].row \in Template /\ templates[jobs[h].row] # NoTemplate
    BY <1>1, Composing
  <1>3. jobs[h].mobiles[u] \in Mobile /\ \A v \in jobs[h].to : jobs[h].mobiles[v] # None
    BY <1>1, <1>2, JobFields DEF Flow
  <1>4. /\ message \in Message /\ message.note = jobs[h].id /\ message.user = u
        /\ message.retry = FALSE /\ [sid |-> message.sid, vars |-> message.vars] =
                                    [sid |-> jobs[h].content.sid, vars |-> jobs[h].content.slots]
    BY <1>2, <1>3, Contents DEF Message, SidOf
  <1>5. [sid |-> message.sid, slots |-> message.vars] \in Content
    BY <1>2, Contents DEF SidOf
  <1>6. to \in SUBSET User /\ failed \in SUBSET User /\ to \subseteq jobs[h].to
    BY <1>2, JobFields
  <1> HIDE DEF message
  <1>7. sent \subseteq sent' /\ sent' \subseteq sent \cup {message}
        /\ UNCHANGED <<directory, groups, templates, notes, retry>>
    BY DEF Send, message
  <1>8. sent' \in SUBSET Message /\ FirstSendsMatchTheirTemplate'
    BY <1>4, <1>5, <1>7 DEF IInv, TypeOK, FirstSendsMatchTheirTemplate
  \* What is left to do with the rest of the recipients.
  <1>9. ASSUME NEW job \in Job, jobs' = [jobs EXCEPT ![h] = job],
               job.phase = "send", job.op = "compose", job.id = jobs[h].id,
               job.row = jobs[h].row, job.content = jobs[h].content,
               job.pick = jobs[h].pick, job.mobiles = jobs[h].mobiles, job.to = to,
               job.calm = jobs[h].calm, jobs[h].failed \subseteq job.failed,
               u \in job.failed \/ message \in sent'
        PROVE  IInv'
    <2>1. Flow(job)
      BY <1>2, <1>3, <1>6, <1>9 DEF Flow, ListOps, TemplateOps
    <2>2. Pending(job)
      BY <1>9 DEF Pending
    <2>3. \A k \in Handler \ {h} : Apart(job, jobs[k]) /\ Apart(jobs[k], job)
      <3> SUFFICES ASSUME NEW k \in Handler \ {h}
                   PROVE  Apart(job, jobs[k]) /\ Apart(jobs[k], job)
        OBVIOUS
      <3>1. Apart(jobs[h], jobs[k]) /\ Apart(jobs[k], jobs[h])
        BY Apartness
      <3> QED
        BY <3>1, <1>9 DEF Apart
    <2>4. UNCHANGED <<people, live, lists, members>>
      BY <1>7 DEF directory, groups
    <2>5. Resolves(job)'
      <3>1. ASSUME NEW j, j = jobs[h] PROVE Resolves(j)'
        BY <1>2, <1>7, <2>4, <3>1, ResolvesOn
      <3>2. PICK j : j = jobs[h] /\ Resolves(j)'
        BY <3>1
      <3>3. ASSUME job.calm, NEW v \in AudienceOf(job.pick)'
            PROVE  v \in job.to \cup job.failed \/ \E m \in sent' : m.note = job.id /\ m.user = v
        <4>1. \/ v \in j.to \cup j.failed
              \/ \E m \in sent' : m.note = j.id /\ m.user = v
          BY <1>1, <1>2, <1>9, <3>2, <3>3 DEF Resolves
        <4>2. v = u => v \in job.failed \/ message \in sent'
          BY <1>9
        <4> QED
          BY <1>4, <1>9, <3>2, <4>1, <4>2
      <3>4. job.calm =>
              /\ \A v \in job.to : job.mobiles[v] = people'[v].mobile
              /\ job.to \subseteq AudienceOf(job.pick)'
        BY <1>1, <1>2, <1>6, <1>9, <3>2 DEF Resolves
      <3> QED
        BY <1>9, <3>3, <3>4 DEF Resolves
    <2> QED
      BY <1>7, <1>8, <1>9, <2>1, <2>2, <2>3, <2>5, JobStep
  <1> HIDE DEF to, failed
  <1>10. CASE message \in sent' /\ jobs' = [jobs EXCEPT ![h].to = @ \ {u}]
    <2>1. ASSUME NEW job, job = [jobs[h] EXCEPT !.to = to], jobs' = [jobs EXCEPT ![h] = job]
          PROVE  IInv'
      <3>1. job \in Job
        BY <1>2, <1>6, <2>1 DEF Job
      <3>2. /\ job.phase = jobs[h].phase /\ job.op = jobs[h].op /\ job.id = jobs[h].id
            /\ job.row = jobs[h].row /\ job.content = jobs[h].content
            /\ job.pick = jobs[h].pick /\ job.mobiles = jobs[h].mobiles /\ job.to = to
            /\ job.calm = jobs[h].calm /\ jobs[h].failed = job.failed
        BY <1>2, <1>6, <2>1 DEF Job
      <3> QED
        BY <1>1, <1>2, <1>9, <1>10, <2>1, <3>1, <3>2
    <2>2. jobs' = [jobs EXCEPT ![h] = [jobs[h] EXCEPT !.to = to]]
      BY <1>10 DEF to
    <2> QED
      BY <2>1, <2>2
  <1>11. CASE jobs' = [jobs EXCEPT ![h].to = @ \ {u}, ![h].failed = @ \cup {u}]
    <2>1. ASSUME NEW job, job = [jobs[h] EXCEPT !.to = to, !.failed = failed],
                 jobs' = [jobs EXCEPT ![h] = job]
          PROVE  IInv'
      <3>1. job \in Job
        BY <1>2, <1>6, <2>1 DEF Job
      <3>2. /\ job.phase = jobs[h].phase /\ job.op = jobs[h].op /\ job.id = jobs[h].id
            /\ job.row = jobs[h].row /\ job.content = jobs[h].content
            /\ job.pick = jobs[h].pick /\ job.mobiles = jobs[h].mobiles /\ job.to = to
            /\ job.calm = jobs[h].calm /\ job.failed = failed
        BY <1>2, <1>6, <2>1 DEF Job
      <3>3. jobs[h].failed \subseteq failed /\ u \in failed
        BY DEF failed
      <3> QED
        BY <1>1, <1>2, <1>9, <2>1, <3>1, <3>2, <3>3
    <2>2. jobs' = [jobs EXCEPT ![h] = [jobs[h] EXCEPT !.to = to, !.failed = failed]]
      <3>1. jobs \in [Handler -> Job]
        BY DEF IInv, TypeOK
      <3> QED
        BY <1>11, <3>1 DEF to, failed
    <2> QED
      BY <2>1, <2>2
  <1> QED
    BY <1>10, <1>11 DEF Send, message

-----------------------------------------------------------------------------
(* Commits *)

\* A request that another's commit leaves at its statement.
Same(j, job) ==
  /\ j.op = job.op /\ j.phase = job.phase /\ j.id = job.id /\ j.name = job.name
  /\ j.version = job.version /\ j.row = job.row /\ j.content = job.content
  /\ j.pick = job.pick /\ j.mobiles = job.mobiles /\ j.to = job.to

\* What a commit may do to a request: its list is as it was, or it is another's and
\* not written by this one.
Undisturbed(j) ==
  j.op \in ListOps =>
    \/ lists'[j.id] = lists[j.id]
    \/ j.phase # "commit" /\ j.op # "createList" /\ lists'[j.id] # NoList

LEMMA Stirs ==
  ASSUME TypeOK, NEW k \in Handler
  PROVE  /\ Stirred[k] \in Job /\ Same(Stirred[k], jobs[k])
         /\ Stirred[k].op = "compose" => Stirred[k].calm = FALSE
  <1>1. ASSUME NEW j \in Job, NEW job, job = [j EXCEPT !.calm = FALSE]
        PROVE  job \in Job /\ Same(job, j) /\ job.calm = FALSE
    BY <1>1 DEF Job, Same
  <1>2. jobs[k] \in Job
    BY DEF TypeOK
  <1>3. CASE jobs[k].op = "compose"
    <2>1. Stirred[k] = [jobs[k] EXCEPT !.calm = FALSE]
      BY <1>3 DEF Stirred
    <2> QED
      BY <1>1, <1>2, <2>1
  <1>4. CASE jobs[k].op # "compose"
    <2>1. Stirred[k] = jobs[k]
      BY <1>4 DEF Stirred
    <2> QED
      BY <1>2, <1>4, <2>1 DEF Same
  <1> QED
    BY <1>3, <1>4

LEMMA StirredJobs == TypeOK => Stirred \in [Handler -> Job]
  <1> SUFFICES ASSUME TypeOK PROVE Stirred \in [Handler -> Job]
    OBVIOUS
  <1>1. \A k \in Handler : Stirred[k] \in Job
    BY Stirs
  <1>2. Stirred = [k \in Handler |-> Stirred[k]]
    BY DEF Stirred
  <1> QED
    BY <1>1, <1>2

LEMMA CommitStep ==
  ASSUME IInv, TypeOK', RetriesKnown', FirstSendsMatchTheirTemplate',
         \A m \in Template : templates[m] # NoTemplate => templates'[m] # NoTemplate,
         \A k \in Handler : \/ jobs'[k] = NoJob
                            \/ /\ Same(jobs'[k], jobs[k]) /\ Undisturbed(jobs[k])
                               /\ Resolves(jobs[k])'
  PROVE  IInv'
  <1>1. ASSUME NEW k \in Handler
        PROVE  (Flow(jobs[k]) /\ Pending(jobs[k]) /\ Resolves(jobs[k]))'
    <2>1. CASE jobs'[k] = NoJob
      <3>1. ASSUME NEW j, j = NoJob PROVE Flow(j)' /\ Pending(j)' /\ Resolves(j)'
        BY <3>1, BlankJob DEF Flow, Pending, Resolves, ListOps, TemplateOps
      <3>2. Flow(NoJob)' /\ Pending(NoJob)' /\ Resolves(NoJob)'
        BY <3>1
      <3> QED
        BY <2>1, BlankJob DEF Flow, Pending, Resolves, ListOps, TemplateOps
    <2>2. CASE Same(jobs'[k], jobs[k]) /\ Undisturbed(jobs[k]) /\ Resolves(jobs[k])'
      <3>1. Flow(jobs[k]) /\ Pending(jobs[k]) /\ jobs[k] \in Job
        BY Typed DEF IInv
      <3>2. Flow(jobs[k])'
        BY <2>2, <3>1 DEF Flow, Same, Undisturbed
      <3>3. Pending(jobs[k])'
        <4>1. ASSUME jobs'[k].phase = "commit", jobs'[k].op \in ListOps
              PROVE  lists'[jobs[k].id] = lists[jobs[k].id] /\ jobs'[k].id = jobs[k].id
          BY <2>2, <4>1 DEF Same, Undisturbed
        <4>2. ASSUME jobs'[k].phase = "commit", jobs'[k].op \in ListOps
              PROVE  WrittenList(jobs[k])' = WrittenList(jobs[k])
          BY <2>2, <4>1, <4>2 DEF WrittenList, Same
        <4> QED
          BY <2>2, <3>1, <4>1, <4>2 DEF Pending, Same
      <3> QED
        BY <2>2, <3>2, <3>3
    <2> QED
      BY <2>1, <2>2
  <1>2. ASSUME NEW k \in Handler, NEW l \in Handler, k # l PROVE Apart(jobs[k], jobs[l])'
    <2>1. Apart(jobs[k], jobs[l]) /\ jobs[k].op = "createList" => jobs[k].id \in List
      BY <1>2, Apartness DEF Flow, ListOps
    <2>2. CASE jobs'[k] = NoJob
      BY <2>2, BlankJob DEF Apart
    <2>3. CASE jobs'[l] = NoJob /\ Same(jobs'[k], jobs[k])
      BY <1>2, <2>1, <2>3, Apartness, BlankJob, AudienceAssumption DEF Apart, Same, Flow, ListOps
    <2>4. CASE Same(jobs'[l], jobs[l]) /\ Same(jobs'[k], jobs[k])
      BY <1>2, <2>4, Apartness DEF Apart, Same
    <2> QED
      BY <2>2, <2>3, <2>4
  <1> QED
    BY <1>1, <1>2 DEF IInv

\* A request whose selection is stirred claims nothing about it any more.
LEMMA StirredResolves ==
  ASSUME IInv, NEW k \in Handler, jobs'[k] = Stirred[k]
  PROVE  Same(jobs'[k], jobs[k]) /\ Resolves(jobs[k])'
  <1>1. /\ Same(jobs'[k], jobs[k])
        /\ jobs'[k].op = "compose" => jobs'[k].calm = FALSE
    BY Stirs DEF IInv
  <1> QED
    BY <1>1 DEF Resolves

LEMMA DirectoryStepInv ==
  ASSUME IInv, DirectoryStep, people' \in [User -> Person], live' \in SUBSET Team,
         agreed' \in [User -> SUBSET Mobile], had' \in [User -> SUBSET Mobile],
         checked' \in [User -> SUBSET Team]
  PROVE  IInv'
  <1>1. /\ changes < MaxChanges /\ changes' = changes + 1 /\ jobs' = Stirred
        /\ UNCHANGED <<lists, members, templates, notes, sent, retry>>
    BY DEF DirectoryStep, groups
  <1>2. jobs' \in [Handler -> Job] /\ changes' \in 0..MaxChanges
    BY <1>1, StirredJobs, AudienceAssumption DEF IInv, TypeOK
  <1>3. TypeOK'
    BY <1>1, <1>2 DEF IInv, TypeOK
  <1>4. RetriesKnown' /\ FirstSendsMatchTheirTemplate'
    BY <1>1 DEF IInv, RetriesKnown, FirstSendsMatchTheirTemplate
  <1>5. \A k \in Handler : Same(jobs'[k], jobs[k]) /\ Undisturbed(jobs[k]) /\ Resolves(jobs[k])'
    BY <1>1, StirredResolves DEF Undisturbed
  <1> QED
    BY <1>1, <1>3, <1>4, <1>5, CommitStep

LEMMA WriteUserInv ==
  ASSUME IInv, NEW u \in User, NEW person \in Person, WriteUser(u, person)
  PROVE  IInv'
  <1>1. /\ DirectoryStep /\ people' = [people EXCEPT ![u] = person]
        /\ had' = [had EXCEPT ![u] = @ \cup {person.mobile}]
        /\ checked' = [checked EXCEPT ![u] = live] /\ UNCHANGED <<live, agreed>>
    BY DEF WriteUser
  <1>2. person.mobile \in Mobile
    BY DEF Person
  <1>3. people' \in [User -> Person] /\ had' \in [User -> SUBSET Mobile]
    BY <1>1, <1>2 DEF IInv, TypeOK
  <1>4. /\ checked' \in [User -> SUBSET Team] /\ live' \in SUBSET Team
        /\ agreed' \in [User -> SUBSET Mobile]
    BY <1>1 DEF IInv, TypeOK
  <1> QED
    BY <1>1, <1>3, <1>4, DirectoryStepInv

LEMMA WriteConsentInv ==
  ASSUME IInv, NEW u \in User, NEW consent \in Mobile \cup {None}, WriteConsent(u, consent)
  PROVE  IInv'
  <1>1. /\ DirectoryStep /\ people' = [people EXCEPT ![u].consent = consent]
        /\ agreed' = [agreed EXCEPT ![u] = @ \cup ({consent} \ {None})]
        /\ UNCHANGED <<live, had, checked>>
    BY DEF WriteConsent
  <1>2. people' \in [User -> Person]
    BY <1>1 DEF IInv, TypeOK, Person
  <1>3. agreed' \in [User -> SUBSET Mobile]
    BY <1>1 DEF IInv, TypeOK
  <1>4. /\ checked' \in [User -> SUBSET Team] /\ live' \in SUBSET Team
        /\ had' \in [User -> SUBSET Mobile]
    BY <1>1 DEF IInv, TypeOK
  <1> QED
    BY <1>1, <1>2, <1>3, <1>4, DirectoryStepInv

LEMMA DirectoryInv ==
  ASSUME IInv, Directory
  PROVE  IInv'
  <1>1. ASSUME NEW u \in User PROVE people[u] \in Person
    BY Typed DEF IInv
  <1>2. ASSUME NEW u \in User, RemoveUser(u) PROVE IInv'
    <2> DEFINE person == [people[u] EXCEPT !.active = FALSE]
    <2>1. person \in Person
      BY <1>1 DEF Person
    <2>2. WriteUser(u, person)
      BY <1>2 DEF RemoveUser
    <2> HIDE DEF person
    <2> QED
      BY <2>1, <2>2, WriteUserInv
  <1>3. ASSUME NEW u \in User, NEW mobile \in Mobile, NEW team \in Team,
               UpdateUser(u, mobile, team)
        PROVE  IInv'
    <2> DEFINE consent == IF mobile = people[u].mobile THEN people[u].consent ELSE None
               person == [people[u] EXCEPT !.mobile = mobile, !.team = team,
                                           !.consent = consent]
    <2>1. consent \in Mobile \cup {None}
      BY <1>1 DEF Person
    <2>2. WriteUser(u, person)
      BY <1>3 DEF UpdateUser
    <2> HIDE DEF consent
    <2>3. person \in Person
      BY <1>1, <2>1 DEF Person
    <2> HIDE DEF person
    <2> QED
      BY <2>2, <2>3, WriteUserInv
  <1>4. ASSUME NEW u \in User, NEW mobile \in Mobile, GrantConsent(u, mobile) PROVE IInv'
    BY <1>4, WriteConsentInv DEF GrantConsent
  <1>5. ASSUME NEW u \in User, RevokeConsent(u) PROVE IInv'
    BY <1>5, WriteConsentInv DEF RevokeConsent
  <1>6. ASSUME NEW t \in Team, RemoveTeam(t) PROVE IInv'
    <2>1. DirectoryStep /\ live' = live \ {t} /\ UNCHANGED <<people, agreed, had, checked>>
      BY <1>6 DEF RemoveTeam
    <2>2. /\ people' \in [User -> Person] /\ live' \in SUBSET Team
          /\ agreed' \in [User -> SUBSET Mobile] /\ had' \in [User -> SUBSET Mobile]
          /\ checked' \in [User -> SUBSET Team]
      BY <2>1 DEF IInv, TypeOK
    <2> QED
      BY <2>1, <2>2, DirectoryStepInv
  <1> QED
    BY <1>2, <1>3, <1>4, <1>5, <1>6 DEF Directory

LEMMA CommitListInv ==
  ASSUME IInv, NEW h \in Handler, CommitList(h)
  PROVE  IInv'
  <1> DEFINE job == jobs[h]
  <1>1. /\ job.phase = "commit" /\ job.id \in List
        /\ lists' = [lists EXCEPT ![job.id] = job.row]
        /\ members' = IF job.op = "removeList" THEN members
                      ELSE [members EXCEPT ![job.id] = job.members]
        /\ jobs' = [Stirred EXCEPT ![h] = NoJob]
        /\ UNCHANGED <<people, live, agreed, had, checked, changes, templates, notes, sent, retry>>
    BY DEF CommitList, directory
  <1>2. job \in Job /\ Flow(job) /\ Pending(job) /\ job.op \in ListOps
    BY <1>1, Typed, Writers DEF IInv
  <1>3. job.row \in ListRow /\ job.row = WrittenList(job)
    BY <1>1, <1>2 DEF Pending
  <1>4. job.row # NoList
    <2>1. lists[job.id] \in ListRow /\ (job.op # "createList" => lists[job.id] # NoList)
      BY <1>1, <1>2, Typed DEF IInv, Flow
    <2>2. CASE job.op = "createList"
      BY <1>3, <2>2, BlankList DEF WrittenList
    <2>3. CASE job.op = "updateList"
      <3>1. lists[job.id].status \in {"active", "inactive"}
        BY <2>1, <2>3, ListRows
      <3>2. job.row = [lists[job.id] EXCEPT !.name = job.name, !.version = @ + 1]
        BY <1>3, <2>3 DEF WrittenList
      <3>3. job.row.status = lists[job.id].status
        BY <2>1, <2>3, <3>2 DEF ListRow, NoList
      <3> QED
        BY <3>1, <3>3, BlankList
    <2>4. CASE job.op = "removeList"
      <3>1. job.row = [lists[job.id] EXCEPT !.status = "inactive", !.version = @ + 1]
        BY <1>3, <2>4 DEF WrittenList
      <3>2. job.row.status = "inactive"
        BY <2>1, <2>4, <3>1 DEF ListRow, NoList
      <3> QED
        BY <3>2, BlankList
    <2> QED
      BY <1>2, <2>2, <2>3, <2>4 DEF ListOps
  <1>5. TypeOK'
    <2>1. lists' \in [List -> ListRow]
      BY <1>1, <1>3 DEF IInv, TypeOK
    <2>2. members' \in [List -> SUBSET User]
      BY <1>1, <1>2, JobFields DEF IInv, TypeOK
    <2>3. jobs' \in [Handler -> Job]
      BY <1>1, StirredJobs, BlankJob DEF IInv
    <2> QED
      BY <1>1, <2>1, <2>2, <2>3 DEF IInv, TypeOK
  <1>6. RetriesKnown' /\ FirstSendsMatchTheirTemplate'
    BY <1>1 DEF IInv, RetriesKnown, FirstSendsMatchTheirTemplate
  <1>7. jobs'[h] = NoJob /\ \A k \in Handler \ {h} : jobs'[k] = Stirred[k]
    <2>1. Stirred \in [Handler -> Job]
      BY StirredJobs DEF IInv
    <2> QED
      BY <1>1, <2>1
  <1>8. ASSUME NEW k \in Handler \ {h} PROVE Undisturbed(jobs[k])
    <2>1. /\ Flow(jobs[k]) /\ Apart(jobs[k], jobs[h]) /\ lists \in [List -> ListRow]
      BY Apartness DEF IInv, TypeOK
    <2>2. CASE jobs[k].id # job.id
      BY <1>1, <2>1, <2>2 DEF Undisturbed, Flow
    <2>3. CASE jobs[k].id = job.id
      <3>1. jobs[k].op \in ListOps => jobs[k].phase # "commit" /\ jobs[k].op # "createList"
        BY <1>1, <1>2, <2>1, <2>3 DEF Apart
      <3>2. lists'[jobs[k].id] # NoList
        BY <1>1, <1>4, <2>1, <2>3
      <3> QED
        BY <3>1, <3>2 DEF Undisturbed
    <2> QED
      BY <2>2, <2>3
  <1> HIDE DEF job
  <1> QED
    BY <1>1, <1>5, <1>6, <1>7, <1>8, StirredResolves, CommitStep

\* A request other than the one that ends stays as it is.
LEMMA OthersStay ==
  ASSUME IInv, NEW h \in Handler, jobs' = [jobs EXCEPT ![h] = NoJob],
         UNCHANGED <<people, live, lists, members, sent>>, NEW k \in Handler
  PROVE  \/ jobs'[k] = NoJob
         \/ Same(jobs'[k], jobs[k]) /\ Undisturbed(jobs[k]) /\ Resolves(jobs[k])'
  <1>1. jobs'[h] = NoJob /\ \A x \in Handler \ {h} : jobs'[x] = jobs[x]
    BY DEF IInv, TypeOK
  <1>2. CASE k # h
    <2>1. jobs'[k] = jobs[k] /\ Resolves(jobs[k])
      BY <1>1, <1>2 DEF IInv
    <2>2. ASSUME NEW j, j = jobs[k] PROVE Resolves(j)'
      BY <2>1, <2>2, ResolvesOn
    <2>3. Resolves(jobs[k])'
      <3>1. PICK j : j = jobs[k] /\ Resolves(j)'
        BY <2>2
      <3> QED
        BY <2>1, <3>1 DEF Resolves, Direct, Reached, AudienceOf
    <2> QED
      BY <2>1, <2>3 DEF Same, Undisturbed
  <1> QED
    BY <1>1, <1>2

LEMMA CommitTemplateInv ==
  ASSUME IInv, NEW h \in Handler, CommitTemplate(h)
  PROVE  IInv'
  <1> DEFINE job == jobs[h]
  <1>1. /\ job.phase = "commit" /\ job.id \in Template
        /\ templates' = [templates EXCEPT ![job.id] = job.row]
        /\ jobs' = [jobs EXCEPT ![h] = NoJob]
        /\ UNCHANGED <<people, live, agreed, had, checked, changes, lists, members, notes, sent, retry>>
    BY DEF CommitTemplate, directory, groups
  <1>2. job \in Job /\ Flow(job) /\ Pending(job) /\ job.op \in TemplateOps
    BY <1>1, Typed, Writers DEF IInv
  <1>3. /\ job.row = [name |-> job.name, content |-> job.content]
        /\ job.name \in Name /\ job.content \in Content
    BY <1>1, <1>2 DEF Pending, Flow
  <1>4. job.row \in TemplateRow /\ job.row # NoTemplate
    BY <1>3, AudienceAssumption DEF TemplateRow, NoTemplate
  <1>5. TypeOK'
    <2>1. templates' \in [Template -> TemplateRow]
      BY <1>1, <1>4 DEF IInv, TypeOK
    <2>2. jobs' \in [Handler -> Job]
      BY <1>1, BlankJob DEF IInv, TypeOK
    <2> QED
      BY <1>1, <2>1, <2>2 DEF IInv, TypeOK
  <1>6. \A m \in Template : templates[m] # NoTemplate => templates'[m] # NoTemplate
    BY <1>1, <1>4 DEF IInv, TypeOK
  <1>7. FirstSendsMatchTheirTemplate'
    BY <1>1 DEF IInv, FirstSendsMatchTheirTemplate
  <1>8. RetriesKnown'
    BY <1>1, <1>6 DEF IInv, RetriesKnown
  <1> HIDE DEF job
  <1> QED
    BY <1>1, <1>5, <1>6, <1>7, <1>8, OthersStay, CommitStep

LEMMA CommitComposeInv ==
  ASSUME IInv, NEW h \in Handler, CommitCompose(h)
  PROVE  IInv'
  <1> DEFINE job == jobs[h]
             row == [template |-> job.row, vars |-> job.content.slots, failed |-> job.failed]
  <1>1. /\ job.phase = "send"
        /\ notes' = [notes EXCEPT ![job.id] = row]
        /\ jobs' = [jobs EXCEPT ![h] = NoJob]
        /\ UNCHANGED <<people, live, agreed, had, checked, changes, lists, members, templates, sent, retry>>
    BY DEF CommitCompose, directory, groups
  <1>2. /\ job \in Job /\ job.id \in Notification /\ job.content \in Content
        /\ job.row \in Template /\ templates[job.row] # NoTemplate /\ job.failed \in SUBSET User
    BY <1>1, Composing, JobFields
  <1>3. row \in NoteRow /\ row.template = job.row
    BY <1>2, Contents DEF NoteRow
  <1> HIDE DEF row
  <1>5. TypeOK'
    <2>1. notes' \in [Notification -> NoteRow]
      BY <1>1, <1>3 DEF IInv, TypeOK
    <2>2. jobs' \in [Handler -> Job]
      BY <1>1, BlankJob DEF IInv, TypeOK
    <2> QED
      BY <1>1, <2>1, <2>2 DEF IInv, TypeOK
  <1>6. FirstSendsMatchTheirTemplate'
    BY <1>1 DEF IInv, FirstSendsMatchTheirTemplate
  <1>7. RetriesKnown'
    BY <1>1, <1>2, <1>3 DEF IInv, TypeOK, RetriesKnown
  <1> HIDE DEF job
  <1> QED
    BY <1>1, <1>5, <1>6, <1>7, OthersStay, CommitStep

-----------------------------------------------------------------------------
(* The retry *)

LEMMA RetryReadInv ==
  ASSUME IInv, NEW k \in Notification, NEW u \in User, RetryRead(k, u)
  PROVE  IInv'
  <1> DEFINE read == [note |-> k, user |-> u, mobile |-> people[u].mobile,
                      sid |-> templates[notes[k].template].content.sid]
  <1>1. /\ u \in notes[k].failed /\ retry' = read
        /\ UNCHANGED <<people, live, agreed, had, checked, changes, lists, members, templates, notes, sent, jobs>>
    BY DEF RetryRead, directory, groups
  <1>2. notes[k].template \in Template /\ templates[notes[k].template] # NoTemplate
    BY <1>1 DEF IInv, RetriesKnown
  <1>3. templates[notes[k].template].content \in Content
    BY <1>2, Typed, TemplateRows DEF IInv
  <1>4. templates[notes[k].template].content.sid \in {c.sid : c \in Content}
    BY <1>3
  <1>5. people[u].mobile \in Mobile
    BY Typed DEF IInv
  <1>6. read \in [note: Notification \cup {None}, user: User \cup {None},
                  sid: {c.sid : c \in Content} \cup {None}, mobile: Mobile \cup {None}]
    BY <1>4, <1>5
  <1>7. read.user \in User /\ read.mobile \in Mobile /\ read.sid \in {c.sid : c \in Content}
    BY <1>4, <1>5
  <1> HIDE DEF read
  <1>8. TypeOK'
    BY <1>1, <1>6 DEF IInv, TypeOK
  <1>9. FirstSendsMatchTheirTemplate' /\ RetriesKnown'
    BY <1>1, <1>7 DEF IInv, FirstSendsMatchTheirTemplate, RetriesKnown
  <1>10. ASSUME NEW x \in Handler
         PROVE  Same(jobs'[x], jobs[x]) /\ Undisturbed(jobs[x]) /\ Resolves(jobs[x])'
    <2>1. Resolves(jobs[x])
      BY DEF IInv
    <2>2. Resolves(jobs[x])'
      BY <1>1, <2>1 DEF Resolves, Direct, Reached, AudienceOf
    <2> QED
      BY <1>1, <2>2 DEF Same, Undisturbed
  <1> QED
    BY <1>1, <1>8, <1>9, <1>10, CommitStep

LEMMA RetrySendInv ==
  ASSUME IInv, RetrySend
  PROVE  IInv'
  <1> DEFINE k == retry.note
             message == [note |-> k, user |-> retry.user, mobile |-> retry.mobile,
                         sid |-> retry.sid, vars |-> notes[k].vars, retry |-> TRUE]
  <1>1. /\ k # None /\ retry' = NoRetry
        /\ \/ /\ sent' = sent \cup {message}
              /\ notes' = [notes EXCEPT ![k].failed = @ \ {retry.user}]
           \/ UNCHANGED <<sent, notes>>
        /\ UNCHANGED <<people, live, agreed, had, checked, changes, lists, members, templates, jobs>>
    BY DEF RetrySend, directory, groups
  <1>2. /\ k \in Notification /\ retry.user \in User /\ retry.mobile \in Mobile
        /\ retry.sid \in {c.sid : c \in Content}
    BY <1>1 DEF IInv, TypeOK, RetriesKnown
  <1>3. notes[k] \in NoteRow /\ notes[k].vars \in Seq(Slot)
    BY <1>2, Typed DEF IInv, NoteRow
  <1>4. message \in Message /\ message.retry = TRUE
    BY <1>2, <1>3 DEF Message
  <1> HIDE DEF message
  <1>5. sent \subseteq sent' /\ sent' \in SUBSET Message /\ FirstSendsMatchTheirTemplate'
    BY <1>1, <1>4 DEF IInv, TypeOK, FirstSendsMatchTheirTemplate
  <1>6. /\ notes' \in [Notification -> NoteRow]
        /\ \A x \in Notification : /\ notes'[x].template = notes[x].template
                                   /\ notes'[x].failed \subseteq notes[x].failed
    <2>1. CASE notes' = [notes EXCEPT ![k].failed = @ \ {retry.user}]
      <3>1. notes'[k] = [notes[k] EXCEPT !.failed = @ \ {retry.user}]
        BY <1>2, <2>1 DEF IInv, TypeOK
      <3>2. /\ notes'[k] \in NoteRow /\ notes'[k].template = notes[k].template
            /\ notes'[k].failed \subseteq notes[k].failed
        BY <1>3, <3>1 DEF NoteRow
      <3>3. \A x \in Notification \ {k} : notes'[x] = notes[x]
        BY <2>1 DEF IInv, TypeOK
      <3> QED
        BY <1>2, <2>1, <3>2, <3>3 DEF IInv, TypeOK
    <2>2. CASE notes' = notes
      BY <2>2 DEF IInv, TypeOK
    <2> QED
      BY <1>1, <2>1, <2>2
  <1>7. retry' \in [note: Notification \cup {None}, user: User \cup {None},
                    sid: {c.sid : c \in Content} \cup {None}, mobile: Mobile \cup {None}]
    BY <1>1 DEF NoRetry
  <1>8. TypeOK'
    BY <1>1, <1>5, <1>6, <1>7 DEF IInv, TypeOK
  <1>9. RetriesKnown'
    BY <1>1, <1>6 DEF IInv, RetriesKnown, NoRetry
  <1>10. ASSUME NEW x \in Handler
         PROVE  Same(jobs'[x], jobs[x]) /\ Undisturbed(jobs[x]) /\ Resolves(jobs[x])'
    <2>1. ASSUME NEW j, j = jobs[x] PROVE Resolves(j)'
      BY <1>1, <1>5, <2>1, ResolvesOn DEF IInv
    <2>2. Resolves(jobs[x])'
      <3>1. PICK j : j = jobs[x] /\ Resolves(j)'
        BY <2>1
      <3> QED
        BY <1>1, <3>1 DEF Resolves, Direct, Reached, AudienceOf
    <2> QED
      BY <1>1, <2>2 DEF Same, Undisturbed
  <1> QED
    BY <1>1, <1>5, <1>8, <1>9, <1>10, CommitStep

-----------------------------------------------------------------------------
(* Every step *)

LEMMA RequestInv ==
  ASSUME IInv, NEW h \in Handler, Request(h)
  PROVE  IInv'
  <1>1. CASE \E l \in List, n \in Name, users \in Roster :
               CreateList(h, l, n, users) \/ UpdateList(h, l, n, users)
    BY <1>1, BeginListInv
  <1>2. CASE \E l \in List : RemoveList(h, l)
    BY <1>2, RemoveListInv
  <1>3. CASE CheckListName(h) \/ CheckMembers(h) \/ WriteList(h) \/ CommitList(h)
    BY <1>3, CheckListNameInv, CheckMembersInv, WriteListInv, CommitListInv
  <1>4. CASE \E m \in Template, n \in Name, c \in Content :
               CreateTemplate(h, m, n, c) \/ UpdateTemplate(h, m, n, c)
    BY <1>4, BeginTemplateInv
  <1>5. CASE CheckTemplateName(h) \/ WriteTemplate(h) \/ CommitTemplate(h)
    BY <1>5, CheckTemplateNameInv, WriteTemplateInv, CommitTemplateInv
  <1>6. CASE \E k \in Notification, m \in Template, pick \in Pick : Compose(h, k, m, pick)
    BY <1>6, ComposeInv
  <1>7. CASE \/ ReadTeams(h) \/ ReadTeamMembers(h) \/ ReadLists(h) \/ ReadListMembers(h)
             \/ ReadUsers(h) \/ ReadConsents(h) \/ ReadNumbers(h)
    BY <1>7, ReadTeamsInv, ReadTeamMembersInv, ReadListsInv, ReadListMembersInv,
       ReadUsersInv, ReadConsentsInv, ReadNumbersInv
  <1>8. CASE (\E u \in User : Send(h, u)) \/ CommitCompose(h)
    BY <1>8, SendInv, CommitComposeInv
  <1>9. CASE Rollback(h)
    BY <1>9, EndInv DEF Rollback
  <1> QED
    BY <1>1, <1>2, <1>3, <1>4, <1>5, <1>6, <1>7, <1>8, <1>9 DEF Request

LEMMA NextInv == IInv /\ [Next]_vars => IInv'
  <1> SUFFICES ASSUME IInv, [Next]_vars PROVE IInv'
    OBVIOUS
  <1>1. CASE Directory
    BY <1>1, DirectoryInv
  <1>2. CASE RetryFailedDeliveries
    BY <1>2, RetryReadInv, RetrySendInv DEF RetryFailedDeliveries
  <1>3. ASSUME NEW h \in Handler, Request(h) PROVE IInv'
    BY <1>3, RequestInv
  <1>4. CASE UNCHANGED vars
    <2>1. UNCHANGED <<people, live, agreed, had, checked, changes, lists, members, templates, notes, sent,
                      jobs, retry>>
      BY <1>4 DEF vars, directory, groups
    <2>2. TypeOK' /\ RetriesKnown' /\ FirstSendsMatchTheirTemplate'
      BY <2>1 DEF IInv, TypeOK, RetriesKnown, FirstSendsMatchTheirTemplate
    <2>3. ASSUME NEW x \in Handler
          PROVE  Same(jobs'[x], jobs[x]) /\ Undisturbed(jobs[x]) /\ Resolves(jobs[x])'
      <3>1. Resolves(jobs[x])
        BY DEF IInv
      <3>2. Resolves(jobs[x])'
        BY <2>1, <3>1 DEF Resolves, Direct, Reached, AudienceOf
      <3> QED
        BY <2>1, <3>2 DEF Same, Undisturbed
    <2> QED
      BY <2>1, <2>2, <2>3, CommitStep
  <1> QED
    BY <1>1, <1>2, <1>3, <1>4 DEF Next

\* The invariant holds in every reachable state: what each request has read, written
\* and resolved fits the committed rows (domain/recipients.py, domain/notifications.py).
THEOREM InductiveInvariant == Spec => []IInv
  BY InitInv, NextInv, PTL DEF Spec

\* The rows of lists, templates and notifications, the messages, and what a request
\* carries from one statement to the next are of their types.
THEOREM TypesHold == Spec => []TypeOK
  <1>1. IInv => TypeOK
    BY DEF IInv
  <1> QED
    BY <1>1, InductiveInvariant, PTL

\* A first send pairs a Content SID with variables in the order of that Content's
\* slots (dispatch_deliveries), whatever templates are edited meanwhile.
THEOREM FirstSendsMatch == Spec => []FirstSendsMatchTheirTemplate
  <1>1. IInv => FirstSendsMatchTheirTemplate
    BY DEF IInv
  <1> QED
    BY <1>1, InductiveInvariant, PTL

\* The statements of resolve() and the second read of the users make one audience,
\* at the numbers the users have, unless a user, a consent, a team or a list is
\* committed between them.
THEOREM ResolvesOne == Spec => []ResolvesOneMoment
  <1>1. ASSUME IInv, NEW h \in Handler, jobs[h].phase = "send", jobs[h].calm
        PROVE  /\ \A u \in jobs[h].to : jobs[h].mobiles[u] = people[u].mobile
               /\ jobs[h].to \subseteq AudienceOf(jobs[h].pick)
               /\ \A u \in AudienceOf(jobs[h].pick) :
                    \/ u \in jobs[h].to \cup jobs[h].failed
                    \/ \E m \in sent : m.note = jobs[h].id /\ m.user = u
    <2>1. jobs[h].op = "compose" /\ Resolves(jobs[h])
      BY <1>1, Composing
    <2> QED
      BY <1>1, <2>1 DEF Resolves
  <1>2. IInv => ResolvesOneMoment
    BY <1>1 DEF ResolvesOneMoment
  <1> QED
    BY <1>2, InductiveInvariant, PTL

\* Members are replaced only at the version that the request read (update_list's
\* expected version), and a removed list stays removed.
THEOREM NoListEdit == Spec => NoLostListEdit
  <1> DEFINE Kept(l) ==
        /\ members'[l] # members[l] =>
             \E h \in Handler : /\ Writing(h, l) /\ jobs'[h] = NoJob
                                /\ jobs[h].version = lists[l].version
        /\ lists[l].status = "inactive" => lists'[l].status = "inactive"
  <1>1. ASSUME IInv, NEW h \in Handler, CommitList(h), NEW l \in List
        PROVE  Kept(l)
    <2>1. /\ jobs[h].phase = "commit" /\ jobs[h].id \in List
          /\ lists' = [lists EXCEPT ![jobs[h].id] = jobs[h].row]
          /\ members' = IF jobs[h].op = "removeList" THEN members
                        ELSE [members EXCEPT ![jobs[h].id] = jobs[h].members]
          /\ jobs' = [Stirred EXCEPT ![h] = NoJob]
      BY <1>1 DEF CommitList
    <2>2. /\ jobs[h] \in Job /\ Flow(jobs[h]) /\ Pending(jobs[h]) /\ jobs[h].op \in ListOps
      BY <1>1, <2>1, Typed, Writers DEF IInv
    <2>3. /\ lists \in [List -> ListRow] /\ members \in [List -> SUBSET User]
          /\ jobs'[h] = NoJob
      BY <1>1, <2>1, StirredJobs DEF IInv, TypeOK
    <2>4. CASE l # jobs[h].id
      BY <2>1, <2>3, <2>4
    <2>5. CASE l = jobs[h].id
      <3>1. members'[l] # members[l] => jobs[h].version = lists[l].version
        BY <2>1, <2>2, <2>3, <2>5 DEF Pending
      <3>2. lists'[l] = WrittenList(jobs[h])
        BY <2>1, <2>2, <2>3, <2>5 DEF Pending
      <3>3. ASSUME lists[l].status = "inactive" PROVE lists'[l].status = "inactive"
        <4>1. lists[l] # NoList /\ lists[l] \in ListRow
          BY <2>3, <3>3, BlankList
        <4>2. jobs[h].op # "createList"
          BY <2>2, <2>5, <4>1 DEF Flow
        <4>3. CASE jobs[h].op = "updateList"
          <5>1. lists'[l] = [lists[l] EXCEPT !.name = jobs[h].name, !.version = @ + 1]
            BY <2>5, <3>2, <4>3 DEF WrittenList
          <5> QED
            BY <3>3, <4>1, <5>1 DEF ListRow, NoList
        <4>4. CASE jobs[h].op = "removeList"
          <5>1. lists'[l] = [lists[l] EXCEPT !.status = "inactive", !.version = @ + 1]
            BY <2>5, <3>2, <4>4 DEF WrittenList
          <5> QED
            BY <4>1, <5>1 DEF ListRow, NoList
        <4> QED
          BY <2>2, <4>2, <4>3, <4>4 DEF ListOps
      <3>4. Writing(h, l)
        BY <2>1, <2>5 DEF Writing
      <3> QED
        BY <2>3, <3>1, <3>3, <3>4
    <2> QED
      BY <2>4, <2>5
  <1>2. ASSUME [Next]_vars, \A h \in Handler : ~CommitList(h)
        PROVE  UNCHANGED <<lists, members>>
    <2>1. Directory \/ RetryFailedDeliveries => UNCHANGED groups
      BY DEF Directory, RetryFailedDeliveries, RemoveUser, GrantConsent, RevokeConsent,
             UpdateUser, RemoveTeam, WriteUser, WriteConsent, DirectoryStep, RetryRead, RetrySend
    <2>3. ASSUME NEW h \in Handler, Request(h) PROVE UNCHANGED groups
      <3>1. ASSUME NEW l \in List, NEW n \in Name, NEW users \in Roster,
                   CreateList(h, l, n, users) \/ UpdateList(h, l, n, users)
            PROVE  UNCHANGED groups
        BY <3>1 DEF CreateList, UpdateList, Begin
      <3>2. ASSUME NEW l \in List, RemoveList(h, l) PROVE UNCHANGED groups
        BY <3>2 DEF RemoveList, Begin
      <3>3. CheckListName(h) \/ CheckMembers(h) \/ WriteList(h) => UNCHANGED groups
        BY DEF CheckListName, CheckMembers, WriteList, Go, End
      <3>4. ASSUME NEW m \in Template, NEW n \in Name, NEW c \in Content,
                   CreateTemplate(h, m, n, c) \/ UpdateTemplate(h, m, n, c)
            PROVE  UNCHANGED groups
        BY <3>4 DEF CreateTemplate, UpdateTemplate, Begin
      <3>5. CheckTemplateName(h) \/ WriteTemplate(h) \/ CommitTemplate(h) => UNCHANGED groups
        BY DEF CheckTemplateName, WriteTemplate, CommitTemplate, Go, End
      <3>6. ASSUME NEW k \in Notification, NEW m \in Template, NEW pick \in Pick,
                   Compose(h, k, m, pick)
            PROVE  UNCHANGED groups
        BY <3>6 DEF Compose, Begin
      <3>7. /\ ReadTeams(h) \/ ReadTeamMembers(h) => UNCHANGED groups
            /\ ReadLists(h) \/ ReadListMembers(h) => UNCHANGED groups
        BY DEF ReadTeams, ReadTeamMembers, ReadLists, ReadListMembers, Go
      <3>8. ReadUsers(h) \/ ReadConsents(h) \/ ReadNumbers(h) => UNCHANGED groups
        BY DEF ReadUsers, ReadConsents, ReadNumbers, Go, End
      <3>9. (\E u \in User : Send(h, u)) \/ CommitCompose(h) \/ Rollback(h) => UNCHANGED groups
        BY DEF Send, CommitCompose, Rollback, End, Go
      <3> QED
        BY <1>2, <2>3, <3>1, <3>2, <3>3, <3>4, <3>5, <3>6, <3>7, <3>8, <3>9 DEF Request
    <2>4. UNCHANGED vars => UNCHANGED groups
      BY DEF vars
    <2> QED
      BY <1>2, <2>1, <2>3, <2>4 DEF Next, groups
  <1>3. ASSUME IInv, [Next]_vars PROVE \A l \in List : Kept(l)
    <2>1. CASE \A h \in Handler : ~CommitList(h)
      BY <1>2, <1>3, <2>1
    <2> QED
      BY <1>1, <1>3, <2>1
  <1>4. IInv /\ [Next]_vars => [\A l \in List : Kept(l)]_vars
    BY <1>3
  <1> QED
    BY <1>4, InductiveInvariant, PTL DEF NoLostListEdit, Spec
===============================================================================
