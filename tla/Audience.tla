------------------------------ MODULE Audience ------------------------------
(***************************************************************************)
(* Whom a manual notification reaches, and with what: recipient lists and  *)
(* message templates (domain/recipients.py, domain/notifications.py), the  *)
(* recipient resolution of a compose request, its send loop, and the retry *)
(* of a failed send.  Users, consents and teams change at the commits of   *)
(* the directory's transactions (module Directory has their statements);   *)
(* what such a transaction read before is kept as a history: the numbers   *)
(* that a grant may have read, the teams that an edit may have checked.    *)
(*                                                                         *)
(* A transaction reads at READ COMMITTED, one statement at a time, and its *)
(* writes wait for the row lock or the index entry of another's.           *)
(***************************************************************************)
EXTENDS Naturals, Sequences, FiniteSets

CONSTANTS
  User,
  Mobile,        \* phone numbers
  MobileOf,      \* the number each user starts with
  ConsentOf,     \* the number of each user's active consent at the start, or None
  Team,
  TeamOf,        \* the team each user starts in
  List,          \* recipient_lists rows, by id
  Template,      \* message_templates rows, by id
  Name,          \* of lists and of templates
  Content,       \* [sid, slots]: Content SID and ordered slots of a template
  Notification,  \* notifications rows, by id
  Roster,        \* the member sets that list forms submit
  Pick,          \* selections of the picker: users, and a team and a list or None
  Handler,       \* request handlers
  None,          \* SQL NULL, no such row, nothing selected
  MaxChanges,    \* bound: directory commits
  MaxVersion     \* bound: no list row is written beyond this version

Slot == UNION {{c.slots[i] : i \in DOMAIN c.slots} : c \in Content}

\* Rows of different tables are different.
ASSUME AudienceAssumption ==
  /\ MobileOf \in [User -> Mobile]
  /\ TeamOf \in [User -> Team]
  /\ ConsentOf \in [User -> Mobile \cup {None}]
  /\ Roster \subseteq SUBSET User
  /\ None \notin User \cup Mobile \cup Team \cup List \cup Template \cup Name
                   \cup Content \cup Notification
  /\ \A c \in Content : c = [sid |-> c.sid, slots |-> c.slots] /\ c.slots \in Seq(Slot)
  /\ List \cap Template = {} /\ List \cap Notification = {} /\ Template \cap Notification = {}
  /\ Pick \subseteq [users: SUBSET User, team: Team \cup {None}, list: List \cup {None}]
  /\ MaxChanges \in Nat /\ MaxVersion \in Nat \ {0}

VARIABLES
  people,     \* users and their active consents, as committed
  live,       \* the active teams
  lists,      \* committed rows of recipient_lists
  members,    \* committed rows of recipient_list_members, by list
  templates,  \* committed rows of message_templates
  notes,      \* committed notifications with their deliveries
  sent,       \* the messages the provider has accepted
  jobs,       \* the request of each handler
  retry,      \* what the retry job is doing
  agreed,     \* history: the numbers a consent was ever recorded for, by user
  had,        \* history: the numbers each user has had
  checked,    \* history: the teams active at some time since a user's row was written
  changes     \* commits of the directory, for the bound

directory == <<people, live, agreed, had, checked, changes>>
groups == <<lists, members>>
vars == <<directory, groups, templates, notes, sent, jobs, retry>>

-----------------------------------------------------------------------------
(* Types *)

NoList == [status |-> "absent", name |-> None, version |-> 0]
ListRow == {NoList} \cup
  [status: {"active", "inactive"}, name: Name, version: 1..MaxVersion]

NoTemplate == [name |-> None, content |-> None]
TemplateRow == {NoTemplate} \cup [name: Name, content: Content]

\* `vars`: content_variables, the slot whose value is at each position.
NoNote == [template |-> None, vars |-> <<>>, failed |-> {}]
NoteRow == [template: Template \cup {None}, vars: Seq(Slot), failed: SUBSET User]

Message == [note: Notification, user: User, mobile: Mobile, sid: {c.sid : c \in Content},
            vars: Seq(Slot), retry: BOOLEAN]

\* More teams and lists of a selection are read the same way.
NoPick == [users |-> {}, team |-> None, list |-> None]

\* `calm`, history: nothing that a resolution reads has been committed since the
\* request began.
NoJob == [op |-> "none", phase |-> "idle", id |-> None, name |-> None,
          members |-> {}, version |-> 0, row |-> None, content |-> None,
          pick |-> NoPick, found |-> {}, mobiles |-> [u \in User |-> None],
          to |-> {}, failed |-> {}, calm |-> TRUE]

Job == [op: {"none", "createList", "updateList", "removeList", "createTemplate",
             "updateTemplate", "compose"},
        phase: {"idle", "name", "members", "write", "commit", "teams", "teamMembers",
                "lists", "listMembers", "users", "consents", "numbers", "send"},
        id: List \cup Template \cup Notification \cup {None}, name: Name \cup {None},
        members: SUBSET User, version: 0..MaxVersion,
        row: ListRow \cup TemplateRow \cup Template \cup {None},
        content: Content \cup {None}, pick: Pick \cup {NoPick}, found: SUBSET User,
        mobiles: [User -> Mobile \cup {None}], to: SUBSET User,
        failed: SUBSET User, calm: BOOLEAN]

NoRetry == [note |-> None, user |-> None, sid |-> None, mobile |-> None]

\* `consent`: the number of the active consent, which need not be the user's.
Person == [active: BOOLEAN, mobile: Mobile, team: Team, consent: Mobile \cup {None}]

TypeOK ==
  /\ people \in [User -> Person]
  /\ live \in SUBSET Team
  /\ lists \in [List -> ListRow]
  /\ members \in [List -> SUBSET User]
  /\ templates \in [Template -> TemplateRow]
  /\ notes \in [Notification -> NoteRow]
  /\ sent \in SUBSET Message
  /\ jobs \in [Handler -> Job]
  /\ retry \in [note: Notification \cup {None},
               user: User \cup {None}, sid: {c.sid : c \in Content} \cup {None},
               mobile: Mobile \cup {None}]
  /\ agreed \in [User -> SUBSET Mobile]
  /\ had \in [User -> SUBSET Mobile]
  /\ checked \in [User -> SUBSET Team]
  /\ changes \in 0..MaxChanges

Init ==
  /\ people = [u \in User |-> [active |-> TRUE, mobile |-> MobileOf[u], team |-> TeamOf[u],
                              consent |-> ConsentOf[u]]]
  /\ live = Team
  /\ lists = [l \in List |-> NoList]
  /\ members = [l \in List |-> {}]
  /\ templates = [m \in Template |-> NoTemplate]
  /\ notes = [k \in Notification |-> NoNote]
  /\ sent = {}
  /\ jobs = [h \in Handler |-> NoJob]
  /\ retry = NoRetry
  /\ agreed = [u \in User |-> {ConsentOf[u]} \ {None}]
  /\ had = [u \in User |-> {MobileOf[u], ConsentOf[u]} \ {None}]
  /\ checked = [u \in User |-> Team]
  /\ changes = 0

-----------------------------------------------------------------------------
(* The directory's commits *)

Stirred ==
  [h \in Handler |-> IF jobs[h].op = "compose" THEN [jobs[h] EXCEPT !.calm = FALSE]
                     ELSE jobs[h]]

DirectoryStep ==
  /\ changes < MaxChanges
  /\ changes' = changes + 1
  /\ jobs' = Stirred
  /\ UNCHANGED <<groups, templates, notes, sent, retry>>

\* A write of the users row: an edit that read the version before fails from now on.
WriteUser(u, person) ==
  /\ DirectoryStep
  /\ people' = [people EXCEPT ![u] = person]
  /\ had' = [had EXCEPT ![u] = @ \cup {person.mobile}]
  /\ checked' = [checked EXCEPT ![u] = live]
  /\ UNCHANGED <<live, agreed>>

RemoveUser(u) ==
  people[u].active /\ WriteUser(u, [people[u] EXCEPT !.active = FALSE])

\* update_user: number and team.  The team was active when the edit asked, and may
\* have been removed since; the number is no other active user's; a new number
\* revokes the consent.
UpdateUser(u, mobile, team) ==
  /\ team \in checked[u]
  /\ \A v \in User \ {u} : people[v].active => people[v].mobile # mobile
  /\ WriteUser(u, [people[u] EXCEPT !.mobile = mobile, !.team = team,
                     !.consent = IF mobile = people[u].mobile THEN @ ELSE None])

WriteConsent(u, consent) ==
  /\ DirectoryStep
  /\ people' = [people EXCEPT ![u].consent = consent]
  /\ agreed' = [agreed EXCEPT ![u] = @ \cup ({consent} \ {None})]
  /\ UNCHANGED <<live, had, checked>>

\* grant_consent asks for no active status, and inserts the number it read with the
\* user, which an edit may have changed before the insert.
GrantConsent(u, mobile) ==
  mobile \in had[u] /\ people[u].consent = None /\ WriteConsent(u, mobile)

RevokeConsent(u) == people[u].consent # None /\ WriteConsent(u, None)

RemoveTeam(t) ==
  /\ t \in live
  /\ DirectoryStep
  /\ live' = live \ {t}
  /\ UNCHANGED <<people, agreed, had, checked>>

-----------------------------------------------------------------------------
(* Requests *)

Begin(h, job) ==
  /\ jobs[h] = NoJob
  /\ jobs' = [jobs EXCEPT ![h] = job]
  /\ UNCHANGED <<directory, groups, templates, notes, sent, retry>>

Go(h, job) ==
  /\ jobs' = [jobs EXCEPT ![h] = job]
  /\ UNCHANGED <<directory, groups, templates, notes, sent, retry>>

End(h) == Go(h, NoJob)

Writing(h, id) == jobs[h].phase = "commit" /\ jobs[h].id = id

Fresh(id) == \A h \in Handler : jobs[h].id # id

-----------------------------------------------------------------------------
(* Recipient lists *)

ActiveWith(n) == {l \in List : lists[l].status = "active" /\ lists[l].name = n}

CreateList(h, l, n, users) ==
  /\ lists[l] = NoList /\ Fresh(l)
  /\ Begin(h, [NoJob EXCEPT !.op = "createList", !.phase = "name", !.id = l, !.name = n,
                            !.members = users])

\* A form older than the row ends here, with VersionConflict.
UpdateList(h, l, n, users) ==
  /\ lists[l] # NoList
  /\ Begin(h, [NoJob EXCEPT !.op = "updateList", !.phase = "name", !.id = l, !.name = n,
                            !.members = users, !.version = lists[l].version])

RemoveList(h, l) ==
  /\ lists[l] # NoList
  /\ Begin(h, [NoJob EXCEPT !.op = "removeList", !.phase = "write", !.id = l])

\* get_by_name: RecipientListNameTaken.
CheckListName(h) ==
  /\ jobs[h].phase = "name" /\ jobs[h].op \in {"createList", "updateList"}
  /\ IF ActiveWith(jobs[h].name) \subseteq {jobs[h].id}
     THEN Go(h, [jobs[h] EXCEPT !.phase = "members"])
     ELSE End(h)

\* _ensure_members_valid, in one statement.
CheckMembers(h) ==
  /\ jobs[h].phase = "members"
  /\ IF \A u \in jobs[h].members : people[u].active
     THEN Go(h, [jobs[h] EXCEPT !.phase = "write"])
     ELSE End(h)

\* h's open transaction adds or replaces an entry of the name's partial index.
HoldsEntry(h, n) ==
  /\ jobs[h].phase = "commit" /\ jobs[h].row \in ListRow
  /\ \/ jobs[h].id \in ActiveWith(n)
     \/ jobs[h].row.status = "active" /\ jobs[h].row.name = n

BugCreatesVersionZero(job) ==
  LET row == lists[job.id]
  IN CASE job.op = "createList" -> [status |-> "active", name |-> job.name, version |-> 0]
       [] job.op = "updateList" -> [row EXCEPT !.name = job.name, !.version = @ + 1]
       [] job.op = "removeList" -> [row EXCEPT !.status = "inactive", !.version = @ + 1]

WrittenList(job) ==
  LET row == lists[job.id]
  IN CASE job.op = "createList" -> [status |-> "active", name |-> job.name, version |-> 1]
       [] job.op = "updateList" -> [row EXCEPT !.name = job.name, !.version = @ + 1]
       [] job.op = "removeList" -> [row EXCEPT !.status = "inactive", !.version = @ + 1]

BugUpdatesAnyVersion(h) == FALSE

\* UPDATE ... WHERE version = expected_version finds no row.
Stale(h) == jobs[h].op = "updateList" /\ lists[jobs[h].id].version # jobs[h].version

\* add, update_details or deactivate, once the row and the index entry are free,
\* and replace_members under the row's lock.
WriteList(h) ==
  LET row == WrittenList(jobs[h])
      taken == row.status = "active" /\ ~(ActiveWith(row.name) \subseteq {jobs[h].id})
  IN /\ jobs[h].phase = "write" /\ jobs[h].id \in List
     /\ \A k \in Handler \ {h} :
          ~Writing(k, jobs[h].id) /\ (row.status = "active" => ~HoldsEntry(k, row.name))
     /\ IF Stale(h) \/ taken
        THEN End(h)
        ELSE row.version <= MaxVersion /\ Go(h, [jobs[h] EXCEPT !.phase = "commit", !.row = row])

CommitList(h) ==
  /\ jobs[h].phase = "commit" /\ jobs[h].id \in List
  /\ lists' = [lists EXCEPT ![jobs[h].id] = jobs[h].row]
  /\ members' = IF jobs[h].op = "removeList" THEN members
                ELSE [members EXCEPT ![jobs[h].id] = jobs[h].members]
  /\ jobs' = [Stirred EXCEPT ![h] = NoJob]
  /\ UNCHANGED <<directory, templates, notes, sent, retry>>

-----------------------------------------------------------------------------
(* Message templates: no version, no removal *)

Named(n) == {m \in Template : templates[m].name = n}

CreateTemplate(h, m, n, c) ==
  /\ templates[m] = NoTemplate /\ Fresh(m)
  /\ Begin(h, [NoJob EXCEPT !.op = "createTemplate", !.phase = "name", !.id = m, !.name = n,
                            !.content = c])

UpdateTemplate(h, m, n, c) ==
  /\ templates[m] # NoTemplate
  /\ Begin(h, [NoJob EXCEPT !.op = "updateTemplate", !.phase = "name", !.id = m, !.name = n,
                            !.content = c])

\* get_by_name: TemplateNameTaken.
CheckTemplateName(h) ==
  /\ jobs[h].phase = "name" /\ jobs[h].op \in {"createTemplate", "updateTemplate"}
  /\ IF Named(jobs[h].name) \subseteq {jobs[h].id}
     THEN Go(h, [jobs[h] EXCEPT !.phase = "write"])
     ELSE End(h)

\* The INSERT or UPDATE, which the unique index refuses for a taken name.
WriteTemplate(h) ==
  /\ jobs[h].phase = "write" /\ jobs[h].id \in Template
  /\ \A k \in Handler \ {h} :
       jobs[k].phase = "commit" /\ jobs[k].id \in Template =>
         /\ jobs[k].id # jobs[h].id
         /\ jobs[h].name \notin {jobs[k].name, templates[jobs[k].id].name}
  /\ IF Named(jobs[h].name) \subseteq {jobs[h].id}
     THEN Go(h, [jobs[h] EXCEPT !.phase = "commit",
                   !.row = [name |-> jobs[h].name, content |-> jobs[h].content]])
     ELSE End(h)

CommitTemplate(h) ==
  /\ jobs[h].phase = "commit" /\ jobs[h].id \in Template
  /\ templates' = [templates EXCEPT ![jobs[h].id] = jobs[h].row]
  /\ jobs' = [jobs EXCEPT ![h] = NoJob]
  /\ UNCHANGED <<directory, groups, notes, sent, retry>>

-----------------------------------------------------------------------------
(* Compose and send: one transaction, from the template's read to the commit *)

\* The template is read; the form fills its slots, in whatever order.
Compose(h, k, m, pick) ==
  /\ notes[k] = NoNote /\ Fresh(k) /\ \A message \in sent : message.note # k
  /\ templates[m] # NoTemplate
  /\ Begin(h, [NoJob EXCEPT !.op = "compose", !.phase = "teams", !.id = k, !.row = m,
                 !.content = templates[m].content, !.pick = pick])

\* Teams first, the row before its members: a removed one is skipped.
ReadTeams(h) ==
  /\ jobs[h].phase = "teams"
  /\ Go(h, [jobs[h] EXCEPT !.found = jobs[h].pick.users,
       !.phase = IF jobs[h].pick.team \in live THEN "teamMembers" ELSE "lists"])

\* list_by_team_id, whatever their status.
ReadTeamMembers(h) ==
  /\ jobs[h].phase = "teamMembers"
  /\ Go(h, [jobs[h] EXCEPT !.phase = "lists",
       !.found = @ \cup {u \in User : people[u].team = jobs[h].pick.team}])

\* Then lists, the row before its members.
ReadLists(h) ==
  /\ jobs[h].phase = "lists"
  /\ Go(h, [jobs[h] EXCEPT !.phase =
       IF \E l \in List : l = jobs[h].pick.list /\ lists[l].status = "active"
       THEN "listMembers" ELSE "users"])

ReadListMembers(h) ==
  /\ jobs[h].phase = "listMembers"
  /\ Go(h, [jobs[h] EXCEPT !.phase = "users", !.found = @ \cup members[jobs[h].pick.list]])

BugSkipsTheStatus(h) ==
  jobs[h].phase = "users" /\ Go(h, [jobs[h] EXCEPT !.phase = "consents"])

\* get_many_by_ids, and the status that resolve() tests.
ReadUsers(h) ==
  /\ jobs[h].phase = "users"
  /\ Go(h, [jobs[h] EXCEPT !.phase = "consents", !.found = {u \in @ : people[u].active}])

\* get_active_by_user_ids: any active consent will do, whatever its number; nobody
\* left is NoRecipientsSelected.
ReadConsents(h) ==
  LET to == {u \in jobs[h].found : people[u].consent # None}
  IN /\ jobs[h].phase = "consents"
     /\ IF to = {} THEN End(h)
        ELSE Go(h, [jobs[h] EXCEPT !.phase = "numbers", !.to = to])

\* get_many_by_ids once more, after bulk_create, with no test of the status: the
\* numbers that the send loop uses.
ReadNumbers(h) ==
  /\ jobs[h].phase = "numbers"
  /\ Go(h, [jobs[h] EXCEPT !.phase = "send",
       !.mobiles = [u \in User |-> IF u \in jobs[h].to THEN people[u].mobile ELSE None]])

BugSendsTheCurrentContent(h) == templates[jobs[h].row].content.sid

SidOf(h) == jobs[h].content.sid

\* One recipient of dispatch_deliveries' loop: accepted or failed.
Send(h, u) ==
  /\ jobs[h].phase = "send" /\ u \in jobs[h].to
  /\ \/ /\ sent' = sent \cup
             {[note |-> jobs[h].id, user |-> u, mobile |-> jobs[h].mobiles[u],
               sid |-> SidOf(h), vars |-> jobs[h].content.slots, retry |-> FALSE]}
        /\ jobs' = [jobs EXCEPT ![h].to = @ \ {u}]
     \/ /\ jobs' = [jobs EXCEPT ![h].to = @ \ {u}, ![h].failed = @ \cup {u}]
        /\ UNCHANGED sent
  /\ UNCHANGED <<directory, groups, templates, notes, retry>>

CommitCompose(h) ==
  /\ jobs[h].phase = "send" /\ jobs[h].to = {}
  /\ notes' = [notes EXCEPT ![jobs[h].id] =
       [template |-> jobs[h].row, vars |-> jobs[h].content.slots, failed |-> jobs[h].failed]]
  /\ jobs' = [jobs EXCEPT ![h] = NoJob]
  /\ UNCHANGED <<directory, groups, templates, sent, retry>>

\* Any request may be lost with its transaction; what was sent stays sent.
Rollback(h) == jobs[h] # NoJob /\ End(h)

-----------------------------------------------------------------------------
(* The retry of a failed delivery *)

\* The notification's template and the user, whatever its status and consent, as
\* they are now ...
RetryRead(k, u) ==
  /\ retry = NoRetry
  /\ u \in notes[k].failed
  /\ retry' = [note |-> k, user |-> u, mobile |-> people[u].mobile,
               sid |-> templates[notes[k].template].content.sid]
  /\ UNCHANGED <<directory, groups, templates, notes, sent, jobs>>

\* ... and the delivery's own content_variables.
RetrySend ==
  LET k == retry.note
  IN /\ k # None
     /\ \/ /\ sent' = sent \cup
                {[note |-> k, user |-> retry.user, mobile |-> retry.mobile,
                  sid |-> retry.sid, vars |-> notes[k].vars, retry |-> TRUE]}
           /\ notes' = [notes EXCEPT ![k].failed = @ \ {retry.user}]
        \/ UNCHANGED <<sent, notes>>
     /\ retry' = NoRetry
     /\ UNCHANGED <<directory, groups, templates, jobs>>

-----------------------------------------------------------------------------

Directory ==
  \/ \E u \in User : RemoveUser(u) \/ RevokeConsent(u)
  \/ \E u \in User, mobile \in Mobile, team \in Team : UpdateUser(u, mobile, team)
  \/ \E u \in User, mobile \in Mobile : GrantConsent(u, mobile)
  \/ \E t \in Team : RemoveTeam(t)

Request(h) ==
  \/ \E l \in List, n \in Name, users \in Roster :
       CreateList(h, l, n, users) \/ UpdateList(h, l, n, users)
  \/ \E l \in List : RemoveList(h, l)
  \/ CheckListName(h) \/ CheckMembers(h) \/ WriteList(h) \/ CommitList(h)
  \/ \E m \in Template, n \in Name, c \in Content :
       CreateTemplate(h, m, n, c) \/ UpdateTemplate(h, m, n, c)
  \/ CheckTemplateName(h) \/ WriteTemplate(h) \/ CommitTemplate(h)
  \/ \E k \in Notification, m \in Template, pick \in Pick : Compose(h, k, m, pick)
  \/ ReadTeams(h) \/ ReadTeamMembers(h) \/ ReadLists(h) \/ ReadListMembers(h)
  \/ ReadUsers(h) \/ ReadConsents(h) \/ ReadNumbers(h)
  \/ (\E u \in User : Send(h, u)) \/ CommitCompose(h)
  \/ Rollback(h)

RetryFailedDeliveries ==
  \/ \E k \in Notification, u \in User : RetryRead(k, u)
  \/ RetrySend

Next == Directory \/ RetryFailedDeliveries \/ \E h \in Handler : Request(h)

Spec == Init /\ [][Next]_vars

-----------------------------------------------------------------------------
(* Properties *)

\* A list's members are replaced only by a request that read the version they are
\* replaced at, so no member edit overwrites one its form did not show, and a
\* removed list stays removed.
NoLostListEdit ==
  [][\A l \in List :
       /\ members'[l] # members[l] =>
            \E h \in Handler : /\ Writing(h, l) /\ jobs'[h] = NoJob
                               /\ jobs[h].version = lists[l].version
       /\ lists[l].status = "inactive" => lists'[l].status = "inactive"]_vars

\* Whom the committed state makes recipients of a selection.
AudienceOf(pick) ==
  {u \in User :
     /\ people[u].active /\ people[u].consent # None
     /\ \/ u \in pick.users
        \/ people[u].team = pick.team /\ people[u].team \in live
        \/ \E l \in List : l = pick.list /\ lists[l].status = "active" /\ u \in members[l]}

\* The statements of a resolution and the later read of the numbers make one
\* audience: unless a user, a consent, a team or a list was committed meanwhile, the
\* send loop starts with the recipients that the committed state gives, at the
\* numbers they have.  It is not said that they consented with these numbers: the
\* resolution asks only whether there is an active consent.
ResolvesOneMoment ==
  \A h \in Handler :
    jobs[h].phase = "send" /\ jobs[h].calm =>
      /\ \A u \in jobs[h].to : jobs[h].mobiles[u] = people[u].mobile
      /\ jobs[h].to \subseteq AudienceOf(jobs[h].pick)
      /\ \A u \in AudienceOf(jobs[h].pick) :
           \/ u \in jobs[h].to \cup jobs[h].failed
           \/ \E m \in sent : m.note = jobs[h].id /\ m.user = u

\* A first send pairs a Content SID with variables in the order of its own slots,
\* also when the template is edited between the request's read and its sends.
FirstSendsMatchTheirTemplate ==
  \A m \in sent :
    ~m.retry => [sid |-> m.sid, slots |-> m.vars] \in Content

\* "If a phone number changes, consent is automatically revoked and delivery is
\* blocked until fresh consent is recorded for the new number" (USER_GUIDE.md): a
\* retry goes to a number that a consent of its recipient was recorded for.
RetriesNeedConsent == \A m \in sent : m.retry => m.mobile \in agreed[m.user]
=============================================================================
