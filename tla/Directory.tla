----------------------------- MODULE Directory -----------------------------
(***************************************************************************)
(* The recipient directory's users and their WhatsApp consents under       *)
(* concurrent requests (domain/recipients.py, api/recipients/routes.py).   *)
(* Every request is one transaction of PostgreSQL at READ COMMITTED: each  *)
(* statement sees what was committed when it started, a written row is     *)
(* locked until the transaction ends, and an entry of a unique index that  *)
(* an open transaction adds or replaces makes a second writer of the same  *)
(* key wait.  Administrators and teams are not in this module.             *)
(***************************************************************************)
EXTENDS Naturals

CONSTANTS
  User,        \* users rows, by id
  Mobile,      \* phone numbers
  Request,     \* request handlers
  None,        \* SQL NULL
  MaxVersion   \* bound: no row is written beyond this version

ASSUME DirectoryAssumption ==
  /\ None \notin Mobile
  /\ None \notin User
  /\ MaxVersion \in Nat \ {0}

VARIABLES
  users,     \* committed rows of users
  consents,  \* committed rows of opt_in_consents that are not revoked
  tx,        \* what each request has read and written
  raced      \* history: users for whom a grant and an edit overlapped

vars == <<users, consents, tx, raced>>

-----------------------------------------------------------------------------
(* Types *)

NoRow == [status |-> "absent", mobile |-> None, version |-> 0]

UserRow ==
  {NoRow} \cup [status: {"active", "inactive"}, mobile: Mobile,
                version: 1..MaxVersion]

\* `by` tells apart two consents of a user for the same number.
Consent == [user: User, mobile: Mobile, by: Request]

Op == {"none", "create", "update", "remove", "grant", "revoke"}

Phase == {"idle", "number", "lock", "index", "active", "insert",
          "scan", "revoke", "commit"}

\* `target` is what get_by_id returned, where a later statement uses it.
Tx == [op: Op, phase: Phase, user: User \cup {None}, mobile: Mobile \cup {None},
       target: UserRow, row: UserRow,
       seen: SUBSET Consent, granted: SUBSET Consent, revoked: SUBSET Consent]

Idle == [op |-> "none", phase |-> "idle", user |-> None, mobile |-> None,
         target |-> NoRow, row |-> NoRow,
         seen |-> {}, granted |-> {}, revoked |-> {}]

TypeOK ==
  /\ users \in [User -> UserRow]
  /\ consents \subseteq Consent
  /\ tx \in [Request -> Tx]
  /\ raced \subseteq User

-----------------------------------------------------------------------------
(* What statements see and what they wait for *)

ConsentsOf(u) == {c \in consents : c.user = u}

\* get_by_mobile, and the partial unique index on users.mobile.
ActiveWith(m) == {u \in User : users[u].status = "active" /\ users[u].mobile = m}

Wrote(r, u) == tx[r].row # NoRow /\ tx[r].user = u

\* r's open transaction adds or replaces an index entry of number m.
HoldsNumber(r, m) ==
  /\ tx[r].row # NoRow
  /\ \/ tx[r].user \in ActiveWith(m)
     \/ /\ tx[r].phase \in {"scan", "revoke", "commit"}
        /\ tx[r].row.status = "active"
        /\ tx[r].row.mobile = m

\* The requests whose transactions must end before r's statement can.
Blockers(r) ==
  {s \in Request \ {r} :
     \/ tx[r].phase = "lock" /\ Wrote(s, tx[r].user)
     \/ tx[r].phase = "index" /\ tx[r].row.status = "active"
                              /\ HoldsNumber(s, tx[r].row.mobile)
     \/ tx[r].phase = "insert" /\ tx[r].op = "create"
                               /\ HoldsNumber(s, tx[r].mobile)
     \/ tx[r].phase = "insert" /\ tx[r].op = "grant"
          /\ \E c \in tx[s].granted \cup tx[s].revoked : c.user = tx[r].user
     \/ tx[r].phase = "revoke" /\ tx[s].revoked \cap tx[r].seen # {}}

Free(r) == Blockers(r) = {}

To(r, phase) == tx' = [tx EXCEPT ![r].phase = phase]

End(r) == tx' = [tx EXCEPT ![r] = Idle]

Init ==
  /\ users \in [User -> {NoRow} \cup
                   [status: {"active"}, mobile: Mobile, version: {1}]]
  /\ \A m \in Mobile : \A u, w \in ActiveWith(m) : u = w
  /\ consents = {}
  /\ tx = [r \in Request |-> Idle]
  /\ raced = {}

-----------------------------------------------------------------------------
(* Requests arrive, and look up their user. *)

Overlaps(op, u) ==
  \E s \in Request : tx[s].user = u /\ {op, tx[s].op} = {"grant", "update"}

Begin(r, request) ==
  /\ tx[r].phase = "idle"
  /\ tx' = [tx EXCEPT ![r] = request]
  /\ raced' = IF Overlaps(request.op, request.user)
              THEN raced \cup {request.user} ELSE raced
  /\ UNCHANGED <<users, consents>>

CreateUser(r, u, m) ==
  /\ users[u].status = "absent"
  /\ \A s \in Request : tx[s].user # u
  /\ Begin(r, [Idle EXCEPT !.op = "create", !.phase = "number",
                           !.user = u, !.mobile = m])

\* An edit whose form is older than the row ends here, with VersionConflict.
UpdateUser(r, u, m) ==
  /\ users[u].status # "absent"
  /\ Begin(r, [Idle EXCEPT !.op = "update", !.phase = "number",
                           !.user = u, !.mobile = m, !.target = users[u]])

RemoveUser(r, u) ==
  /\ users[u].status # "absent"
  /\ Begin(r, [Idle EXCEPT !.op = "remove", !.phase = "lock", !.user = u])

GrantConsent(r, u) ==
  /\ users[u].status # "absent"
  /\ Begin(r, [Idle EXCEPT !.op = "grant", !.phase = "active", !.user = u,
                           !.target = users[u]])

RevokeConsent(r, u) ==
  /\ users[u].status # "absent"
  /\ Begin(r, [Idle EXCEPT !.op = "revoke", !.phase = "active", !.user = u])

-----------------------------------------------------------------------------
(* Their statements *)

BugLeavesItToTheIndex(r) ==
  /\ tx[r].phase = "number"
  /\ To(r, IF tx[r].op = "create" THEN "insert" ELSE "lock")
  /\ UNCHANGED <<users, consents, raced>>

\* get_by_mobile: MobileTaken when somebody else has the number.
CheckNumber(r) ==
  /\ tx[r].phase = "number"
  /\ IF ActiveWith(tx[r].mobile) \subseteq {tx[r].user}
     THEN To(r, IF tx[r].op = "create" THEN "insert" ELSE "lock")
     ELSE End(r)
  /\ UNCHANGED <<users, consents, raced>>

\* update_directory_fields' WHERE clause on the row as it is once r may write.
Matches(r, row) == row.version = tx[r].target.version

BugRemoveKeepsVersion(r, row) ==
  IF tx[r].op = "update"
  THEN [row EXCEPT !.mobile = tx[r].mobile, !.version = @ + 1]
  ELSE [row EXCEPT !.status = "inactive"]

\* The new version of the row: SET mobile, or SET status = inactive.
Written(r, row) ==
  IF tx[r].op = "update"
  THEN [row EXCEPT !.mobile = tx[r].mobile, !.version = @ + 1]
  ELSE [row EXCEPT !.status = "inactive", !.version = @ + 1]

BugSavesTheRowItRead(r) ==
  LET row == users[tx[r].user]
  IN /\ tx[r].phase = "lock"
     /\ Free(r)
     /\ row.version < MaxVersion
     /\ tx' = IF tx[r].op = "update"
              THEN [tx EXCEPT ![r].phase = "index", ![r].row =
                      [tx[r].target EXCEPT !.mobile = tx[r].mobile,
                                           !.version = row.version + 1]]
              ELSE [tx EXCEPT ![r].phase = "commit", ![r].row = Written(r, row)]
     /\ UNCHANGED <<users, consents, raced>>

\* UPDATE users ... WHERE id = u [AND version = v]: first the row's lock.
WriteUser(r) ==
  LET row == users[tx[r].user]
      admitted == tx[r].op = "remove" \/ Matches(r, row)
  IN /\ tx[r].phase = "lock"
     /\ Free(r)
     /\ \/ /\ admitted
           /\ row.version < MaxVersion
           /\ tx' = [tx EXCEPT ![r].row = Written(r, row), ![r].phase =
                       IF tx[r].op = "update" THEN "index" ELSE "commit"]
        \/ /\ ~admitted
           /\ End(r)
     /\ UNCHANGED <<users, consents, raced>>

BugComparesAfterTheUpdate(r) == tx[r].row.mobile # tx[r].mobile

\* mobile_changed: against the row as get_by_id returned it.
MobileChanged(r) == tx[r].target.mobile # tx[r].mobile

BugNoMobileIndex(r, m) == FALSE

\* ix_users_mobile_active_uq refuses number m.
Taken(r, m) == ~(ActiveWith(m) \subseteq {tx[r].user})

\* The same UPDATE then enters the row into the unique index; a duplicate rolls
\* the transaction back.
IndexNumber(r) ==
  /\ tx[r].phase = "index"
  /\ Free(r)
  /\ IF tx[r].row.status = "active" /\ Taken(r, tx[r].mobile)
     THEN End(r)
     ELSE To(r, IF MobileChanged(r) THEN "scan" ELSE "commit")
  /\ UNCHANGED <<users, consents, raced>>

BugInsertsVersionZero(r) ==
  /\ tx[r].phase = "insert"
  /\ tx[r].op = "create"
  /\ Free(r)
  /\ users' = IF Taken(r, tx[r].mobile) THEN users
              ELSE [users EXCEPT ![tx[r].user] =
                      [status |-> "active", mobile |-> tx[r].mobile, version |-> 0]]
  /\ End(r)
  /\ UNCHANGED <<consents, raced>>

\* create_user is flushed by its commit.
InsertUser(r) ==
  /\ tx[r].phase = "insert"
  /\ tx[r].op = "create"
  /\ Free(r)
  /\ users' = IF Taken(r, tx[r].mobile) THEN users
              ELSE [users EXCEPT ![tx[r].user] =
                      [status |-> "active", mobile |-> tx[r].mobile, version |-> 1]]
  /\ End(r)
  /\ UNCHANGED <<consents, raced>>

\* get_active: a grant wants none, a revocation wants one.
CheckConsent(r) ==
  /\ tx[r].phase = "active"
  /\ IF ConsentsOf(tx[r].user) = {} <=> tx[r].op = "grant"
     THEN To(r, IF tx[r].op = "grant" THEN "insert" ELSE "scan")
     ELSE End(r)
  /\ UNCHANGED <<users, consents, raced>>

BugNoConsentIndex(r) ==
  /\ tx[r].phase = "insert"
  /\ tx[r].op = "grant"
  /\ tx' = [tx EXCEPT ![r].phase = "commit", ![r].granted =
              {[user |-> tx[r].user, mobile |-> tx[r].target.mobile, by |-> r]}]
  /\ UNCHANGED <<users, consents, raced>>

\* grant's INSERT, with the number as it was read; a second active consent is
\* refused by ix_opt_in_consents_user_id_active_uq.
InsertConsent(r) ==
  /\ tx[r].phase = "insert"
  /\ tx[r].op = "grant"
  /\ Free(r)
  /\ IF ConsentsOf(tx[r].user) # {} THEN End(r)
     ELSE tx' = [tx EXCEPT ![r].phase = "commit", ![r].granted =
                  {[user |-> tx[r].user, mobile |-> tx[r].target.mobile, by |-> r]}]
  /\ UNCHANGED <<users, consents, raced>>

\* revoke_active, as its UPDATE starts: the rows it will try to write.
ScanConsents(r) ==
  /\ tx[r].phase = "scan"
  /\ tx' = [tx EXCEPT ![r].phase = "revoke", ![r].seen = ConsentsOf(tx[r].user)]
  /\ UNCHANGED <<users, consents, raced>>

\* ... and once it holds them; rows another request revoked have left `seen`.
RevokeConsents(r) ==
  /\ tx[r].phase = "revoke"
  /\ Free(r)
  /\ IF tx[r].op = "revoke" /\ tx[r].seen = {} THEN End(r)
     ELSE tx' = [tx EXCEPT ![r].phase = "commit", ![r].revoked = tx[r].seen,
                           ![r].seen = {}]
  /\ UNCHANGED <<users, consents, raced>>

Commit(r) ==
  /\ tx[r].phase = "commit"
  /\ users' = IF tx[r].row = NoRow THEN users
              ELSE [users EXCEPT ![tx[r].user] = tx[r].row]
  /\ consents' = (consents \ tx[r].revoked) \cup tx[r].granted
  /\ tx' = [s \in Request |->
             IF s = r THEN Idle
             ELSE [tx[s] EXCEPT !.seen = @ \ tx[r].revoked]]
  /\ UNCHANGED raced

\* The handler raises, or its process or connection is lost.
Rollback(r) ==
  /\ tx[r].phase # "idle"
  /\ End(r)
  /\ UNCHANGED <<users, consents, raced>>

Statement(r) ==
  \/ CheckNumber(r)
  \/ WriteUser(r)
  \/ IndexNumber(r)
  \/ InsertUser(r)
  \/ CheckConsent(r)
  \/ InsertConsent(r)
  \/ ScanConsents(r)
  \/ RevokeConsents(r)
  \/ Commit(r)

Next ==
  \E r \in Request :
    \/ \E u \in User, m \in Mobile : CreateUser(r, u, m) \/ UpdateUser(r, u, m)
    \/ \E u \in User : RemoveUser(r, u) \/ GrantConsent(r, u) \/ RevokeConsent(r, u)
    \/ Statement(r)
    \/ Rollback(r)

Spec == Init /\ [][Next]_vars

-----------------------------------------------------------------------------
(* Properties *)

\* No two active users share a number, although create_user and update_user
\* look before they write and a second request may write in between.
ActiveMobileUnique ==
  \A u, w \in User :
    /\ users[u].status = "active" /\ users[w].status = "active"
    /\ users[u].mobile = users[w].mobile
    => u = w

\* At most one consent of a user is active, whoever grants at the same time.
OneActiveConsent == \A c, d \in consents : c.user = d.user => c = d

\* An edit replaces exactly the row its Administrator saw: no concurrent edit or
\* removal is lost (the version checks of update_user, deactivate's increment).
EditsWhatWasSeen ==
  [][\A r \in Request :
       tx[r].op = "update" /\ users' # users /\ tx'[r] = Idle /\ tx[r] # Idle
         => users[tx[r].user] = tx[r].target]_vars

\* A removed user never comes back to life through a concurrent edit.
RemovedStaysRemoved ==
  [][\A u \in User :
       users[u].status = "inactive" => users'[u].status = "inactive"]_vars

\* Requests never wait for each other in a circle, although an edit takes its
\* row's lock before it enters its number into the unique index: no route
\* handles the error PostgreSQL would break such a circle with.
NoWaitCycle ==
  \A circle \in (SUBSET Request) \ {{}} :
    \E r \in circle : Blockers(r) \cap circle = {}

\* "If a User's phone number changes, consent is automatically revoked and
\* delivery is blocked until fresh consent is recorded for the new number"
\* (USER_GUIDE.md): an active consent is for the number the user has.
ConsentFollowsNumber == \A c \in consents : c.mobile = users[c.user].mobile

\* It does, unless a grant and an edit of the same user overlapped.
OnlyRacesSplitConsent ==
  \A c \in consents : c.user \notin raced => c.mobile = users[c.user].mobile
=============================================================================
