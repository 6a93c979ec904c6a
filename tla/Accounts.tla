------------------------------ MODULE Accounts ------------------------------
(***************************************************************************)
(* Administrator accounts: first-run bootstrap, removal and the guard of   *)
(* the last Administrator, login with its lockout, sessions, and password  *)
(* reset (domain/bootstrap.py, administrators.py, auth.py, sessions.py,    *)
(* password_reset.py and their routes).  A request is one transaction at   *)
(* READ COMMITTED: it acts on what it read, an UPDATE waits for the row's  *)
(* lock, and a transaction-scoped advisory lock lasts until its end.       *)
(***************************************************************************)
EXTENDS Naturals, FiniteSets

CONSTANTS
  Admin,      \* ids of users rows with the role Administrator
  Request,    \* request handlers
  Link,       \* password reset tokens
  Session,    \* access tokens, by jti
  None,       \* SQL NULL, or no such row
  Threshold,  \* login_lockout_threshold
  Duration,   \* login_lockout_duration_minutes
  LinkTtl,    \* password_reset_token_ttl_minutes
  SessionTtl, \* jwt_expiry_minutes
  MaxClock    \* bound: the clock stops here

ASSUME AccountsAssumption ==
  /\ None \notin Admin \cup Link \cup Session
  /\ None \notin Nat
  /\ IsFiniteSet(Admin)
  /\ {Threshold, Duration, LinkTtl, SessionTtl} \subseteq Nat \ {0}
  /\ MaxClock \in Nat

VARIABLES
  users,    \* committed rows of users
  links,    \* committed rows of password_reset_tokens
  sessions, \* access tokens handed out
  revoked,  \* committed rows of revoked_tokens
  tx,       \* what each request has read and written
  clock,
  misses    \* history: wrong passwords committed since the last clear_lockout

vars == <<users, links, sessions, revoked, tx, clock, misses>>

-----------------------------------------------------------------------------
(* Types *)

\* A password is the reset link it was set with, None the first one.
UserRow == [status: {"absent", "active", "inactive"}, fails: Nat,
            locked: Nat \cup {None}, password: Link \cup {None}]

NoRow == [status |-> "absent", fails |-> 0, locked |-> None, password |-> None]

LinkRow == [user: Admin \cup {None}, expires: Nat, used: BOOLEAN]

NoLink == [user |-> None, expires |-> 0, used |-> FALSE]

Token == [user: Admin \cup {None}, expires: Nat]

NoToken == [user |-> None, expires |-> 0]

Op == {"none", "bootstrap", "remove", "login", "forgot", "complete", "logout"}

Phase == {"idle", "lock", "check", "guard", "count", "deactivate", "expired",
          "verify", "miss", "clear", "use", "password", "revoke", "commit"}

\* `read` and `now` are the row and the time the handler's decisions use.
Tx == [op: Op, phase: Phase, user: Admin \cup {None}, read: UserRow, now: Nat,
       row: UserRow, link: Link \cup {None}, session: Session \cup {None},
       missed: BOOLEAN, cleared: BOOLEAN]

Idle == [op |-> "none", phase |-> "idle", user |-> None, read |-> NoRow,
         now |-> 0, row |-> NoRow, link |-> None, session |-> None,
         missed |-> FALSE, cleared |-> FALSE]

TypeOK ==
  /\ users \in [Admin -> UserRow]
  /\ links \in [Link -> LinkRow]
  /\ sessions \in [Session -> Token]
  /\ revoked \subseteq Session
  /\ tx \in [Request -> Tx]
  /\ clock \in Nat
  /\ misses \in [Admin -> Nat]

-----------------------------------------------------------------------------
(* What statements see, and what they wait for *)

Present == {u \in Admin : users[u].status # "absent"}
Active == {u \in Admin : users[u].status = "active"}

Wrote(q, u) == tx[q].row # NoRow /\ tx[q].user = u

RowIsFree(q) == \A s \in Request \ {q} : ~Wrote(s, tx[q].user)

\* The row as q's own transaction has it.
Own(q) == IF tx[q].row = NoRow THEN users[tx[q].user] ELSE tx[q].row

HoldsBootstrapLock(q) ==
  tx[q].op = "bootstrap" /\ tx[q].phase \in {"check", "commit"}

BugReleasesAfterTheCount(q) == tx[q].phase \in {"count", "deactivate"}

\* A target read as inactive passes the guard without the lock.
HoldsRemovalLock(q) ==
  /\ tx[q].op = "remove"
  /\ tx[q].read.status = "active"
  /\ tx[q].phase \in {"count", "deactivate", "commit"}

Begin(q, request) ==
  /\ tx[q].phase = "idle"
  /\ tx' = [tx EXCEPT ![q] = request]
  /\ UNCHANGED <<users, links, sessions, revoked, clock, misses>>

To(q, phase) ==
  /\ tx' = [tx EXCEPT ![q].phase = phase]
  /\ UNCHANGED <<users, links, sessions, revoked, clock, misses>>

Write(q, row, phase) ==
  /\ RowIsFree(q)
  /\ tx' = [tx EXCEPT ![q].row = row, ![q].phase = phase]
  /\ UNCHANGED <<users, links, sessions, revoked, clock, misses>>

\* The transaction ends with nothing written but audit entries.
End(q) ==
  /\ tx' = [tx EXCEPT ![q] = Idle]
  /\ UNCHANGED <<users, links, sessions, revoked, clock, misses>>

Init ==
  /\ users \in [Admin -> {NoRow, [NoRow EXCEPT !.status = "active"]}]
  /\ links = [l \in Link |-> NoLink]
  /\ sessions = [j \in Session |-> NoToken]
  /\ revoked = {}
  /\ tx = [q \in Request |-> Idle]
  /\ clock = 0
  /\ misses = [u \in Admin |-> 0]

\* get_current_session: the token is valid, its user an active Administrator.
CurrentSession(j) ==
  /\ sessions[j].user \in Active
  /\ sessions[j].expires > clock
  /\ j \notin revoked

-----------------------------------------------------------------------------
(* Bootstrap *)

\* create_access_token: the jti is new.  None stands for a token that no request
\* of the instance will carry.
Fresh(j) ==
  j \in Session =>
    /\ sessions[j] = NoToken
    /\ \A s \in Request : tx[s].session # j

Bootstrap(q, u) ==
  /\ users[u].status = "absent"
  /\ \A s \in Request : tx[s].user # u
  /\ Begin(q, [Idle EXCEPT !.op = "bootstrap", !.phase = "lock", !.user = u,
                           !.now = clock])

AcquireBootstrapLock(q) ==
  /\ tx[q].phase = "lock"
  /\ \A s \in Request : ~HoldsBootstrapLock(s)
  /\ To(q, "check")

BugTrustsTheFirstLook(q) ==
  /\ tx[q].phase = "check"
  /\ tx' = [tx EXCEPT ![q].phase = "commit",
                      ![q].row = [NoRow EXCEPT !.status = "active"]]
  /\ UNCHANGED <<users, links, sessions, revoked, clock, misses>>

\* is_required, then the INSERT and a token.
CheckRequired(q) ==
  /\ tx[q].phase = "check"
  /\ \/ /\ Present = {}
        /\ \E j \in Session \cup {None} :
             /\ Fresh(j)
             /\ tx' = [tx EXCEPT ![q].phase = "commit", ![q].session = j,
                                 ![q].row = [NoRow EXCEPT !.status = "active"]]
        /\ UNCHANGED <<users, links, sessions, revoked, clock, misses>>
     \/ Present # {} /\ End(q)

-----------------------------------------------------------------------------
(* Removal *)

RemoveUser(q, j, u) ==
  /\ CurrentSession(j)
  /\ users[u].status # "absent"
  /\ Begin(q, [Idle EXCEPT !.op = "remove", !.user = u, !.read = users[u], !.phase =
                 IF users[u].status = "active" THEN "guard" ELSE "deactivate"])

AcquireRemovalLock(q) ==
  /\ tx[q].phase = "guard"
  /\ \A s \in Request : ~HoldsRemovalLock(s)
  /\ To(q, "count")

CountAdministrators(q) ==
  /\ tx[q].phase = "count"
  /\ IF Cardinality(Active) <= 1 THEN End(q) ELSE To(q, "deactivate")

BugDeletesTheRow(q) ==
  /\ tx[q].phase = "deactivate"
  /\ Write(q, [Own(q) EXCEPT !.status = "deleted"], "commit")

Deactivate(q) ==
  /\ tx[q].phase = "deactivate"
  /\ Write(q, [Own(q) EXCEPT !.status = "inactive"], "commit")

-----------------------------------------------------------------------------
(* Login *)

BugIgnoresTheLock(row, now) == FALSE

Locked(row, now) == row.locked # None /\ row.locked > now

\* The row is read, AccountLocked raised; a stale lock is cleared first.
Login(q, u) ==
  /\ users[u].status # "absent"
  /\ ~(users[u].status = "active" /\ Locked(users[u], clock))
  /\ Begin(q, [Idle EXCEPT !.op = "login", !.user = u, !.now = clock,
                 !.read = users[u], !.phase =
                 IF users[u].locked # None /\ ~Locked(users[u], clock)
                 THEN "expired" ELSE "verify"])

Cleared(row) == [row EXCEPT !.fails = 0, !.locked = None]

\* clear_lockout; `cleared` stands for the handler's own copy, which it resets.
ClearLockout(q) ==
  /\ tx[q].phase \in {"expired", "clear"}
  /\ RowIsFree(q)
  /\ tx' = [tx EXCEPT ![q].row = Cleared(Own(q)), ![q].cleared = TRUE,
                      ![q].phase = IF @ = "expired" THEN "verify" ELSE "commit"]
  /\ UNCHANGED <<users, links, sessions, revoked, clock, misses>>

\* A wrong password, or any for an account that is not active.
RejectPassword(q, password) ==
  /\ tx[q].phase = "verify"
  /\ \/ tx[q].read.status # "active" /\ To(q, "commit")
     \/ /\ tx[q].read.status = "active"
        /\ password # tx[q].read.password
        /\ To(q, "miss")

\* The right one: stale lockout state, as read, is cleared.
AcceptPassword(q, password) ==
  /\ tx[q].phase = "verify"
  /\ tx[q].read.status = "active"
  /\ password = tx[q].read.password
  /\ \E j \in Session \cup {None} :
       /\ Fresh(j)
       /\ tx' = [tx EXCEPT ![q].session = j, ![q].phase =
                   IF ~tx[q].cleared /\ Cleared(tx[q].read) # tx[q].read
                   THEN "clear" ELSE "commit"]
  /\ UNCHANGED <<users, links, sessions, revoked, clock, misses>>

BugCountsFromTheReadRow(q) ==
  LET count == tx[q].read.fails + 1
  IN /\ tx[q].phase = "miss"
     /\ RowIsFree(q)
     /\ tx' = [tx EXCEPT ![q].phase = "commit", ![q].missed = TRUE, ![q].row =
                 [Own(q) EXCEPT !.fails = count, !.locked =
                    IF count >= Threshold THEN tx[q].now + Duration ELSE @]]
     /\ UNCHANGED <<users, links, sessions, revoked, clock, misses>>

\* increment_failed_login_count and, at the threshold, lock_until.
CountMiss(q) ==
  LET count == Own(q).fails + 1
  IN /\ tx[q].phase = "miss"
     /\ RowIsFree(q)
     /\ tx' = [tx EXCEPT ![q].phase = "commit", ![q].missed = TRUE, ![q].row =
                 [Own(q) EXCEPT !.fails = count, !.locked =
                    IF count >= Threshold THEN tx[q].now + Duration ELSE @]]
     /\ UNCHANGED <<users, links, sessions, revoked, clock, misses>>

-----------------------------------------------------------------------------
(* Password reset *)

RequestReset(q, u, l) ==
  /\ users[u].status = "active"
  /\ links[l] = NoLink
  /\ \A s \in Request : tx[s].link # l
  /\ Begin(q, [Idle EXCEPT !.op = "forgot", !.phase = "commit", !.user = u,
                           !.now = clock, !.link = l])

CompleteReset(q, l) ==
  /\ links[l].user # None
  /\ ~links[l].used
  /\ links[l].expires > clock
  /\ users[links[l].user].status = "active"
  /\ Begin(q, [Idle EXCEPT !.op = "complete", !.phase = "use", !.link = l,
                           !.user = links[l].user,
                           !.read = users[links[l].user]])

\* mark_used, by the token's id alone: it only waits for another's UPDATE.
MarkUsed(q) ==
  /\ tx[q].phase = "use"
  /\ \A s \in Request \ {q} :
       ~(tx[s].op = "complete" /\ tx[s].link = tx[q].link
                               /\ tx[s].phase \in {"password", "commit"})
  /\ To(q, "password")

\* update_password and clear_lockout.
UpdatePassword(q) ==
  /\ tx[q].phase = "password"
  /\ RowIsFree(q)
  /\ tx' = [tx EXCEPT ![q].phase = "commit", ![q].cleared = TRUE, ![q].row =
              [Cleared(Own(q)) EXCEPT !.password = tx[q].link]]
  /\ UNCHANGED <<users, links, sessions, revoked, clock, misses>>

-----------------------------------------------------------------------------
(* Logout *)

Logout(q, j) ==
  /\ CurrentSession(j)
  /\ Begin(q, [Idle EXCEPT !.op = "logout", !.phase = "revoke", !.session = j])

\* ON CONFLICT DO NOTHING waits for another's open INSERT of the same jti.
Revoke(q) ==
  /\ tx[q].phase = "revoke"
  /\ \A s \in Request \ {q} :
       ~(tx[s].op = "logout" /\ tx[s].phase = "commit"
                             /\ tx[s].session = tx[q].session)
  /\ To(q, "commit")

-----------------------------------------------------------------------------
(* The end of a transaction *)

NewMisses(q) == (IF tx[q].cleared THEN 0 ELSE misses[tx[q].user])
                  + (IF tx[q].missed THEN 1 ELSE 0)

Commit(q) ==
  /\ tx[q].phase = "commit"
  /\ tx' = [tx EXCEPT ![q] = Idle]
  /\ users' = IF tx[q].row = NoRow THEN users
              ELSE [users EXCEPT ![tx[q].user] = tx[q].row]
  /\ links' = CASE tx[q].op = "forgot" ->
                     [links EXCEPT ![tx[q].link] =
                        [user |-> tx[q].user, used |-> FALSE,
                         expires |-> tx[q].now + LinkTtl]]
                [] tx[q].op = "complete" -> [links EXCEPT ![tx[q].link].used = TRUE]
                [] OTHER -> links
  /\ sessions' = IF tx[q].op \in {"bootstrap", "login"} /\ tx[q].session # None
                 THEN [sessions EXCEPT ![tx[q].session] =
                         [user |-> tx[q].user, expires |-> tx[q].now + SessionTtl]]
                 ELSE sessions
  /\ revoked' = IF tx[q].op = "logout" THEN revoked \cup {tx[q].session} ELSE revoked
  /\ misses' = IF tx[q].row = NoRow THEN misses
               ELSE [misses EXCEPT ![tx[q].user] = NewMisses(q)]
  /\ UNCHANGED clock

\* The handler raises, or its process or connection is lost.
Rollback(q) == tx[q].phase # "idle" /\ End(q)

Tick ==
  /\ clock < MaxClock
  /\ clock' = clock + 1
  /\ UNCHANGED <<users, links, sessions, revoked, tx, misses>>

Arrival(q) ==
  \/ \E u \in Admin : Bootstrap(q, u) \/ Login(q, u)
  \/ \E u \in Admin, j \in Session : RemoveUser(q, j, u)
  \/ \E u \in Admin, l \in Link : RequestReset(q, u, l)
  \/ \E l \in Link : CompleteReset(q, l)
  \/ \E j \in Session : Logout(q, j)

Statement(q) ==
  \/ AcquireBootstrapLock(q)
  \/ CheckRequired(q)
  \/ AcquireRemovalLock(q)
  \/ CountAdministrators(q)
  \/ Deactivate(q)
  \/ ClearLockout(q)
  \/ \E password \in Link \cup {None} :
       RejectPassword(q, password) \/ AcceptPassword(q, password)
  \/ CountMiss(q)
  \/ MarkUsed(q)
  \/ UpdatePassword(q)
  \/ Revoke(q)
  \/ Commit(q)

Next == Tick \/ \E q \in Request : Arrival(q) \/ Statement(q) \/ Rollback(q)

Spec == Init /\ [][Next]_vars

-----------------------------------------------------------------------------
(* Properties *)

\* LastAdministratorGuard: concurrent removals never leave the system without
\* an active Administrator, although each counts before it writes.
LastAdministratorStays == Present # {} => Active # {}

\* Every wrong password counts, also when several are tried at the same moment
\* (increment_failed_login_count's atomic UPDATE): Threshold of them since the
\* counter was last cleared always leave the account locked.
LockoutEngages ==
  \A u \in Admin : misses[u] >= Threshold => users[u].locked # None

\* A lock in force is changed only by a completed reset or by a login that
\* read the account before that lock was set; nobody who met the lock undoes it.
LockHolds ==
  [][\A u \in Admin :
       /\ users[u].locked # None /\ users[u].locked > clock
       /\ users'[u].locked # users[u].locked
       => \E q \in Request :
            /\ tx[q].user = u /\ tx'[q] = Idle
            /\ \/ tx[q].op = "complete"
               \/ /\ tx[q].op = "login"
                  /\ tx[q].read.locked # users[u].locked]_vars

\* Accounts implements AdminRoster: founding and retiring are all that the races
\* of bootstraps, removals, logins and resets do to the set of Administrators.
Roster == INSTANCE AdminRoster WITH present <- Present, active <- Active

KeepsRoster == Roster!Spec

=============================================================================
