--------------------------- MODULE AccountsProofs ---------------------------
(***************************************************************************)
(* Proofs about Accounts, for any sets of Administrators, requests, links  *)
(* and tokens: types, the guard of the last Administrator, and that        *)
(* Accounts implements AdminRoster.                                        *)
(***************************************************************************)
EXTENDS Accounts, FiniteSetTheorems, TLAPS

-----------------------------------------------------------------------------
(* The inductive invariant *)

\* Which statements a request of each kind runs, and who it is about.
Flow(q) ==
  /\ tx[q].op = "none" <=> tx[q].phase = "idle"
  /\ tx[q].op = "bootstrap" => tx[q].phase \in {"lock", "check", "commit"}
  /\ tx[q].op = "remove" => tx[q].phase \in {"guard", "count", "deactivate", "commit"}
  /\ tx[q].op = "login" =>
       tx[q].phase \in {"expired", "verify", "miss", "clear", "commit"}
  /\ tx[q].op = "forgot" => tx[q].phase = "commit"
  /\ tx[q].op = "complete" => tx[q].phase \in {"use", "password", "commit"}
  /\ tx[q].op = "logout" => tx[q].phase \in {"revoke", "commit"}
  /\ tx[q].op \notin {"none", "logout"} => tx[q].user \in Admin
  /\ tx[q].op = "logout" => tx[q].session \in Session
  /\ tx[q].phase \in {"guard", "count"} => tx[q].read.status = "active"

\* What a request has written: only a bootstrap and a removal change a status.
Pending(q) ==
  tx[q].row # NoRow =>
    /\ tx[q].op \in {"bootstrap", "remove", "login", "complete"}
    /\ tx[q].op = "bootstrap" => tx[q].row.status = "active" /\ tx[q].phase = "commit"
    /\ tx[q].op = "remove" => tx[q].row.status = "inactive"
    /\ tx[q].op \in {"login", "complete"} =>
         tx[q].row.status = users[tx[q].user].status

\* What a request has read and nobody takes back.
Known(q) ==
  /\ tx[q].op \in {"remove", "login", "forgot", "complete"} =>
       users[tx[q].user].status # "absent"
  /\ tx[q].op = "remove" /\ tx[q].read.status # "active" =>
       users[tx[q].user].status = "inactive"
  /\ tx[q].op = "bootstrap" /\ tx[q].phase = "commit" =>
       \A u \in Admin : users[u].status = "absent"

\* What the count has shown, as long as the advisory lock is held.
Guarded(q) ==
  HoldsRemovalLock(q) /\ tx[q].phase \in {"deactivate", "commit"} =>
    \E v \in Admin : v # tx[q].user /\ users[v].status = "active"

\* The advisory locks have one holder, and so has a row that is being written.
Apart(q, s) ==
  /\ ~(HoldsBootstrapLock(q) /\ HoldsBootstrapLock(s))
  /\ ~(HoldsRemovalLock(q) /\ HoldsRemovalLock(s))
  /\ ~(tx[q].row # NoRow /\ tx[s].row # NoRow /\ tx[q].user = tx[s].user)

IInv ==
  /\ TypeOK
  /\ \A q \in Request : Flow(q) /\ Pending(q) /\ Known(q) /\ Guarded(q)
  /\ \A q, s \in Request : q # s => Apart(q, s)
  /\ LastAdministratorStays

LEMMA InitInv == Init => IInv
  <1> SUFFICES ASSUME Init PROVE IInv
    OBVIOUS
  <1> USE AccountsAssumption
  <1>1. NoRow \in UserRow /\ Idle \in Tx
    BY DEF NoRow, UserRow, Idle, Tx, Op, Phase
  <1>2. \A q \in Request : tx[q] = Idle
    BY DEF Init
  <1>3. TypeOK
    BY <1>1 DEF Init, TypeOK, NoRow, UserRow, NoLink, LinkRow, NoToken, Token
  <1>4. \A q \in Request : Flow(q) /\ Pending(q) /\ Known(q) /\ Guarded(q)
    BY <1>2 DEF Idle, Flow, Pending, Known, Guarded, HoldsRemovalLock
  <1>5. \A q, s \in Request : Apart(q, s)
    BY <1>2 DEF Idle, Apart, HoldsRemovalLock, HoldsBootstrapLock
  <1>6. LastAdministratorStays
    BY DEF Init, LastAdministratorStays, Present, Active, NoRow
  <1> QED
    BY <1>3, <1>4, <1>5, <1>6 DEF IInv

-----------------------------------------------------------------------------
(* Steps of one request that leave the users alone *)

LEMMA RequestStep ==
  ASSUME IInv, NEW q \in Request,
         tx' = [tx EXCEPT ![q] = tx'[q]], TypeOK', users' = users,
         Flow(q)', Pending(q)', Known(q)', Guarded(q)',
         \A s \in Request \ {q} : Apart(q, s)'
  PROVE  IInv'
  <1>2. \A s \in Request \ {q} : tx'[s] = tx[s]
    BY DEF IInv, TypeOK
  <1>3. ASSUME NEW s \in Request PROVE (Flow(s) /\ Pending(s) /\ Known(s) /\ Guarded(s))'
    <2>1. CASE s = q
      BY <2>1
    <2>2. CASE s # q
      BY <1>2, <2>2 DEF IInv, Flow, Pending, Known, Guarded, HoldsRemovalLock
    <2> QED
      BY <2>1, <2>2
  <1>4. ASSUME NEW r \in Request, NEW s \in Request, r # s PROVE Apart(r, s)'
    <2>1. CASE r = q
      BY <2>1, <1>4
    <2>2. CASE s = q
      <3>1. Apart(q, r)'
        BY <2>2, <1>4
      <3> QED
        BY <3>1, <2>2 DEF Apart
    <2>3. CASE r # q /\ s # q
      BY <1>2, <1>4, <2>3 DEF IInv, Apart, HoldsRemovalLock, HoldsBootstrapLock
    <2> QED
      BY <2>1, <2>2, <2>3
  <1>5. LastAdministratorStays'
    BY DEF IInv, LastAdministratorStays, Present, Active
  <1> QED
    BY <1>3, <1>4, <1>5 DEF IInv

\* What an idle request and an absent row look like.
LEMMA Blank ==
  /\ Idle \in Tx /\ NoRow \in UserRow
  /\ Idle.op = "none" /\ Idle.phase = "idle" /\ Idle.row = NoRow
  /\ Idle.read = NoRow /\ NoRow.status = "absent"
  BY AccountsAssumption DEF Idle, NoRow, UserRow, Tx, Op, Phase

LEMMA ActiveRow == [NoRow EXCEPT !.status = "active"] \in UserRow \ {NoRow}
  <1>1. [NoRow EXCEPT !.status = "active"].status = "active"
    BY DEF NoRow
  <1>2. [NoRow EXCEPT !.status = "active"] \in UserRow
    BY Blank DEF UserRow
  <1> QED
    BY <1>1, <1>2, Blank

\* A new request holds no lock and has written nothing.
LEMMA BeginInv ==
  ASSUME IInv, NEW q \in Request, NEW request \in Tx, Begin(q, request),
         request.row = NoRow,
         request.phase \notin {"check", "count"},
         request.op = "bootstrap" => request.phase = "lock",
         request.op = "remove" => request.phase = "guard" \/ request.read.status # "active",
         Flow(q)', Known(q)'
  PROVE  IInv'
  <1>1. tx'[q] = request /\ tx' = [tx EXCEPT ![q] = tx'[q]]
    BY DEF IInv, TypeOK, Begin
  <1>2. Pending(q)'
    BY <1>1 DEF Pending
  <1>3. Guarded(q)' /\ ~HoldsRemovalLock(q)' /\ ~HoldsBootstrapLock(q)'
    BY <1>1 DEF Guarded, HoldsRemovalLock, HoldsBootstrapLock, Flow
  <1>4. \A s \in Request \ {q} : Apart(q, s)'
    BY <1>1, <1>3 DEF Apart
  <1>5. TypeOK' /\ users' = users
    BY <1>1 DEF IInv, TypeOK, Begin
  <1> QED
    BY <1>1, <1>2, <1>3, <1>4, <1>5, RequestStep

LEMMA EndInv == ASSUME IInv, NEW q \in Request, End(q) PROVE IInv'
  <1>1. tx'[q] = Idle /\ tx' = [tx EXCEPT ![q] = tx'[q]]
    BY DEF IInv, TypeOK, End
  <1>2. (Flow(q) /\ Pending(q) /\ Known(q) /\ Guarded(q))'
    BY <1>1, Blank DEF Flow, Pending, Known, Guarded, HoldsRemovalLock
  <1>3. \A s \in Request \ {q} : Apart(q, s)'
    BY <1>1, Blank DEF Apart, HoldsRemovalLock, HoldsBootstrapLock
  <1>4. TypeOK' /\ users' = users
    BY <1>1, Blank DEF IInv, TypeOK, End
  <1> QED
    BY <1>1, <1>2, <1>3, <1>4, RequestStep

LEMMA TickInv == ASSUME IInv, Tick PROVE IInv'
  <1>1. TypeOK'
    BY AccountsAssumption DEF IInv, TypeOK, Tick
  <1>2. \A q \in Request : (Flow(q) /\ Pending(q) /\ Known(q) /\ Guarded(q))'
    BY DEF IInv, Tick, Flow, Pending, Known, Guarded, HoldsRemovalLock
  <1>3. \A q, s \in Request : q # s => Apart(q, s)'
    BY DEF IInv, Tick, Apart, HoldsRemovalLock, HoldsBootstrapLock
  <1> QED
    BY <1>1, <1>2, <1>3 DEF IInv, Tick, LastAdministratorStays, Present, Active

-----------------------------------------------------------------------------
(* Requests that arrive *)

LEMMA BootstrapInv ==
  ASSUME IInv, NEW q \in Request, NEW u \in Admin, Bootstrap(q, u) PROVE IInv'
  <1> DEFINE request == [Idle EXCEPT !.op = "bootstrap", !.phase = "lock", !.user = u,
                                     !.now = clock]
  <1>1. /\ request \in Tx /\ request.op = "bootstrap" /\ request.phase = "lock"
        /\ request.row = NoRow /\ request.user = u
    BY Blank DEF IInv, TypeOK, Tx, Op, Phase
  <1>2. Begin(q, request) /\ tx'[q] = request
    BY DEF Bootstrap, Begin, IInv, TypeOK
  <1> HIDE DEF request
  <1>3. Flow(q)' /\ Known(q)'
    BY <1>1, <1>2 DEF Flow, Known
  <1> QED
    BY <1>1, <1>2, <1>3, BeginInv

LEMMA LoginInv ==
  ASSUME IInv, NEW q \in Request, NEW u \in Admin, Login(q, u) PROVE IInv'
  <1> DEFINE request == [Idle EXCEPT !.op = "login", !.user = u, !.now = clock,
                 !.read = users[u], !.phase =
                 IF users[u].locked # None /\ ~Locked(users[u], clock)
                 THEN "expired" ELSE "verify"]
  <1>1. /\ request \in Tx /\ request.op = "login" /\ request.phase \in {"expired", "verify"}
        /\ request.row = NoRow /\ request.user = u
    BY Blank DEF IInv, TypeOK, Tx, Op, Phase
  <1>2. Begin(q, request) /\ tx'[q] = request /\ users[u].status # "absent" /\ users' = users
    BY DEF Login, Begin, IInv, TypeOK
  <1> HIDE DEF request
  <1>3. Flow(q)' /\ Known(q)'
    BY <1>1, <1>2 DEF Flow, Known
  <1> QED
    BY <1>1, <1>2, <1>3, BeginInv

LEMMA RemoveUserInv ==
  ASSUME IInv, NEW q \in Request, NEW j \in Session, NEW u \in Admin, RemoveUser(q, j, u)
  PROVE  IInv'
  <1> DEFINE request == [Idle EXCEPT !.op = "remove", !.user = u, !.read = users[u], !.phase =
                           IF users[u].status = "active" THEN "guard" ELSE "deactivate"]
  <1>1. /\ request \in Tx /\ request.op = "remove" /\ request.read = users[u]
        /\ request.phase = IF users[u].status = "active" THEN "guard" ELSE "deactivate"
        /\ request.row = NoRow /\ request.user = u
    BY Blank DEF IInv, TypeOK, Tx, Op, Phase
  <1>2. /\ Begin(q, request) /\ tx'[q] = request /\ users' = users
        /\ users[u].status \in {"active", "inactive"}
    BY DEF RemoveUser, Begin, IInv, TypeOK, UserRow
  <1> HIDE DEF request
  <1>3. Flow(q)' /\ Known(q)'
    BY <1>1, <1>2 DEF Flow, Known
  <1> QED
    BY <1>1, <1>2, <1>3, BeginInv

LEMMA RequestResetInv ==
  ASSUME IInv, NEW q \in Request, NEW u \in Admin, NEW l \in Link, RequestReset(q, u, l)
  PROVE  IInv'
  <1> DEFINE request == [Idle EXCEPT !.op = "forgot", !.phase = "commit", !.user = u,
                                     !.now = clock, !.link = l]
  <1>1. /\ request \in Tx /\ request.op = "forgot" /\ request.phase = "commit"
        /\ request.row = NoRow /\ request.user = u
    BY Blank DEF IInv, TypeOK, Tx, Op, Phase
  <1>2. Begin(q, request) /\ tx'[q] = request /\ users[u].status = "active" /\ users' = users
    BY DEF RequestReset, Begin, IInv, TypeOK
  <1> HIDE DEF request
  <1>3. Flow(q)' /\ Known(q)'
    BY <1>1, <1>2 DEF Flow, Known
  <1> QED
    BY <1>1, <1>2, <1>3, BeginInv

LEMMA CompleteResetInv ==
  ASSUME IInv, NEW q \in Request, NEW l \in Link, CompleteReset(q, l) PROVE IInv'
  <1> DEFINE u == links[l].user
             request == [Idle EXCEPT !.op = "complete", !.phase = "use", !.link = l,
                                     !.user = u, !.read = users[u]]
  <1>1. u \in Admin
    BY DEF CompleteReset, IInv, TypeOK, LinkRow
  <1> HIDE DEF u
  <1>2. /\ request \in Tx /\ request.op = "complete" /\ request.phase = "use"
        /\ request.row = NoRow /\ request.user = u
    BY <1>1, Blank DEF IInv, TypeOK, Tx, Op, Phase
  <1>3. Begin(q, request) /\ tx'[q] = request /\ users[u].status = "active" /\ users' = users
    BY DEF CompleteReset, Begin, IInv, TypeOK, u
  <1> HIDE DEF request
  <1>4. Flow(q)' /\ Known(q)'
    BY <1>1, <1>2, <1>3 DEF Flow, Known
  <1> QED
    BY <1>2, <1>3, <1>4, BeginInv

LEMMA LogoutInv ==
  ASSUME IInv, NEW q \in Request, NEW j \in Session, Logout(q, j) PROVE IInv'
  <1> DEFINE request == [Idle EXCEPT !.op = "logout", !.phase = "revoke", !.session = j]
  <1>1. /\ request \in Tx /\ request.op = "logout" /\ request.phase = "revoke"
        /\ request.row = NoRow /\ request.session = j
    BY Blank DEF IInv, TypeOK, Tx, Op, Phase
  <1>2. Begin(q, request) /\ tx'[q] = request
    BY DEF Logout, Begin, IInv, TypeOK
  <1> HIDE DEF request
  <1>3. Flow(q)' /\ Known(q)'
    BY <1>1, <1>2 DEF Flow, Known
  <1> QED
    BY <1>1, <1>2, <1>3, BeginInv

-----------------------------------------------------------------------------
(* Statements *)

\* A statement keeps what it is about; a lock it takes is free, and so is a row
\* it is the first to write.
LEMMA StatementStep ==
  ASSUME IInv, NEW q \in Request,
         tx' = [tx EXCEPT ![q] = tx'[q]], tx'[q] \in Tx,
         UNCHANGED <<users, links, sessions, revoked, clock, misses>>,
         tx'[q].user = tx[q].user,
         Flow(q)', Pending(q)', Known(q)', Guarded(q)',
         HoldsBootstrapLock(q)' =>
           HoldsBootstrapLock(q) \/ \A s \in Request : ~HoldsBootstrapLock(s),
         HoldsRemovalLock(q)' =>
           HoldsRemovalLock(q) \/ \A s \in Request : ~HoldsRemovalLock(s),
         tx'[q].row # NoRow => tx[q].row # NoRow \/ RowIsFree(q)
  PROVE  IInv'
  <1>1. \A s \in Request \ {q} : tx'[s] = tx[s]
    BY DEF IInv, TypeOK
  <1>2. ASSUME NEW s \in Request \ {q} PROVE Apart(q, s)'
    <2>1. Apart(q, s)
      BY DEF IInv
    <2>2. HoldsBootstrapLock(s)' = HoldsBootstrapLock(s)
      BY <1>1 DEF HoldsBootstrapLock
    <2>3. HoldsRemovalLock(s)' = HoldsRemovalLock(s)
      BY <1>1 DEF HoldsRemovalLock
    <2>4. ~(tx'[q].row # NoRow /\ tx'[s].row # NoRow /\ tx'[q].user = tx'[s].user)
      BY <1>1, <2>1 DEF Apart, RowIsFree, Wrote
    <2> QED
      BY <2>1, <2>2, <2>3, <2>4 DEF Apart
  <1>3. TypeOK'
    BY DEF IInv, TypeOK
  <1> QED
    BY <1>2, <1>3, RequestStep

\* A statement that only moves on to the next one.
LEMMA ToInv ==
  ASSUME IInv, NEW q \in Request, NEW phase \in Phase, To(q, phase),
         Flow(q)', Known(q)', Guarded(q)',
         tx[q].op = "bootstrap" => tx[q].row = NoRow,
         HoldsBootstrapLock(q)' =>
           HoldsBootstrapLock(q) \/ \A s \in Request : ~HoldsBootstrapLock(s),
         HoldsRemovalLock(q)' =>
           HoldsRemovalLock(q) \/ \A s \in Request : ~HoldsRemovalLock(s)
  PROVE  IInv'
  <1>1. /\ tx'[q] = [tx[q] EXCEPT !.phase = phase]
        /\ tx' = [tx EXCEPT ![q] = tx'[q]] /\ users' = users
    BY DEF IInv, TypeOK, To
  <1>2. /\ tx'[q] \in Tx /\ tx'[q].user = tx[q].user /\ tx'[q].row = tx[q].row
        /\ tx'[q].op = tx[q].op
    BY <1>1 DEF IInv, TypeOK, Tx
  <1>3. Pending(q)'
    BY <1>1, <1>2 DEF IInv, Pending
  <1> QED
    BY <1>1, <1>2, <1>3, StatementStep DEF To

LEMMA AcquireBootstrapLockInv ==
  ASSUME IInv, NEW q \in Request, AcquireBootstrapLock(q) PROVE IInv'
  <1>1. To(q, "check") /\ "check" \in Phase /\ tx[q].op \in Op
    BY DEF AcquireBootstrapLock, Phase, IInv, TypeOK, Tx
  <1>2. tx[q].op = "bootstrap" /\ tx[q].row = NoRow
    BY <1>1 DEF AcquireBootstrapLock, IInv, Flow, Pending, Op
  <1>3. tx'[q] = [tx[q] EXCEPT !.phase = "check"] /\ users' = users
    BY <1>1 DEF To, IInv, TypeOK
  <1>4. /\ tx'[q].op = "bootstrap" /\ tx'[q].phase = "check" /\ tx'[q].user = tx[q].user
    BY <1>2, <1>3 DEF IInv, TypeOK, Tx
  <1>5. (Flow(q) /\ Known(q) /\ Guarded(q))' /\ ~HoldsRemovalLock(q)'
    BY <1>2, <1>4 DEF IInv, Flow, Known, Guarded, HoldsRemovalLock
  <1> QED
    BY <1>1, <1>2, <1>5, ToInv DEF AcquireBootstrapLock

LEMMA AcquireRemovalLockInv ==
  ASSUME IInv, NEW q \in Request, AcquireRemovalLock(q) PROVE IInv'
  <1>1. To(q, "count") /\ "count" \in Phase /\ tx[q].op \in Op
    BY DEF AcquireRemovalLock, Phase, IInv, TypeOK, Tx
  <1>2. tx[q].op = "remove" /\ tx[q].read.status = "active"
    BY <1>1 DEF AcquireRemovalLock, IInv, Flow, Op
  <1>3. tx'[q] = [tx[q] EXCEPT !.phase = "count"] /\ users' = users
    BY <1>1 DEF To, IInv, TypeOK
  <1>4. /\ tx'[q].op = "remove" /\ tx'[q].phase = "count" /\ tx'[q].user = tx[q].user
        /\ tx'[q].read = tx[q].read
    BY <1>2, <1>3 DEF IInv, TypeOK, Tx
  <1>5. (Flow(q) /\ Known(q) /\ Guarded(q))' /\ ~HoldsBootstrapLock(q)'
    BY <1>2, <1>3, <1>4 DEF IInv, Flow, Known, Guarded, HoldsBootstrapLock
  <1> QED
    BY <1>1, <1>2, <1>5, ToInv DEF AcquireRemovalLock

\* More than one active Administrator: one who is not u.
LEMMA AnotherOne ==
  ASSUME NEW u, ~(Cardinality(Active) <= 1)
  PROVE  \E v \in Admin : v # u /\ users[v].status = "active"
  <1> SUFFICES ASSUME Active \subseteq {u} PROVE FALSE
    BY DEF Active
  <1>1. IsFiniteSet({u}) /\ Cardinality({u}) = 1
    BY FS_Singleton
  <1>2. IsFiniteSet(Active) /\ Cardinality(Active) <= Cardinality({u})
    BY <1>1, FS_Subset
  <1> QED
    BY <1>1, <1>2

LEMMA CountAdministratorsInv ==
  ASSUME IInv, NEW q \in Request, CountAdministrators(q) PROVE IInv'
  <1>1. CASE Cardinality(Active) <= 1
    BY <1>1, EndInv DEF CountAdministrators
  <1>2. CASE ~(Cardinality(Active) <= 1)
    <2>1. To(q, "deactivate") /\ "deactivate" \in Phase /\ tx[q].op \in Op
      BY <1>2 DEF CountAdministrators, Phase, IInv, TypeOK, Tx
    <2>2. tx[q].op = "remove" /\ tx[q].read.status = "active" /\ HoldsRemovalLock(q)
      BY <2>1 DEF CountAdministrators, IInv, Flow, Op, HoldsRemovalLock
    <2>3. tx'[q] = [tx[q] EXCEPT !.phase = "deactivate"] /\ users' = users
      BY <2>1 DEF To, IInv, TypeOK
    <2>4. /\ tx'[q].op = "remove" /\ tx'[q].phase = "deactivate"
          /\ tx'[q].user = tx[q].user /\ tx'[q].read = tx[q].read
      BY <2>2, <2>3 DEF IInv, TypeOK, Tx
    <2>5. (Flow(q) /\ Known(q))' /\ ~HoldsBootstrapLock(q)'
      BY <2>2, <2>3, <2>4 DEF IInv, Flow, Known, HoldsBootstrapLock
    <2>6. Guarded(q)'
      BY <1>2, <2>3, <2>4, AnotherOne DEF Guarded
    <2> QED
      BY <2>1, <2>2, <2>5, <2>6, ToInv
  <1> QED
    BY <1>1, <1>2

LEMMA Typed == ASSUME IInv, NEW q \in Request PROVE tx[q] \in Tx /\ "commit" \in Phase
  BY DEF IInv, TypeOK, Phase

\* A wait-and-write by a login, a reset or a removal.
LEMMA WriteInv ==
  ASSUME IInv, NEW q \in Request, NEW row \in UserRow,
         tx[q].op \in {"remove", "login", "complete"},
         tx' = [tx EXCEPT ![q] = tx'[q]], tx'[q] \in Tx,
         UNCHANGED <<users, links, sessions, revoked, clock, misses>>,
         RowIsFree(q),
         tx'[q].op = tx[q].op, tx'[q].user = tx[q].user, tx'[q].read = tx[q].read,
         tx'[q].row = row,
         tx[q].op = "remove" => row.status = "inactive" /\ tx[q].phase = "deactivate",
         tx[q].op # "remove" => row.status = Own(q).status,
         Flow(q)'
  PROVE  IInv'
  <1>1. tx[q].user \in Admin /\ users[tx[q].user].status # "absent"
    BY DEF IInv, Flow, Known
  <1>2. Own(q).status # "absent" /\ (tx[q].op # "remove" => Own(q).status = users[tx[q].user].status)
    BY <1>1 DEF IInv, Own, Pending
  <1>3. Pending(q)'
    BY <1>1, <1>2 DEF Pending
  <1>4. Known(q)'
    BY <1>1 DEF IInv, Known
  <1>5. HoldsRemovalLock(q)' => HoldsRemovalLock(q)
    BY DEF HoldsRemovalLock
  <1>6. Guarded(q)'
    BY <1>5 DEF IInv, Guarded, HoldsRemovalLock
  <1>7. ~HoldsBootstrapLock(q)'
    BY DEF HoldsBootstrapLock
  <1> QED
    BY <1>3, <1>4, <1>5, <1>6, <1>7, StatementStep

LEMMA OwnIsARow ==
  ASSUME IInv, NEW q \in Request, tx[q].user \in Admin
  PROVE  Own(q) \in UserRow
  BY DEF IInv, TypeOK, Own, Tx

LEMMA DeactivateInv ==
  ASSUME IInv, NEW q \in Request, Deactivate(q) PROVE IInv'
  <1> DEFINE row == [Own(q) EXCEPT !.status = "inactive"]
  <1>1. tx[q].op = "remove" /\ tx[q].user \in Admin /\ tx[q].phase = "deactivate"
    BY DEF Deactivate, IInv, TypeOK, Tx, Op, Flow
  <1>2. row \in UserRow /\ row.status = "inactive"
    BY <1>1, OwnIsARow DEF UserRow
  <1> HIDE DEF row
  <1>3. /\ RowIsFree(q) /\ UNCHANGED <<users, links, sessions, revoked, clock, misses>>
        /\ tx' = [tx EXCEPT ![q].row = row, ![q].phase = "commit"]
    BY DEF Deactivate, Write, row
  <1>4. tx'[q] = [tx[q] EXCEPT !.row = row, !.phase = "commit"] /\ tx' = [tx EXCEPT ![q] = tx'[q]]
    BY <1>3 DEF IInv, TypeOK
  <1>5. /\ tx'[q] \in Tx /\ tx'[q].op = tx[q].op /\ tx'[q].user = tx[q].user
        /\ tx'[q].read = tx[q].read /\ tx'[q].row = row /\ tx'[q].phase = "commit"
    BY <1>2, <1>4, Typed DEF Tx
  <1>6. Flow(q)'
    BY <1>1, <1>5 DEF Flow
  <1> QED
    BY <1>1, <1>2, <1>3, <1>4, <1>5, <1>6, WriteInv

LEMMA ClearedIsARow ==
  ASSUME NEW row \in UserRow
  PROVE  Cleared(row) \in UserRow /\ Cleared(row).status = row.status
  BY DEF Cleared, UserRow

LEMMA ClearLockoutInv ==
  ASSUME IInv, NEW q \in Request, ClearLockout(q) PROVE IInv'
  <1> DEFINE row == Cleared(Own(q))
             next == IF tx[q].phase = "expired" THEN "verify" ELSE "commit"
  <1>1. tx[q].op = "login" /\ tx[q].user \in Admin
    BY DEF ClearLockout, IInv, TypeOK, Tx, Op, Flow
  <1>2. row \in UserRow /\ row.status = Own(q).status
    BY <1>1, OwnIsARow, ClearedIsARow
  <1>3. next \in Phase /\ next \in {"verify", "commit"}
    BY DEF Phase
  <1>4. /\ RowIsFree(q) /\ UNCHANGED <<users, links, sessions, revoked, clock, misses>>
        /\ tx'[q] = [tx[q] EXCEPT !.row = row, !.cleared = TRUE, !.phase = next]
        /\ tx' = [tx EXCEPT ![q] = tx'[q]]
    BY DEF ClearLockout, IInv, TypeOK
  <1> HIDE DEF row, next
  <1>5. /\ tx'[q] \in Tx /\ tx'[q].op = tx[q].op /\ tx'[q].user = tx[q].user
        /\ tx'[q].read = tx[q].read /\ tx'[q].row = row /\ tx'[q].phase = next
    BY <1>2, <1>3, <1>4, Typed DEF Tx
  <1>6. Flow(q)'
    BY <1>1, <1>3, <1>5 DEF Flow
  <1> QED
    BY <1>1, <1>2, <1>4, <1>5, <1>6, WriteInv

LEMMA UpdatePasswordInv ==
  ASSUME IInv, NEW q \in Request, UpdatePassword(q) PROVE IInv'
  <1> DEFINE row == [Cleared(Own(q)) EXCEPT !.password = tx[q].link]
  <1>1. tx[q].op = "complete" /\ tx[q].user \in Admin /\ tx[q].link \in Link \cup {None}
    BY DEF UpdatePassword, IInv, TypeOK, Tx, Op, Flow
  <1>2. Cleared(Own(q)) \in UserRow /\ Cleared(Own(q)).status = Own(q).status
    BY <1>1, OwnIsARow, ClearedIsARow
  <1>3. row \in UserRow /\ row.status = Own(q).status
    BY <1>1, <1>2 DEF UserRow
  <1>4. /\ RowIsFree(q) /\ UNCHANGED <<users, links, sessions, revoked, clock, misses>>
        /\ tx'[q] = [tx[q] EXCEPT !.phase = "commit", !.cleared = TRUE, !.row = row]
        /\ tx' = [tx EXCEPT ![q] = tx'[q]]
    BY DEF UpdatePassword, IInv, TypeOK
  <1> HIDE DEF row
  <1>5. /\ tx'[q] \in Tx /\ tx'[q].op = tx[q].op /\ tx'[q].user = tx[q].user
        /\ tx'[q].read = tx[q].read /\ tx'[q].row = row /\ tx'[q].phase = "commit"
    BY <1>3, <1>4, Typed DEF Tx
  <1>6. Flow(q)'
    BY <1>1, <1>5 DEF Flow
  <1> QED
    BY <1>1, <1>3, <1>4, <1>5, <1>6, WriteInv

LEMMA CountMissInv ==
  ASSUME IInv, NEW q \in Request, CountMiss(q) PROVE IInv'
  <1> DEFINE count == Own(q).fails + 1
             lock == IF count >= Threshold THEN tx[q].now + Duration ELSE Own(q).locked
             row == [Own(q) EXCEPT !.fails = count, !.locked = lock]
  <1>1. tx[q].op = "login" /\ tx[q].user \in Admin /\ tx[q].now \in Nat
    BY DEF CountMiss, IInv, TypeOK, Tx, Op, Flow
  <1>2. Own(q) \in UserRow
    BY <1>1, OwnIsARow
  <1>3. count \in Nat /\ lock \in Nat \cup {None}
    BY <1>1, <1>2, AccountsAssumption DEF UserRow
  <1>4. row \in UserRow /\ row.status = Own(q).status
    BY <1>2, <1>3 DEF UserRow
  <1>5. row = [Own(q) EXCEPT !.fails = count, !.locked =
                 IF count >= Threshold THEN tx[q].now + Duration ELSE @]
    BY <1>2 DEF UserRow
  <1>6. /\ RowIsFree(q) /\ UNCHANGED <<users, links, sessions, revoked, clock, misses>>
        /\ tx' = [tx EXCEPT ![q].phase = "commit", ![q].missed = TRUE, ![q].row = row]
    BY <1>5 DEF CountMiss
  <1> HIDE DEF row
  <1>7. /\ tx'[q] = [tx[q] EXCEPT !.phase = "commit", !.missed = TRUE, !.row = row]
        /\ tx' = [tx EXCEPT ![q] = tx'[q]]
    BY <1>6 DEF IInv, TypeOK
  <1>8. /\ tx'[q] \in Tx /\ tx'[q].op = tx[q].op /\ tx'[q].user = tx[q].user
        /\ tx'[q].read = tx[q].read /\ tx'[q].row = row /\ tx'[q].phase = "commit"
    BY <1>4, <1>7, Typed DEF Tx
  <1>9. Flow(q)'
    BY <1>1, <1>8 DEF Flow
  <1> QED
    BY <1>1, <1>4, <1>6, <1>7, <1>8, <1>9, WriteInv

LEMMA CheckRequiredInv ==
  ASSUME IInv, NEW q \in Request, CheckRequired(q) PROVE IInv'
  <1>1. tx[q].op = "bootstrap" /\ tx[q].user \in Admin /\ tx[q].phase = "check"
    BY DEF CheckRequired, IInv, TypeOK, Tx, Op, Flow
  <1>2. CASE End(q)
    BY <1>2, EndInv
  <1>3. ASSUME Present = {}, NEW j \in Session \cup {None},
               tx' = [tx EXCEPT ![q].phase = "commit", ![q].session = j,
                                ![q].row = [NoRow EXCEPT !.status = "active"]],
               UNCHANGED <<users, links, sessions, revoked, clock, misses>>
        PROVE  IInv'
    <2> DEFINE row == [NoRow EXCEPT !.status = "active"]
    <2>1. row \in UserRow /\ row.status = "active"
      BY ActiveRow, Blank DEF UserRow
    <2>2. /\ tx'[q] = [tx[q] EXCEPT !.phase = "commit", !.session = j, !.row = row]
          /\ tx' = [tx EXCEPT ![q] = tx'[q]]
      BY <1>3 DEF IInv, TypeOK
    <2> HIDE DEF row
    <2>3. /\ tx'[q] \in Tx /\ tx'[q].op = "bootstrap" /\ tx'[q].user = tx[q].user
          /\ tx'[q].row = row /\ tx'[q].phase = "commit"
      <3>1. /\ tx'[q] = [tx[q] EXCEPT !.phase = "commit", !.session = j, !.row = row]
            /\ tx[q] \in Tx /\ "commit" \in Phase /\ j \in Session \cup {None}
        BY <2>2, <1>3, Typed
      <3>2. tx'[q] \in Tx
        BY <2>1, <3>1 DEF Tx
      <3> QED
        BY <1>1, <3>1, <3>2 DEF Tx
    <2>4. \A u \in Admin : users[u].status = "absent"
      BY <1>3 DEF Present
    <2>5. (Flow(q) /\ Pending(q) /\ Known(q) /\ Guarded(q))' /\ ~HoldsRemovalLock(q)'
      BY <1>1, <1>3, <2>1, <2>3, <2>4
      DEF Flow, Pending, Known, Guarded, HoldsRemovalLock
    <2>6. HoldsBootstrapLock(q)
      BY <1>1 DEF HoldsBootstrapLock
    <2>7. ASSUME NEW s \in Request \ {q} PROVE ~Wrote(s, tx[q].user)
      <3>1. ~HoldsBootstrapLock(s) /\ Flow(s) /\ Pending(s) /\ Known(s)
        BY <2>6 DEF IInv, Apart
      <3> QED
        BY <1>1, <2>4, <3>1 DEF Wrote, HoldsBootstrapLock, Pending, Known
    <2> QED
      BY <1>3, <2>2, <2>3, <2>5, <2>6, <2>7, StatementStep DEF RowIsFree
  <1> QED
    BY <1>2, <1>3 DEF CheckRequired

LEMMA RejectPasswordInv ==
  ASSUME IInv, NEW q \in Request, NEW password \in Link \cup {None},
         RejectPassword(q, password)
  PROVE  IInv'
  <1>1. tx[q].op = "login"
    BY DEF RejectPassword, IInv, TypeOK, Tx, Op, Flow
  <1>2. PICK phase \in {"commit", "miss"} : To(q, phase)
    BY DEF RejectPassword
  <1>3. tx'[q] = [tx[q] EXCEPT !.phase = phase] /\ users' = users /\ phase \in Phase
    BY <1>2 DEF To, IInv, TypeOK, Phase
  <1>4. /\ tx'[q].op = "login" /\ tx'[q].phase = phase /\ tx'[q].user = tx[q].user
    BY <1>1, <1>3 DEF IInv, TypeOK, Tx
  <1>5. (Flow(q) /\ Known(q) /\ Guarded(q))'
    BY <1>1, <1>3, <1>4 DEF IInv, Flow, Known, Guarded, HoldsRemovalLock
  <1>6. ~HoldsRemovalLock(q)' /\ ~HoldsBootstrapLock(q)'
    BY <1>4 DEF HoldsRemovalLock, HoldsBootstrapLock
  <1> QED
    BY <1>1, <1>2, <1>3, <1>5, <1>6, ToInv

LEMMA AcceptPasswordInv ==
  ASSUME IInv, NEW q \in Request, NEW password \in Link \cup {None},
         AcceptPassword(q, password)
  PROVE  IInv'
  <1>1. tx[q].op = "login"
    BY DEF AcceptPassword, IInv, TypeOK, Tx, Op, Flow
  <1> DEFINE next == IF ~tx[q].cleared /\ Cleared(tx[q].read) # tx[q].read
                     THEN "clear" ELSE "commit"
  <1>2. next \in {"clear", "commit"} /\ next \in Phase
    BY DEF Phase
  <1>3. PICK j \in Session \cup {None} :
          tx' = [tx EXCEPT ![q].session = j, ![q].phase = next]
    BY DEF AcceptPassword
  <1> HIDE DEF next
  <1>4. /\ tx'[q] = [tx[q] EXCEPT !.session = j, !.phase = next]
        /\ tx' = [tx EXCEPT ![q] = tx'[q]]
        /\ UNCHANGED <<users, links, sessions, revoked, clock, misses>>
    BY <1>3 DEF AcceptPassword, IInv, TypeOK
  <1>5. /\ tx'[q] \in Tx /\ tx'[q].op = "login" /\ tx'[q].phase = next
        /\ tx'[q].user = tx[q].user /\ tx'[q].row = tx[q].row
    <2>1. /\ tx'[q] = [tx[q] EXCEPT !.session = j, !.phase = next]
          /\ tx[q] \in Tx /\ j \in Session \cup {None}
      BY <1>3, <1>4, Typed
    <2>2. tx'[q] \in Tx
      BY <1>2, <2>1 DEF Tx
    <2> QED
      BY <1>1, <2>1, <2>2 DEF Tx
  <1>6. (Flow(q) /\ Pending(q) /\ Known(q) /\ Guarded(q))'
    BY <1>1, <1>2, <1>4, <1>5 DEF IInv, Flow, Pending, Known, Guarded, HoldsRemovalLock
  <1>7. ~HoldsRemovalLock(q)' /\ ~HoldsBootstrapLock(q)'
    BY <1>5 DEF HoldsRemovalLock, HoldsBootstrapLock
  <1> QED
    BY <1>4, <1>5, <1>6, <1>7, StatementStep

LEMMA MarkUsedInv ==
  ASSUME IInv, NEW q \in Request, MarkUsed(q) PROVE IInv'
  <1>1. tx[q].op = "complete" /\ To(q, "password") /\ "password" \in Phase
    BY DEF MarkUsed, IInv, TypeOK, Tx, Op, Phase, Flow
  <1>2. tx'[q] = [tx[q] EXCEPT !.phase = "password"] /\ users' = users
    BY <1>1 DEF To, IInv, TypeOK
  <1>3. tx'[q].op = "complete" /\ tx'[q].phase = "password" /\ tx'[q].user = tx[q].user
    BY <1>1, <1>2 DEF IInv, TypeOK, Tx
  <1>4. (Flow(q) /\ Known(q) /\ Guarded(q))' /\ ~HoldsRemovalLock(q)' /\ ~HoldsBootstrapLock(q)'
    BY <1>1, <1>2, <1>3
    DEF IInv, Flow, Known, Guarded, HoldsRemovalLock, HoldsBootstrapLock
  <1> QED
    BY <1>1, <1>4, ToInv

LEMMA RevokeInv ==
  ASSUME IInv, NEW q \in Request, Revoke(q) PROVE IInv'
  <1>1. tx[q].op = "logout" /\ To(q, "commit") /\ "commit" \in Phase
    BY DEF Revoke, IInv, TypeOK, Tx, Op, Phase, Flow
  <1>2. tx'[q] = [tx[q] EXCEPT !.phase = "commit"] /\ users' = users
    BY <1>1 DEF To, IInv, TypeOK
  <1>3. tx'[q].op = "logout" /\ tx'[q].phase = "commit" /\ tx'[q].session = tx[q].session
    BY <1>1, <1>2 DEF IInv, TypeOK, Tx
  <1>4. (Flow(q) /\ Known(q) /\ Guarded(q))' /\ ~HoldsRemovalLock(q)' /\ ~HoldsBootstrapLock(q)'
    BY <1>1, <1>2, <1>3
    DEF IInv, Flow, Known, Guarded, HoldsRemovalLock, HoldsBootstrapLock
  <1> QED
    BY <1>1, <1>4, ToInv

-----------------------------------------------------------------------------
(* Commit *)

LEMMA CommitTypes == ASSUME IInv, NEW q \in Request, Commit(q) PROVE TypeOK'
  <1> DEFINE t == tx[q]
  <1>1. TypeOK /\ t \in Tx /\ Idle \in Tx
    BY Typed, Blank DEF IInv
  <1>2. /\ t.op \notin {"none", "logout"} => t.user \in Admin
        /\ t.op = "logout" => t.session \in Session
        /\ t.row # NoRow => t.user \in Admin
    BY <1>1 DEF IInv, Flow, Pending
  <1>3. users' \in [Admin -> UserRow]
    BY <1>1, <1>2 DEF Commit, TypeOK, Tx
  <1>4. links' \in [Link -> LinkRow]
    <2>1. CASE t.op = "forgot"
      <3> DEFINE row == [user |-> t.user, used |-> FALSE, expires |-> t.now + LinkTtl]
      <3>1. row \in LinkRow
        BY <1>1, <1>2, <2>1, AccountsAssumption DEF LinkRow, Tx
      <3>2. links' = [links EXCEPT ![t.link] = row]
        BY <2>1 DEF Commit
      <3> QED
        BY <1>1, <3>1, <3>2 DEF TypeOK
    <2>2. CASE t.op = "complete"
      <3>1. links' = [links EXCEPT ![t.link].used = TRUE]
        BY <2>2 DEF Commit
      <3> QED
        BY <1>1, <3>1 DEF TypeOK, LinkRow
    <2>3. CASE t.op \notin {"forgot", "complete"}
      BY <1>1, <2>3 DEF Commit, TypeOK
    <2> QED
      BY <2>1, <2>2, <2>3
  <1>5. sessions' \in [Session -> Token]
    <2> DEFINE row == [user |-> t.user, expires |-> t.now + SessionTtl]
    <2>1. CASE t.op \in {"bootstrap", "login"} /\ t.session # None
      <3>1. row \in Token
        BY <1>1, <1>2, <2>1, AccountsAssumption DEF Token, Tx
      <3>2. sessions' = [sessions EXCEPT ![t.session] = row]
        BY <2>1 DEF Commit
      <3> QED
        BY <1>1, <3>1, <3>2 DEF TypeOK
    <2>2. CASE ~(t.op \in {"bootstrap", "login"} /\ t.session # None)
      BY <1>1, <2>2 DEF Commit, TypeOK
    <2> QED
      BY <2>1, <2>2
  <1>6. revoked' \subseteq Session
    BY <1>1, <1>2 DEF Commit, TypeOK
  <1>7. misses' \in [Admin -> Nat]
    <2>1. CASE t.row = NoRow
      BY <1>1, <2>1 DEF Commit, TypeOK
    <2>2. CASE t.row # NoRow
      <3>1. NewMisses(q) \in Nat
        BY <1>1, <1>2, <2>2 DEF NewMisses, TypeOK
      <3>2. misses' = [misses EXCEPT ![t.user] = NewMisses(q)]
        BY <2>2 DEF Commit
      <3> QED
        BY <1>1, <3>1, <3>2 DEF TypeOK
    <2> QED
      BY <2>1, <2>2
  <1>8. tx' \in [Request -> Tx] /\ clock' \in Nat
    BY <1>1 DEF Commit, TypeOK
  <1> QED
    BY <1>3, <1>4, <1>5, <1>6, <1>7, <1>8 DEF TypeOK

\* All that a commit does to who is present and active: it founds the roster,
\* retires one of several, or leaves it.
Founds(q) ==
  /\ tx[q].op = "bootstrap"
  /\ \A u \in Admin : users[u].status = "absent"
  /\ users'[tx[q].user].status = "active"

Retires(q) ==
  /\ tx[q].op = "remove"
  /\ HoldsRemovalLock(q)
  /\ users[tx[q].user].status # "absent"
  /\ users'[tx[q].user].status = "inactive"
  /\ \E v \in Admin : v # tx[q].user /\ users[v].status = "active"

OthersStay(q) == \A v \in Admin \ {tx[q].user} : users'[v].status = users[v].status

Stays == \A v \in Admin : users'[v].status = users[v].status

LEMMA CommitRoster ==
  ASSUME IInv, NEW q \in Request, Commit(q)
  PROVE  \/ /\ tx[q].row # NoRow /\ tx[q].user \in Admin /\ OthersStay(q)
            /\ Founds(q) \/ Retires(q)
         \/ Stays
  <1> DEFINE u == tx[q].user
  <1>1. CASE tx[q].row = NoRow
    BY <1>1 DEF Commit, Stays
  <1>2. CASE tx[q].row # NoRow
    <2>1. /\ tx[q].op \in {"bootstrap", "remove", "login", "complete"}
          /\ u \in Admin /\ tx[q].phase = "commit"
      BY <1>2 DEF IInv, Pending, Flow, Commit
    <2>2. users' = [users EXCEPT ![u] = tx[q].row]
      BY <1>2 DEF Commit
    <2>3. users'[u] = tx[q].row /\ OthersStay(q)
      BY <2>1, <2>2 DEF IInv, TypeOK, OthersStay
    <2>4. CASE tx[q].op = "bootstrap"
      <3>1. Founds(q)
        BY <1>2, <2>1, <2>3, <2>4 DEF IInv, Pending, Known, Founds
      <3> QED
        BY <1>2, <2>1, <2>3, <3>1
    <2>5. CASE tx[q].op \in {"login", "complete"}
      <3>1. users'[u].status = users[u].status
        BY <1>2, <2>3, <2>5 DEF IInv, Pending
      <3> QED
        BY <2>3, <3>1 DEF Stays, OthersStay
    <2>6. CASE tx[q].op = "remove" /\ tx[q].read.status # "active"
      <3>1. users'[u].status = users[u].status
        BY <1>2, <2>3, <2>6 DEF IInv, Pending, Known
      <3> QED
        BY <2>3, <3>1 DEF Stays, OthersStay
    <2>7. CASE tx[q].op = "remove" /\ tx[q].read.status = "active"
      <3>1. HoldsRemovalLock(q)
        BY <2>1, <2>7 DEF HoldsRemovalLock
      <3>2. Retires(q)
        BY <1>2, <2>1, <2>3, <2>7, <3>1 DEF IInv, Pending, Known, Guarded, Retires
      <3> QED
        BY <1>2, <2>1, <2>3, <3>2
    <2> QED
      BY <2>1, <2>4, <2>5, <2>6, <2>7
  <1> QED
    BY <1>1, <1>2

LEMMA CommitInv == ASSUME IInv, NEW q \in Request, Commit(q) PROVE IInv'
  <1> DEFINE u == tx[q].user
  <1>1. tx'[q] = Idle /\ tx[q].phase = "commit"
    BY DEF Commit, IInv, TypeOK
  <1>2. \A s \in Request \ {q} : tx'[s] = tx[s]
    BY DEF Commit, IInv, TypeOK
  <1>3. (Flow(q) /\ Pending(q) /\ Known(q) /\ Guarded(q))'
    BY <1>1, Blank DEF Flow, Pending, Known, Guarded, HoldsRemovalLock
  <1>4. ASSUME NEW s \in Request \ {q} PROVE Flow(s)'
    BY <1>2 DEF IInv, Flow
  <1>5. ASSUME NEW s \in Request \ {q} PROVE Apart(q, s)' /\ Apart(s, q)'
    BY <1>1, Blank DEF Apart, HoldsRemovalLock, HoldsBootstrapLock
  <1>6. ASSUME NEW r \in Request \ {q}, NEW s \in Request \ {q}, r # s PROVE Apart(r, s)'
    BY <1>2, <1>6 DEF IInv, Apart, HoldsRemovalLock, HoldsBootstrapLock
  <1>7. CASE Stays
    <2>1. ASSUME NEW s \in Request \ {q} PROVE (Pending(s) /\ Known(s) /\ Guarded(s))'
      <3>1. Flow(s) /\ Pending(s) /\ Known(s) /\ Guarded(s) /\ tx'[s] = tx[s]
        BY <1>2 DEF IInv
      <3>2. Pending(s)'
        BY <1>7, <3>1 DEF Pending, Flow, Stays
      <3>3. Known(s)'
        BY <1>7, <3>1 DEF Known, Flow, Stays
      <3>4. Guarded(s)'
        BY <1>7, <3>1 DEF Guarded, HoldsRemovalLock, Stays
      <3> QED
        BY <3>2, <3>3, <3>4
    <2>2. LastAdministratorStays'
      BY <1>7 DEF IInv, LastAdministratorStays, Present, Active, Stays
    <2> QED
      BY <1>3, <1>4, <1>5, <1>6, <2>1, <2>2, CommitTypes DEF IInv
  <1>8. ASSUME tx[q].row # NoRow, u \in Admin, OthersStay(q), Founds(q) PROVE IInv'
    <2>1. HoldsBootstrapLock(q)
      BY <1>1, <1>8 DEF HoldsBootstrapLock, Founds
    <2>2. ASSUME NEW s \in Request \ {q} PROVE (Pending(s) /\ Known(s) /\ Guarded(s))'
      <3>1. /\ Flow(s) /\ Pending(s) /\ Known(s) /\ Guarded(s) /\ tx'[s] = tx[s]
            /\ Apart(q, s)
        BY <1>2 DEF IInv
      <3>2. tx[s].op \in {"none", "bootstrap", "logout"}
        BY <1>8, <3>1 DEF Known, Flow, Founds, IInv, TypeOK, Tx, Op
      <3>3. ~HoldsBootstrapLock(s)
        BY <2>1, <3>1 DEF Apart
      <3> QED
        BY <3>1, <3>2, <3>3
        DEF Pending, Known, Guarded, HoldsRemovalLock, HoldsBootstrapLock
    <2>3. LastAdministratorStays'
      BY <1>8 DEF LastAdministratorStays, Active, Founds
    <2> QED
      BY <1>3, <1>4, <1>5, <1>6, <2>2, <2>3, CommitTypes DEF IInv
  <1>9. ASSUME tx[q].row # NoRow, u \in Admin, OthersStay(q), Retires(q) PROVE IInv'
    <2>1. PICK v \in Admin : v # u /\ users[v].status = "active"
      BY <1>9 DEF Retires
    <2>2. ASSUME NEW s \in Request \ {q} PROVE (Pending(s) /\ Known(s) /\ Guarded(s))'
      <3>1. /\ Flow(s) /\ Pending(s) /\ Known(s) /\ Guarded(s) /\ tx'[s] = tx[s]
            /\ Apart(q, s)
        BY <1>2 DEF IInv
      <3>2. Pending(s)'
        <4>1. tx[s].row # NoRow => tx[s].user # u
          BY <1>9, <3>1 DEF Apart
        <4> QED
          BY <1>9, <3>1, <4>1 DEF Pending, Flow, OthersStay
      <3>3. Known(s)'
        <4>1. ~(tx[s].op = "bootstrap" /\ tx[s].phase = "commit")
          BY <1>9, <3>1 DEF Known, Retires
        <4> QED
          BY <1>9, <3>1, <4>1 DEF Known, Flow, Retires, OthersStay
      <3>4. Guarded(s)'
        BY <1>9, <3>1 DEF Apart, Guarded, HoldsRemovalLock, Retires
      <3> QED
        BY <3>2, <3>3, <3>4
    <2>3. LastAdministratorStays'
      BY <1>9, <2>1 DEF LastAdministratorStays, Active, OthersStay
    <2> QED
      BY <1>3, <1>4, <1>5, <1>6, <2>2, <2>3, CommitTypes DEF IInv
  <1> QED
    BY <1>7, <1>8, <1>9, CommitRoster

-----------------------------------------------------------------------------
(* Theorems *)

LEMMA StepInv == IInv /\ [Next]_vars => IInv'
  <1> SUFFICES ASSUME IInv, [Next]_vars PROVE IInv'
    OBVIOUS
  <1>1. CASE Tick
    BY <1>1, TickInv
  <1>2. ASSUME NEW q \in Request, Arrival(q) PROVE IInv'
    BY <1>2, BootstrapInv, LoginInv, RemoveUserInv, RequestResetInv, CompleteResetInv,
       LogoutInv
    DEF Arrival
  <1>3. ASSUME NEW q \in Request, Statement(q) PROVE IInv'
    BY <1>3, AcquireBootstrapLockInv, CheckRequiredInv, AcquireRemovalLockInv,
       CountAdministratorsInv, DeactivateInv, ClearLockoutInv, RejectPasswordInv,
       AcceptPasswordInv, CountMissInv, MarkUsedInv, UpdatePasswordInv, RevokeInv,
       CommitInv
    DEF Statement
  <1>4. ASSUME NEW q \in Request, Rollback(q) PROVE IInv'
    BY <1>4, EndInv DEF Rollback
  <1>5. CASE UNCHANGED vars
    <2>1. \A q \in Request : (Flow(q) /\ Pending(q) /\ Known(q) /\ Guarded(q))'
      BY <1>5 DEF vars, IInv, Flow, Pending, Known, Guarded, HoldsRemovalLock
    <2>2. \A q, s \in Request : q # s => Apart(q, s)'
      BY <1>5 DEF vars, IInv, Apart, HoldsRemovalLock, HoldsBootstrapLock
    <2>3. TypeOK' /\ LastAdministratorStays'
      BY <1>5 DEF vars, IInv, TypeOK, LastAdministratorStays, Present, Active
    <2> QED
      BY <2>1, <2>2, <2>3 DEF IInv
  <1> QED
    BY <1>1, <1>2, <1>3, <1>4, <1>5 DEF Next

\* In every reachable state the two advisory locks and each row have one
\* writer, and what a request has read of the roster still stands.
THEOREM InductiveInvariant == Spec => []IInv
  BY InitInv, StepInv, PTL DEF Spec

\* Rows, links, tokens and requests keep their types (UserModel and the others).
THEOREM TypeCorrect == Spec => []TypeOK
  <1>1. IInv => TypeOK
    BY DEF IInv
  <1> QED
    BY <1>1, InductiveInvariant, PTL

\* LastAdministratorGuard: removals, however many run at once, and whatever
\* logins, resets and bootstraps run beside them, leave an active Administrator.
THEOREM LastAdministrator == Spec => []LastAdministratorStays
  <1>1. IInv => LastAdministratorStays
    BY DEF IInv
  <1> QED
    BY <1>1, InductiveInvariant, PTL

-----------------------------------------------------------------------------
(* Accounts implements AdminRoster *)

LEMMA RosterInit == Init => Roster!Init
  <1> SUFFICES ASSUME Init PROVE Roster!Init
    OBVIOUS
  <1>1. [NoRow EXCEPT !.status = "active"].status = "active"
    BY ActiveRow DEF NoRow
  <1>2. \A u \in Admin : users[u].status = "absent" \/ users[u].status = "active"
    BY <1>1, Blank DEF Init
  <1> QED
    BY <1>2 DEF Roster!Init, Present, Active

\* Only a commit changes the rows.
LEMMA CommitOnly ==
  ASSUME [Next]_vars, users' # users PROVE \E q \in Request : Commit(q)
  <1>1. ASSUME NEW q \in Request, Statement(q), ~Commit(q) PROVE users' = users
    BY <1>1
    DEF Statement, AcquireBootstrapLock, CheckRequired, AcquireRemovalLock,
        CountAdministrators, Deactivate, ClearLockout, RejectPassword, AcceptPassword,
        CountMiss, MarkUsed, UpdatePassword, Revoke, To, End, Write
  <1>2. ASSUME NEW q \in Request, Arrival(q) \/ Rollback(q) PROVE users' = users
    BY <1>2
    DEF Arrival, Bootstrap, Login, RemoveUser, RequestReset, CompleteReset, Logout,
        Rollback, Begin, End
  <1>3. ~Tick /\ ~UNCHANGED vars
    BY DEF Tick, vars
  <1> QED
    BY <1>1, <1>2, <1>3 DEF Next

LEMMA RosterSame ==
  ASSUME Stays \/ users' = users PROVE UNCHANGED Roster!roster
  BY DEF Stays, Roster!roster, Present, Active

LEMMA RosterStep == IInv /\ [Next]_vars => [Roster!Next]_(Roster!roster)
  <1> SUFFICES ASSUME IInv, [Next]_vars PROVE [Roster!Next]_(Roster!roster)
    OBVIOUS
  <1>1. ASSUME NEW q \in Request, Commit(q) PROVE [Roster!Next]_(Roster!roster)
    <2> DEFINE u == tx[q].user
    <2>1. CASE Stays
      BY <2>1, RosterSame
    <2>2. ASSUME u \in Admin, OthersStay(q), Founds(q) PROVE Roster!Next
      <3>1. Present = {} /\ Present' = {u} /\ Active' = {u}
        BY <2>2 DEF Present, Active, Founds, OthersStay
      <3> QED
        BY <2>2, <3>1 DEF Roster!Next, Roster!Found
    <2>3. ASSUME u \in Admin, OthersStay(q), Retires(q) PROVE [Roster!Next]_(Roster!roster)
      <3>1. Present' = Present /\ Active' = Active \ {u} /\ Active # {u}
        BY <2>3 DEF Present, Active, Retires, OthersStay
      <3>2. CASE u \in Active
        BY <2>3, <3>1, <3>2 DEF Roster!Next, Roster!Retire
      <3>3. CASE u \notin Active
        BY <3>1, <3>3 DEF Roster!roster
      <3> QED
        BY <3>2, <3>3
    <2> QED
      BY <1>1, <2>1, <2>2, <2>3, CommitRoster
  <1>2. CASE ~(\E q \in Request : Commit(q))
    BY <1>2, CommitOnly, RosterSame
  <1> QED
    BY <1>1, <1>2

\* Whatever the requests do, the roster is founded once, by one Administrator,
\* and then only shrinks, never to nobody.
THEOREM RosterRefinement == Spec => KeepsRoster
  BY RosterInit, RosterStep, InductiveInvariant, PTL
  DEF Spec, KeepsRoster, Roster!Spec

-----------------------------------------------------------------------------
(* The counter of wrong passwords *)

\* What is stored agrees with what was committed, and a full counter has its lock.
Tally(row, count) ==
  row.fails = count /\ (row.fails >= Threshold => row.locked # None)

\* A request's own version of a row is right too, as long as nobody else may
\* write the row; what it has counted or cleared it has also written.
Tallied(q) ==
  /\ tx[q].row # NoRow => Tally(tx[q].row, NewMisses(q))
  /\ tx[q].row = NoRow => tx[q].missed = FALSE /\ tx[q].cleared = FALSE
  /\ tx[q].phase # "commit" => tx[q].missed = FALSE
  /\ tx[q].op \notin {"login", "complete"} => tx[q].missed = FALSE /\ tx[q].cleared = FALSE
  /\ tx[q].op = "complete" => tx[q].missed = FALSE

Counted ==
  /\ \A u \in Admin :
       Tally(users[u], misses[u]) /\ (users[u].status = "absent" => misses[u] = 0)
  /\ \A q \in Request : Tallied(q)

LEMMA NoMisses ==
  ASSUME IInv, NEW q \in Request, tx[q].user \in Admin,
         tx[q].missed = FALSE, tx[q].cleared = FALSE
  PROVE  NewMisses(q) = misses[tx[q].user]
  <1>1. misses[tx[q].user] \in Nat
    BY DEF IInv, TypeOK
  <1>2. NewMisses(q) = misses[tx[q].user] + 0
    BY DEF NewMisses
  <1> QED
    BY <1>1, <1>2

LEMMA OwnTally ==
  ASSUME IInv, Counted, NEW q \in Request, tx[q].user \in Admin
  PROVE  Tally(Own(q), NewMisses(q))
  BY NoMisses DEF Counted, Tallied, Own

\* A step of one request before its commit.
LEMMA CountedStep ==
  ASSUME IInv, Counted, NEW q \in Request,
         \A s \in Request \ {q} : tx'[s] = tx[s],
         UNCHANGED <<users, misses>>, Tallied(q)'
  PROVE  Counted'
  <1>1. ASSUME NEW s \in Request \ {q} PROVE Tallied(s)'
    BY DEF Counted, Tallied, NewMisses
  <1> QED
    BY <1>1 DEF Counted

LEMMA BeginCounted ==
  ASSUME IInv, Counted, NEW q \in Request, NEW request, Begin(q, request),
         request.row = NoRow, request.missed = FALSE, request.cleared = FALSE
  PROVE  Counted'
  <1>1. tx'[q] = request /\ \A s \in Request \ {q} : tx'[s] = tx[s]
    BY DEF Begin, IInv, TypeOK
  <1>2. Tallied(q)'
    BY <1>1 DEF Tallied
  <1> QED
    BY <1>1, <1>2, CountedStep DEF Begin

LEMMA ArrivalCounted ==
  ASSUME IInv, Counted, NEW q \in Request, Arrival(q) PROVE Counted'
  <1>1. Idle.row = NoRow /\ Idle.missed = FALSE /\ Idle.cleared = FALSE
    BY DEF Idle
  <1>2. ASSUME NEW u \in Admin, Bootstrap(q, u) PROVE Counted'
    <2> DEFINE request == [Idle EXCEPT !.op = "bootstrap", !.phase = "lock", !.user = u,
                                       !.now = clock]
    <2>1. request.row = NoRow /\ request.missed = FALSE /\ request.cleared = FALSE
      BY <1>1, Blank DEF Tx
    <2>2. Begin(q, request)
      BY <1>2 DEF Bootstrap
    <2> QED
      BY <2>1, <2>2, BeginCounted
  <1>3. ASSUME NEW u \in Admin, Login(q, u) PROVE Counted'
    <2> DEFINE request == [Idle EXCEPT !.op = "login", !.user = u, !.now = clock,
                 !.read = users[u], !.phase =
                 IF users[u].locked # None /\ ~Locked(users[u], clock)
                 THEN "expired" ELSE "verify"]
    <2>1. request.row = NoRow /\ request.missed = FALSE /\ request.cleared = FALSE
      BY <1>1, Blank DEF Tx
    <2>2. Begin(q, request)
      BY <1>3 DEF Login
    <2> QED
      BY <2>1, <2>2, BeginCounted
  <1>4. ASSUME NEW j \in Session, NEW u \in Admin, RemoveUser(q, j, u) PROVE Counted'
    <2> DEFINE request == [Idle EXCEPT !.op = "remove", !.user = u, !.read = users[u],
                 !.phase = IF users[u].status = "active" THEN "guard" ELSE "deactivate"]
    <2>1. request.row = NoRow /\ request.missed = FALSE /\ request.cleared = FALSE
      BY <1>1, Blank DEF Tx
    <2>2. Begin(q, request)
      BY <1>4 DEF RemoveUser
    <2> QED
      BY <2>1, <2>2, BeginCounted
  <1>5. ASSUME NEW u \in Admin, NEW l \in Link, RequestReset(q, u, l) PROVE Counted'
    <2> DEFINE request == [Idle EXCEPT !.op = "forgot", !.phase = "commit", !.user = u,
                                       !.now = clock, !.link = l]
    <2>1. request.row = NoRow /\ request.missed = FALSE /\ request.cleared = FALSE
      BY <1>1, Blank DEF Tx
    <2>2. Begin(q, request)
      BY <1>5 DEF RequestReset
    <2> QED
      BY <2>1, <2>2, BeginCounted
  <1>6. ASSUME NEW l \in Link, CompleteReset(q, l) PROVE Counted'
    <2> DEFINE request == [Idle EXCEPT !.op = "complete", !.phase = "use", !.link = l,
                                       !.user = links[l].user,
                                       !.read = users[links[l].user]]
    <2>1. request.row = NoRow /\ request.missed = FALSE /\ request.cleared = FALSE
      BY <1>1, Blank DEF Tx
    <2>2. Begin(q, request)
      BY <1>6 DEF CompleteReset
    <2> QED
      BY <2>1, <2>2, BeginCounted
  <1>7. ASSUME NEW j \in Session, Logout(q, j) PROVE Counted'
    <2> DEFINE request == [Idle EXCEPT !.op = "logout", !.phase = "revoke", !.session = j]
    <2>1. request.row = NoRow /\ request.missed = FALSE /\ request.cleared = FALSE
      BY <1>1, Blank DEF Tx
    <2>2. Begin(q, request)
      BY <1>7 DEF Logout
    <2> QED
      BY <2>1, <2>2, BeginCounted
  <1> QED
    BY <1>2, <1>3, <1>4, <1>5, <1>6, <1>7 DEF Arrival

LEMMA EndCounted ==
  ASSUME IInv, Counted, NEW q \in Request, End(q) PROVE Counted'
  <1>1. tx'[q] = Idle /\ \A s \in Request \ {q} : tx'[s] = tx[s]
    BY DEF End, IInv, TypeOK
  <1>2. Tallied(q)'
    BY <1>1 DEF Tallied, Idle
  <1> QED
    BY <1>1, <1>2, CountedStep DEF End

LEMMA ToCounted ==
  ASSUME IInv, Counted, NEW q \in Request, NEW phase, To(q, phase), tx[q].phase # "commit"
  PROVE  Counted'
  <1>1. /\ tx'[q] = [tx[q] EXCEPT !.phase = phase]
        /\ \A s \in Request \ {q} : tx'[s] = tx[s]
        /\ misses' = misses
    BY DEF To, IInv, TypeOK
  <1>2. /\ tx'[q].row = tx[q].row /\ tx'[q].missed = tx[q].missed
        /\ tx'[q].cleared = tx[q].cleared /\ tx'[q].op = tx[q].op
        /\ tx'[q].user = tx[q].user
    BY <1>1, Typed DEF Tx
  <1>3. NewMisses(q)' = NewMisses(q)
    BY <1>1, <1>2 DEF NewMisses
  <1>4. Tallied(q)'
    BY <1>2, <1>3 DEF Counted, Tallied
  <1> QED
    BY <1>1, <1>4, CountedStep DEF To

LEMMA DeactivateCounted ==
  ASSUME IInv, Counted, NEW q \in Request, Deactivate(q) PROVE Counted'
  <1> DEFINE row == [Own(q) EXCEPT !.status = "inactive"]
  <1>1. tx[q].op = "remove" /\ tx[q].user \in Admin
    BY DEF Deactivate, IInv, TypeOK, Tx, Op, Flow
  <1>2. row.fails = Own(q).fails /\ row.locked = Own(q).locked
    BY <1>1, OwnIsARow DEF UserRow
  <1> HIDE DEF row
  <1>3. /\ tx' = [tx EXCEPT ![q].row = row, ![q].phase = "commit"]
        /\ users' = users /\ misses' = misses
    BY DEF Deactivate, Write, row
  <1>4. /\ tx'[q] = [tx[q] EXCEPT !.row = row, !.phase = "commit"]
        /\ \A s \in Request \ {q} : tx'[s] = tx[s]
    BY <1>3 DEF IInv, TypeOK
  <1>5. /\ tx'[q].row = row /\ tx'[q].op = "remove" /\ tx'[q].user = tx[q].user
        /\ tx'[q].missed = tx[q].missed /\ tx'[q].cleared = tx[q].cleared
    BY <1>1, <1>4, Typed DEF Tx
  <1>6. NewMisses(q)' = NewMisses(q)
    BY <1>3, <1>5 DEF NewMisses
  <1>7. Tally(tx'[q].row, NewMisses(q)')
    BY <1>1, <1>2, <1>5, <1>6, OwnTally DEF Tally
  <1>8. tx'[q].missed = FALSE /\ tx'[q].cleared = FALSE
    BY <1>1, <1>5 DEF Counted, Tallied
  <1>9. Tallied(q)'
    BY <1>5, <1>7, <1>8 DEF Tallied, Tally
  <1> QED
    BY <1>3, <1>4, <1>9, CountedStep

\* What clear_lockout leaves behind, alone or with a new password.
LEMMA ClearCounted ==
  ASSUME IInv, Counted, NEW q \in Request, NEW row \in UserRow, row # NoRow,
         row.fails = 0, tx[q].phase # "commit", tx[q].op \in {"login", "complete"},
         \A s \in Request \ {q} : tx'[s] = tx[s], users' = users, misses' = misses,
         tx'[q].row = row, tx'[q].op = tx[q].op, tx'[q].cleared = TRUE,
         tx'[q].missed = tx[q].missed
  PROVE  Counted'
  <1>1. tx'[q].missed = FALSE
    BY DEF Counted, Tallied
  <1>2. NewMisses(q)' = 0 + 0
    BY <1>1 DEF NewMisses
  <1>3. Tally(tx'[q].row, NewMisses(q)')
    BY <1>2, AccountsAssumption DEF Tally
  <1>4. Tallied(q)'
    BY <1>1, <1>3 DEF Tallied, Tally
  <1> QED
    BY <1>4, CountedStep

LEMMA ClearLockoutCounted ==
  ASSUME IInv, Counted, NEW q \in Request, ClearLockout(q) PROVE Counted'
  <1> DEFINE row == Cleared(Own(q))
             next == IF tx[q].phase = "expired" THEN "verify" ELSE "commit"
  <1>1. tx[q].op = "login" /\ tx[q].user \in Admin /\ tx[q].phase # "commit"
    BY DEF ClearLockout, IInv, TypeOK, Tx, Op, Flow
  <1>2. row \in UserRow /\ row # NoRow /\ row.fails = 0
    <2>1. Own(q) \in UserRow /\ Own(q).status # "absent"
      BY <1>1, OwnIsARow DEF IInv, Known, Pending, Own
    <2>2. row \in UserRow /\ row.status # "absent"
      BY <2>1, ClearedIsARow
    <2>3. row.fails = 0
      BY <2>1 DEF Cleared, UserRow
    <2> QED
      BY <2>2, <2>3, Blank
  <1>3. /\ tx'[q] = [tx[q] EXCEPT !.row = row, !.cleared = TRUE, !.phase = next]
        /\ \A s \in Request \ {q} : tx'[s] = tx[s]
        /\ users' = users /\ misses' = misses
    BY DEF ClearLockout, IInv, TypeOK
  <1> HIDE DEF row, next
  <1>4. /\ tx'[q].row = row /\ tx'[q].op = tx[q].op /\ tx'[q].cleared = TRUE
        /\ tx'[q].missed = tx[q].missed
    BY <1>3, Typed DEF Tx
  <1> QED
    BY <1>1, <1>2, <1>3, <1>4, ClearCounted

LEMMA UpdatePasswordCounted ==
  ASSUME IInv, Counted, NEW q \in Request, UpdatePassword(q) PROVE Counted'
  <1> DEFINE row == [Cleared(Own(q)) EXCEPT !.password = tx[q].link]
  <1>1. /\ tx[q].op = "complete" /\ tx[q].user \in Admin /\ tx[q].phase # "commit"
        /\ tx[q].link \in Link \cup {None}
    BY DEF UpdatePassword, IInv, TypeOK, Tx, Op, Flow
  <1>2. row \in UserRow /\ row # NoRow /\ row.fails = 0
    <2>1. Own(q) \in UserRow /\ Own(q).status # "absent"
      BY <1>1, OwnIsARow DEF IInv, Known, Pending, Own
    <2>2. Cleared(Own(q)) \in UserRow /\ Cleared(Own(q)).status # "absent"
      BY <2>1, ClearedIsARow
    <2>3. Cleared(Own(q)).fails = 0
      BY <2>1 DEF Cleared, UserRow
    <2>4. row \in UserRow /\ row.status # "absent" /\ row.fails = 0
      BY <1>1, <2>2, <2>3 DEF UserRow
    <2> QED
      BY <2>4, Blank
  <1>3. /\ tx'[q] = [tx[q] EXCEPT !.phase = "commit", !.cleared = TRUE, !.row = row]
        /\ \A s \in Request \ {q} : tx'[s] = tx[s]
        /\ users' = users /\ misses' = misses
    BY DEF UpdatePassword, IInv, TypeOK
  <1> HIDE DEF row
  <1>4. /\ tx'[q].row = row /\ tx'[q].op = tx[q].op /\ tx'[q].cleared = TRUE
        /\ tx'[q].missed = tx[q].missed
    BY <1>3, Typed DEF Tx
  <1> QED
    BY <1>1, <1>2, <1>3, <1>4, ClearCounted

LEMMA CountMissCounted ==
  ASSUME IInv, Counted, NEW q \in Request, CountMiss(q) PROVE Counted'
  <1> DEFINE count == Own(q).fails + 1
             lock == IF count >= Threshold THEN tx[q].now + Duration ELSE Own(q).locked
             row == [Own(q) EXCEPT !.fails = count, !.locked = lock]
  <1>1. tx[q].op = "login" /\ tx[q].user \in Admin /\ tx[q].now \in Nat
    BY DEF CountMiss, IInv, TypeOK, Tx, Op, Flow
  <1>2. Own(q) \in UserRow /\ tx[q].phase # "commit"
    BY <1>1, OwnIsARow DEF CountMiss
  <1>3. row.fails = Own(q).fails + 1 /\ (row.fails >= Threshold => row.locked # None)
    <2>1. row.fails = count /\ row.locked = lock
      BY <1>2 DEF UserRow
    <2>2. count >= Threshold => lock # None
      BY <1>1, AccountsAssumption
    <2> QED
      BY <2>1, <2>2
  <1>4. row = [Own(q) EXCEPT !.fails = count, !.locked =
                 IF count >= Threshold THEN tx[q].now + Duration ELSE @]
    BY <1>2 DEF UserRow
  <1>5. /\ tx' = [tx EXCEPT ![q].phase = "commit", ![q].missed = TRUE, ![q].row = row]
        /\ users' = users /\ misses' = misses
    BY <1>4 DEF CountMiss
  <1>6. Own(q).fails \in Nat
    BY <1>2 DEF UserRow
  <1> HIDE DEF row
  <1>7. /\ tx'[q] = [tx[q] EXCEPT !.phase = "commit", !.missed = TRUE, !.row = row]
        /\ \A s \in Request \ {q} : tx'[s] = tx[s]
    BY <1>5 DEF IInv, TypeOK
  <1>8. /\ tx'[q].row = row /\ tx'[q].op = "login" /\ tx'[q].user = tx[q].user
        /\ tx'[q].phase = "commit" /\ tx'[q].missed = TRUE
        /\ tx'[q].cleared = tx[q].cleared
    BY <1>1, <1>7, Typed DEF Tx
  <1>9. row # NoRow
    <2>1. row.fails # 0
      BY <1>3, <1>6
    <2>2. NoRow.fails = 0
      BY DEF NoRow
    <2> QED
      BY <2>1, <2>2
  <1>10. NewMisses(q)' = Own(q).fails + 1
    <2> DEFINE kept == IF tx[q].cleared THEN 0 ELSE misses[tx[q].user]
    <2>1. tx[q].missed = FALSE
      BY <1>2 DEF Counted, Tallied
    <2>2. NewMisses(q) = kept + 0 /\ NewMisses(q)' = kept + 1
      BY <1>5, <1>8, <2>1 DEF NewMisses
    <2>3. kept \in Nat
      BY <1>1 DEF IInv, TypeOK
    <2>4. Own(q).fails = NewMisses(q)
      BY <1>1, OwnTally DEF Tally
    <2> HIDE DEF kept
    <2> QED
      BY <2>2, <2>3, <2>4
  <1>11. Tally(tx'[q].row, NewMisses(q)')
    BY <1>3, <1>8, <1>10 DEF Tally
  <1>12. Tallied(q)'
    BY <1>8, <1>9, <1>11 DEF Tallied, Tally
  <1> QED
    BY <1>5, <1>7, <1>12, CountedStep

LEMMA AcceptPasswordCounted ==
  ASSUME IInv, Counted, NEW q \in Request, NEW password \in Link \cup {None},
         AcceptPassword(q, password)
  PROVE  Counted'
  <1> DEFINE next == IF ~tx[q].cleared /\ Cleared(tx[q].read) # tx[q].read
                     THEN "clear" ELSE "commit"
  <1>1. PICK j \in Session \cup {None} :
          tx' = [tx EXCEPT ![q].session = j, ![q].phase = next]
    BY DEF AcceptPassword
  <1>2. tx[q].op = "login" /\ tx[q].phase # "commit" /\ users' = users /\ misses' = misses
    BY DEF AcceptPassword, IInv, TypeOK, Tx, Op, Flow
  <1> HIDE DEF next
  <1>3. /\ tx'[q] = [tx[q] EXCEPT !.session = j, !.phase = next]
        /\ \A s \in Request \ {q} : tx'[s] = tx[s]
    BY <1>1 DEF IInv, TypeOK
  <1>4. /\ tx'[q].row = tx[q].row /\ tx'[q].op = tx[q].op /\ tx'[q].user = tx[q].user
        /\ tx'[q].missed = tx[q].missed /\ tx'[q].cleared = tx[q].cleared
    BY <1>3, Typed DEF Tx
  <1>5. NewMisses(q)' = NewMisses(q)
    BY <1>2, <1>4 DEF NewMisses
  <1>6. Tallied(q)'
    BY <1>2, <1>4, <1>5 DEF Counted, Tallied
  <1> QED
    BY <1>2, <1>3, <1>6, CountedStep

LEMMA CheckRequiredCounted ==
  ASSUME IInv, Counted, NEW q \in Request, CheckRequired(q) PROVE Counted'
  <1>1. tx[q].op = "bootstrap" /\ tx[q].user \in Admin
    BY DEF CheckRequired, IInv, TypeOK, Tx, Op, Flow
  <1>2. CASE End(q)
    BY <1>2, EndCounted
  <1>3. ASSUME Present = {}, NEW j \in Session \cup {None},
               tx' = [tx EXCEPT ![q].phase = "commit", ![q].session = j,
                                ![q].row = [NoRow EXCEPT !.status = "active"]],
               UNCHANGED <<users, links, sessions, revoked, clock, misses>>
        PROVE  Counted'
    <2> DEFINE row == [NoRow EXCEPT !.status = "active"]
    <2>1. row.fails = 0
      BY DEF NoRow
    <2>2. /\ tx'[q] = [tx[q] EXCEPT !.phase = "commit", !.session = j, !.row = row]
          /\ \A s \in Request \ {q} : tx'[s] = tx[s]
      BY <1>3 DEF IInv, TypeOK
    <2>3. row # NoRow
      BY ActiveRow
    <2> HIDE DEF row
    <2>4. /\ tx'[q].row = row /\ tx'[q].op = "bootstrap" /\ tx'[q].user = tx[q].user
          /\ tx'[q].missed = tx[q].missed /\ tx'[q].cleared = tx[q].cleared
      BY <1>1, <2>2, Typed DEF Tx
    <2>5. tx'[q].missed = FALSE /\ tx'[q].cleared = FALSE
      BY <1>1, <2>4 DEF Counted, Tallied
    <2>6. misses[tx[q].user] = 0
      BY <1>1, <1>3 DEF Counted, Present
    <2>7. misses' = misses /\ users' = users
      BY <1>3
    <2>8. NewMisses(q)' = 0 + 0
      BY <2>4, <2>5, <2>6, <2>7 DEF NewMisses
    <2>9. Tally(tx'[q].row, NewMisses(q)')
      BY <2>1, <2>4, <2>8, AccountsAssumption DEF Tally
    <2>10. Tallied(q)'
      BY <2>3, <2>4, <2>5, <2>9 DEF Tallied, Tally
    <2> QED
      BY <2>2, <2>7, <2>10, CountedStep
  <1> QED
    BY <1>2, <1>3 DEF CheckRequired

LEMMA CommitCounted ==
  ASSUME IInv, Counted, NEW q \in Request, Commit(q) PROVE Counted'
  <1> DEFINE u == tx[q].user
  <1>1. tx'[q] = Idle /\ \A s \in Request \ {q} : tx'[s] = tx[s]
    BY DEF Commit, IInv, TypeOK
  <1>2. Tallied(q)'
    BY <1>1 DEF Tallied, Idle
  <1>3. CASE tx[q].row = NoRow
    <2>1. users' = users /\ misses' = misses
      BY <1>3 DEF Commit
    <2> QED
      BY <1>1, <1>2, <2>1, CountedStep
  <1>4. CASE tx[q].row # NoRow
    <2>1. u \in Admin
      BY <1>4 DEF IInv, Pending, Flow
    <2>2. users' = [users EXCEPT ![u] = tx[q].row] /\ misses' = [misses EXCEPT ![u] = NewMisses(q)]
      BY <1>4 DEF Commit
    <2>3. /\ users'[u] = tx[q].row /\ misses'[u] = NewMisses(q)
          /\ \A v \in Admin \ {u} : users'[v] = users[v] /\ misses'[v] = misses[v]
      BY <2>1, <2>2 DEF IInv, TypeOK
    <2>4. tx[q].row.status # "absent"
      BY <1>4 DEF IInv, Pending, Known
    <2>5. ASSUME NEW v \in Admin
          PROVE  (Tally(users[v], misses[v]) /\ (users[v].status = "absent" => misses[v] = 0))'
      <3>1. CASE v = u
        BY <1>4, <2>3, <2>4, <3>1 DEF Counted, Tallied, Tally
      <3>2. CASE v # u
        BY <2>3, <3>2 DEF Counted, Tally
      <3> QED
        BY <3>1, <3>2
    <2>6. ASSUME NEW s \in Request \ {q} PROVE Tallied(s)'
      <3>1. tx'[s] = tx[s] /\ Apart(q, s) /\ Flow(s) /\ Pending(s) /\ Tallied(s)
        BY <1>1 DEF IInv, Counted
      <3>2. CASE tx[s].row = NoRow
        BY <3>1, <3>2 DEF Tallied
      <3>3. CASE tx[s].row # NoRow
        <4>1. tx[s].user \in Admin \ {u}
          BY <1>4, <3>1, <3>3 DEF Apart, Flow, Pending
        <4>2. NewMisses(s)' = NewMisses(s)
          BY <2>3, <3>1, <4>1 DEF NewMisses
        <4> QED
          BY <3>1, <4>2 DEF Tallied, Tally
      <3> QED
        BY <3>2, <3>3
    <2> QED
      BY <1>2, <2>5, <2>6 DEF Counted
  <1> QED
    BY <1>3, <1>4

LEMMA InitCounted == Init => Counted
  <1> SUFFICES ASSUME Init PROVE Counted
    OBVIOUS
  <1>1. ASSUME NEW u \in Admin
        PROVE  Tally(users[u], misses[u]) /\ (users[u].status = "absent" => misses[u] = 0)
    <2>1. NoRow.fails = 0 /\ [NoRow EXCEPT !.status = "active"].fails = 0
      BY DEF NoRow
    <2>2. users[u].fails = 0 /\ misses[u] = 0
      BY <2>1 DEF Init
    <2> QED
      BY <2>2, AccountsAssumption DEF Tally
  <1>2. ASSUME NEW q \in Request PROVE Tallied(q)
    BY DEF Init, Tallied, Idle
  <1> QED
    BY <1>1, <1>2 DEF Counted

LEMMA StepCounted == IInv /\ Counted /\ [Next]_vars => Counted'
  <1> SUFFICES ASSUME IInv, Counted, [Next]_vars PROVE Counted'
    OBVIOUS
  <1>1. CASE Tick \/ UNCHANGED vars
    <2>1. users' = users /\ misses' = misses /\ tx' = tx
      BY <1>1 DEF Tick, vars
    <2>2. \A q \in Request : NewMisses(q)' = NewMisses(q)
      BY <2>1 DEF NewMisses
    <2> QED
      BY <2>1, <2>2 DEF Counted, Tallied
  <1>2. ASSUME NEW q \in Request, Statement(q) PROVE Counted'
    <2>1. CASE Commit(q)
      BY <2>1, CommitCounted
    <2>2. CASE CheckRequired(q)
      BY <2>2, CheckRequiredCounted
    <2>3. CASE AcquireBootstrapLock(q) \/ AcquireRemovalLock(q) \/ MarkUsed(q) \/ Revoke(q)
      BY <2>3, ToCounted DEF AcquireBootstrapLock, AcquireRemovalLock, MarkUsed, Revoke
    <2>4. CASE CountAdministrators(q)
      BY <2>4, ToCounted, EndCounted DEF CountAdministrators
    <2>5. CASE \E password \in Link \cup {None} : RejectPassword(q, password)
      BY <2>5, ToCounted DEF RejectPassword
    <2>6. CASE \E password \in Link \cup {None} : AcceptPassword(q, password)
      BY <2>6, AcceptPasswordCounted
    <2>7. CASE Deactivate(q) \/ ClearLockout(q) \/ CountMiss(q) \/ UpdatePassword(q)
      BY <2>7, DeactivateCounted, ClearLockoutCounted, CountMissCounted,
         UpdatePasswordCounted
    <2> QED
      BY <1>2, <2>1, <2>2, <2>3, <2>4, <2>5, <2>6, <2>7 DEF Statement
  <1>3. ASSUME NEW q \in Request, Arrival(q) \/ Rollback(q) PROVE Counted'
    BY <1>3, ArrivalCounted, EndCounted DEF Rollback
  <1> QED
    BY <1>1, <1>2, <1>3 DEF Next

\* Threshold wrong passwords since the counter was last cleared always leave the
\* account locked, however their logins overlap (increment_failed_login_count).
THEOREM EveryMissCounts == Spec => []LockoutEngages
  <1>1. IInv /\ Counted => LockoutEngages
    BY DEF Counted, Tally, LockoutEngages
  <1>2. Spec => []Counted
    BY InitCounted, StepCounted, InductiveInvariant, PTL DEF Spec
  <1> QED
    BY <1>1, <1>2, InductiveInvariant, PTL

-----------------------------------------------------------------------------
(* The lock of an account *)

\* A login that gets as far as writing had not met a lock; a removal writes the
\* status only.
Informed(q) ==
  /\ tx[q].op = "login" =>
       /\ tx[q].now <= clock
       /\ tx[q].phase = "verify" /\ tx[q].read.status = "active" =>
            ~Locked(tx[q].read, tx[q].now)
       /\ tx[q].phase \in {"expired", "miss", "clear"} \/ tx[q].row # NoRow =>
            ~Locked(tx[q].read, tx[q].now)
  /\ tx[q].op = "remove" /\ tx[q].row # NoRow =>
       tx[q].row.locked = users[tx[q].user].locked

Locks ==
  /\ \A u \in Admin : users[u].status = "absent" => users[u].locked = None
  /\ \A q \in Request : Informed(q)

LEMMA LocksStep ==
  ASSUME IInv, Locks, NEW q \in Request,
         \A s \in Request \ {q} : tx'[s] = tx[s],
         UNCHANGED <<users, clock>>, Informed(q)'
  PROVE  Locks'
  <1>1. ASSUME NEW s \in Request \ {q} PROVE Informed(s)'
    BY DEF Locks, Informed, Locked
  <1> QED
    BY <1>1 DEF Locks

\* A request of another kind, or one that starts.
LEMMA OtherLocks ==
  ASSUME IInv, Locks, NEW q \in Request, NEW t,
         tx' = [tx EXCEPT ![q] = t], UNCHANGED <<users, clock>>,
         t.op # "login", t.op # "remove" \/ t.row = NoRow
  PROVE  Locks'
  <1>1. tx'[q] = t /\ \A s \in Request \ {q} : tx'[s] = tx[s]
    BY DEF IInv, TypeOK
  <1>2. Informed(q)'
    BY <1>1 DEF Informed
  <1> QED
    BY <1>1, <1>2, LocksStep

LEMMA ArrivalLocks ==
  ASSUME IInv, Locks, NEW q \in Request, Arrival(q) PROVE Locks'
  <1>1. ASSUME NEW u \in Admin, Bootstrap(q, u) PROVE Locks'
    <2> DEFINE t == [Idle EXCEPT !.op = "bootstrap", !.phase = "lock", !.user = u,
                                 !.now = clock]
    <2>1. t.op = "bootstrap"
      BY Blank DEF Tx
    <2>2. tx' = [tx EXCEPT ![q] = t] /\ UNCHANGED <<users, clock>>
      BY <1>1 DEF Bootstrap, Begin
    <2> HIDE DEF t
    <2> QED
      BY <2>1, <2>2, OtherLocks
  <1>2. ASSUME NEW u \in Admin, Login(q, u) PROVE Locks'
    <2> DEFINE t == [Idle EXCEPT !.op = "login", !.user = u, !.now = clock,
                 !.read = users[u], !.phase =
                 IF users[u].locked # None /\ ~Locked(users[u], clock)
                 THEN "expired" ELSE "verify"]
    <2>1. /\ t.op = "login" /\ t.row = NoRow /\ t.now = clock /\ t.read = users[u]
          /\ t.phase = IF users[u].locked # None /\ ~Locked(users[u], clock)
                       THEN "expired" ELSE "verify"
      BY Blank DEF Tx
    <2>2. /\ tx' = [tx EXCEPT ![q] = t] /\ UNCHANGED <<users, clock>>
          /\ ~(users[u].status = "active" /\ Locked(users[u], clock))
      BY <1>2 DEF Login, Begin
    <2> HIDE DEF t
    <2>3. tx'[q] = t /\ \A s \in Request \ {q} : tx'[s] = tx[s]
      BY <2>2 DEF IInv, TypeOK
    <2>4. clock <= clock
      BY DEF IInv, TypeOK
    <2>5. tx'[q].now <= clock'
      BY <2>1, <2>2, <2>3, <2>4
    <2>6. /\ tx'[q].op = "login" /\ tx'[q].row = NoRow
          /\ tx'[q].phase = "expired" => ~Locked(tx'[q].read, tx'[q].now)
          /\ tx'[q].phase \in {"expired", "verify"}
          /\ tx'[q].read.status = "active" => ~Locked(tx'[q].read, tx'[q].now)
      BY <2>1, <2>2, <2>3
    <2>7. Informed(q)'
      BY <2>5, <2>6 DEF Informed, Locked
    <2> QED
      BY <2>2, <2>3, <2>7, LocksStep
  <1>3. ASSUME NEW j \in Session, NEW u \in Admin, RemoveUser(q, j, u) PROVE Locks'
    <2> DEFINE t == [Idle EXCEPT !.op = "remove", !.user = u, !.read = users[u],
                 !.phase = IF users[u].status = "active" THEN "guard" ELSE "deactivate"]
    <2>1. t.op = "remove" /\ t.row = NoRow
      BY Blank DEF Tx
    <2>2. tx' = [tx EXCEPT ![q] = t] /\ UNCHANGED <<users, clock>>
      BY <1>3 DEF RemoveUser, Begin
    <2> HIDE DEF t
    <2> QED
      BY <2>1, <2>2, OtherLocks
  <1>4. ASSUME NEW u \in Admin, NEW l \in Link, RequestReset(q, u, l) PROVE Locks'
    <2> DEFINE t == [Idle EXCEPT !.op = "forgot", !.phase = "commit", !.user = u,
                                 !.now = clock, !.link = l]
    <2>1. t.op = "forgot"
      BY Blank DEF Tx
    <2>2. tx' = [tx EXCEPT ![q] = t] /\ UNCHANGED <<users, clock>>
      BY <1>4 DEF RequestReset, Begin
    <2> HIDE DEF t
    <2> QED
      BY <2>1, <2>2, OtherLocks
  <1>5. ASSUME NEW l \in Link, CompleteReset(q, l) PROVE Locks'
    <2> DEFINE t == [Idle EXCEPT !.op = "complete", !.phase = "use", !.link = l,
                                 !.user = links[l].user, !.read = users[links[l].user]]
    <2>1. t.op = "complete"
      BY Blank DEF Tx
    <2>2. tx' = [tx EXCEPT ![q] = t] /\ UNCHANGED <<users, clock>>
      BY <1>5 DEF CompleteReset, Begin
    <2> HIDE DEF t
    <2> QED
      BY <2>1, <2>2, OtherLocks
  <1>6. ASSUME NEW j \in Session, Logout(q, j) PROVE Locks'
    <2> DEFINE t == [Idle EXCEPT !.op = "logout", !.phase = "revoke", !.session = j]
    <2>1. t.op = "logout"
      BY Blank DEF Tx
    <2>2. tx' = [tx EXCEPT ![q] = t] /\ UNCHANGED <<users, clock>>
      BY <1>6 DEF Logout, Begin
    <2> HIDE DEF t
    <2> QED
      BY <2>1, <2>2, OtherLocks
  <1> QED
    BY <1>1, <1>2, <1>3, <1>4, <1>5, <1>6 DEF Arrival

LEMMA EndLocks ==
  ASSUME IInv, Locks, NEW q \in Request, End(q) PROVE Locks'
  BY OtherLocks, Blank DEF End

\* The statements of a login: row, read and time as before, or a row written by
\* one that met no lock.
LEMMA LoginLocks ==
  ASSUME IInv, Locks, NEW q \in Request,
         \A s \in Request \ {q} : tx'[s] = tx[s], UNCHANGED <<users, clock>>,
         tx[q].op = "login", tx'[q].op = "login",
         tx'[q].now = tx[q].now, tx'[q].read = tx[q].read,
         \/ tx[q].phase \in {"expired", "miss", "clear"}
         \/ /\ tx[q].phase = "verify"
            /\ tx'[q].row = tx[q].row
            /\ tx'[q].phase # "commit" => tx[q].read.status = "active",
         tx'[q].phase \in {"verify", "miss", "clear", "commit"}
  PROVE  Locks'
  <1>1. Informed(q)
    BY DEF Locks
  <1>2. tx[q].phase # "verify" => ~Locked(tx[q].read, tx[q].now)
    BY <1>1 DEF Informed
  <1>3. tx[q].phase = "verify" /\ tx'[q].phase # "commit" => ~Locked(tx[q].read, tx[q].now)
    BY <1>1 DEF Informed
  <1>4. tx'[q].phase # "commit" \/ tx'[q].row # NoRow => ~Locked(tx[q].read, tx[q].now)
    BY <1>1, <1>2, <1>3 DEF Informed
  <1>5. Informed(q)'
    BY <1>1, <1>4 DEF Informed, Locked
  <1> QED
    BY <1>5, LocksStep

\* A statement that only moves on: the row stays what it was.
LEMMA ToLocks ==
  ASSUME IInv, Locks, NEW q \in Request, NEW phase, To(q, phase), tx[q].op # "login"
  PROVE  Locks'
  <1>1. /\ tx'[q] = [tx[q] EXCEPT !.phase = phase]
        /\ \A s \in Request \ {q} : tx'[s] = tx[s]
        /\ users' = users /\ clock' = clock
    BY DEF To, IInv, TypeOK
  <1>2. tx'[q].row = tx[q].row /\ tx'[q].op = tx[q].op /\ tx'[q].user = tx[q].user
    BY <1>1, Typed DEF Tx
  <1>3. Informed(q)'
    BY <1>1, <1>2 DEF Locks, Informed
  <1> QED
    BY <1>1, <1>3, LocksStep

LEMMA DeactivateLocks ==
  ASSUME IInv, Locks, NEW q \in Request, Deactivate(q) PROVE Locks'
  <1> DEFINE row == [Own(q) EXCEPT !.status = "inactive"]
  <1>1. tx[q].op = "remove" /\ tx[q].user \in Admin
    BY DEF Deactivate, IInv, TypeOK, Tx, Op, Flow
  <1>2. row.locked = Own(q).locked /\ Own(q).locked = users[tx[q].user].locked
    BY <1>1, OwnIsARow DEF UserRow, Own, Locks, Informed
  <1> HIDE DEF row
  <1>3. /\ tx' = [tx EXCEPT ![q].row = row, ![q].phase = "commit"]
        /\ users' = users /\ clock' = clock
    BY DEF Deactivate, Write, row
  <1>4. /\ tx'[q] = [tx[q] EXCEPT !.row = row, !.phase = "commit"]
        /\ \A s \in Request \ {q} : tx'[s] = tx[s]
    BY <1>3 DEF IInv, TypeOK
  <1>5. tx'[q].row = row /\ tx'[q].op = "remove" /\ tx'[q].user = tx[q].user
    BY <1>1, <1>4, Typed DEF Tx
  <1>6. Informed(q)'
    BY <1>2, <1>3, <1>5 DEF Informed
  <1> QED
    BY <1>3, <1>4, <1>6, LocksStep

LEMMA LoginStatementLocks ==
  ASSUME IInv, Locks, NEW q \in Request, NEW password \in Link \cup {None},
         \/ ClearLockout(q) \/ RejectPassword(q, password)
         \/ AcceptPassword(q, password) \/ CountMiss(q)
  PROVE  Locks'
  <1>1. /\ tx[q].op = "login" /\ UNCHANGED <<users, clock>>
        /\ \A s \in Request \ {q} : tx'[s] = tx[s]
    BY DEF ClearLockout, RejectPassword, AcceptPassword, CountMiss, To,
           IInv, TypeOK, Tx, Op, Flow
  <1>2. CASE ClearLockout(q)
    <2> DEFINE next == IF tx[q].phase = "expired" THEN "verify" ELSE "commit"
               row == Cleared(Own(q))
    <2>1. tx'[q] = [tx[q] EXCEPT !.row = row, !.cleared = TRUE, !.phase = next]
      BY <1>2 DEF ClearLockout, IInv, TypeOK
    <2>2. next \in {"verify", "commit"} /\ tx[q].phase \in {"expired", "clear"}
      BY <1>2 DEF ClearLockout
    <2> HIDE DEF next, row
    <2>3. /\ tx'[q].op = "login" /\ tx'[q].now = tx[q].now /\ tx'[q].read = tx[q].read
          /\ tx'[q].phase = next
      BY <1>1, <2>1, Typed DEF Tx
    <2> QED
      BY <1>1, <2>2, <2>3, LoginLocks
  <1>3. CASE RejectPassword(q, password)
    <2>1. PICK phase \in {"commit", "miss"} :
            To(q, phase) /\ (phase = "miss" => tx[q].read.status = "active")
      BY <1>3 DEF RejectPassword
    <2>2. tx'[q] = [tx[q] EXCEPT !.phase = phase]
      BY <2>1 DEF To, IInv, TypeOK
    <2>3. /\ tx'[q].op = "login" /\ tx'[q].now = tx[q].now /\ tx'[q].read = tx[q].read
          /\ tx'[q].phase = phase /\ tx'[q].row = tx[q].row /\ tx[q].phase = "verify"
      BY <1>1, <1>3, <2>2, Typed DEF Tx, RejectPassword
    <2> QED
      BY <1>1, <2>1, <2>3, LoginLocks
  <1>4. CASE AcceptPassword(q, password)
    <2> DEFINE next == IF ~tx[q].cleared /\ Cleared(tx[q].read) # tx[q].read
                       THEN "clear" ELSE "commit"
    <2>1. next \in {"clear", "commit"}
      OBVIOUS
    <2>2. PICK j \in Session \cup {None} :
            tx' = [tx EXCEPT ![q].session = j, ![q].phase = next]
      BY <1>4 DEF AcceptPassword
    <2> HIDE DEF next
    <2>3. tx'[q] = [tx[q] EXCEPT !.session = j, !.phase = next]
      BY <2>2 DEF IInv, TypeOK
    <2>4. /\ tx'[q].op = "login" /\ tx'[q].now = tx[q].now /\ tx'[q].read = tx[q].read
          /\ tx'[q].phase = next /\ tx'[q].row = tx[q].row
      BY <1>1, <2>3, Typed DEF Tx
    <2>5. tx[q].phase = "verify" /\ tx[q].read.status = "active"
      BY <1>4 DEF AcceptPassword
    <2> QED
      BY <1>1, <2>1, <2>4, <2>5, LoginLocks
  <1>5. CASE CountMiss(q)
    <2>1. PICK row : tx' = [tx EXCEPT ![q].phase = "commit", ![q].missed = TRUE, ![q].row = row]
      BY <1>5 DEF CountMiss
    <2>2. tx'[q] = [tx[q] EXCEPT !.phase = "commit", !.missed = TRUE, !.row = row]
      BY <2>1 DEF IInv, TypeOK
    <2>3. /\ tx'[q].op = "login" /\ tx'[q].now = tx[q].now /\ tx'[q].read = tx[q].read
          /\ tx'[q].phase = "commit"
      BY <1>1, <2>2, Typed DEF Tx
    <2>4. tx[q].phase = "miss"
      BY <1>5 DEF CountMiss
    <2> QED
      BY <1>1, <2>3, <2>4, LoginLocks
  <1> QED
    BY <1>2, <1>3, <1>4, <1>5

LEMMA CommitLocks ==
  ASSUME IInv, Locks, NEW q \in Request, Commit(q) PROVE Locks'
  <1> DEFINE u == tx[q].user
  <1>1. /\ tx'[q] = Idle /\ \A s \in Request \ {q} : tx'[s] = tx[s]
        /\ clock' = clock
    BY DEF Commit, IInv, TypeOK
  <1>2. Informed(q)'
    BY <1>1, Blank DEF Informed
  <1>3. CASE tx[q].row = NoRow
    <2>1. users' = users
      BY <1>3 DEF Commit
    <2> QED
      BY <1>1, <1>2, <2>1, LocksStep
  <1>4. CASE tx[q].row # NoRow
    <2>1. u \in Admin /\ tx[q].row.status # "absent"
      BY <1>4 DEF IInv, Pending, Flow, Known
    <2>2. users' = [users EXCEPT ![u] = tx[q].row]
      BY <1>4 DEF Commit
    <2>3. users'[u] = tx[q].row /\ \A v \in Admin \ {u} : users'[v] = users[v]
      BY <2>1, <2>2 DEF IInv, TypeOK
    <2>4. \A v \in Admin : users'[v].status = "absent" => users'[v].locked = None
      BY <2>1, <2>3 DEF Locks
    <2>5. ASSUME NEW s \in Request \ {q} PROVE Informed(s)'
      <3>1. tx'[s] = tx[s] /\ Apart(q, s) /\ Flow(s) /\ Pending(s) /\ Informed(s)
        BY <1>1 DEF IInv, Locks
      <3>2. tx[s].op = "remove" /\ tx[s].row # NoRow => tx[s].user \in Admin \ {u}
        BY <1>4, <3>1 DEF Apart, Flow
      <3> QED
        BY <1>1, <2>3, <3>1, <3>2 DEF Informed, Locked
    <2> QED
      BY <1>2, <2>4, <2>5 DEF Locks
  <1> QED
    BY <1>3, <1>4

LEMMA InitLocks == Init => Locks
  <1> SUFFICES ASSUME Init PROVE Locks
    OBVIOUS
  <1>1. NoRow.locked = None /\ [NoRow EXCEPT !.status = "active"].locked = None
    BY DEF NoRow
  <1>2. \A u \in Admin : users[u].locked = None
    BY <1>1 DEF Init
  <1>3. ASSUME NEW q \in Request PROVE Informed(q)
    BY Blank DEF Init, Informed
  <1> QED
    BY <1>2, <1>3 DEF Locks

LEMMA StepLocks == IInv /\ Locks /\ [Next]_vars => Locks'
  <1> SUFFICES ASSUME IInv, Locks, [Next]_vars PROVE Locks'
    OBVIOUS
  <1>1. CASE Tick
    <2>1. clock \in Nat /\ users' = users /\ tx' = tx /\ clock' = clock + 1
      BY <1>1 DEF Tick, IInv, TypeOK
    <2>2. ASSUME NEW q \in Request PROVE Informed(q)'
      <3>1. tx[q].now \in Nat
        BY Typed DEF Tx
      <3>2. tx[q].now <= clock => tx[q].now <= clock'
        BY <2>1, <3>1
      <3>3. Informed(q) /\ tx'[q] = tx[q]
        BY <2>1 DEF Locks
      <3> QED
        BY <2>1, <3>2, <3>3 DEF Informed, Locked
    <2> QED
      BY <2>1, <2>2 DEF Locks
  <1>2. ASSUME NEW q \in Request, Statement(q) PROVE Locks'
    <2>1. CASE Commit(q)
      BY <2>1, CommitLocks
    <2>2. CASE CheckRequired(q)
      <3>1. CASE End(q)
        BY <3>1, EndLocks
      <3>2. CASE ~End(q)
        <4>1. tx[q].op = "bootstrap" /\ UNCHANGED <<users, clock>>
          BY <2>2, <3>2 DEF CheckRequired, IInv, TypeOK, Tx, Op, Flow
        <4>2. PICK j, row : tx' = [tx EXCEPT ![q].phase = "commit", ![q].session = j,
                                             ![q].row = row]
          BY <2>2, <3>2 DEF CheckRequired
        <4>3. /\ tx'[q] = [tx[q] EXCEPT !.phase = "commit", !.session = j, !.row = row]
              /\ \A s \in Request \ {q} : tx'[s] = tx[s]
          BY <4>2 DEF IInv, TypeOK
        <4>4. tx'[q].op = "bootstrap"
          BY <4>1, <4>3, Typed DEF Tx
        <4>5. Informed(q)'
          BY <4>4 DEF Informed
        <4> QED
          BY <4>1, <4>3, <4>5, LocksStep
      <3> QED
        BY <3>1, <3>2
    <2>3. CASE \/ AcquireBootstrapLock(q) \/ AcquireRemovalLock(q)
               \/ MarkUsed(q) \/ Revoke(q)
      <3>1. tx[q].op # "login"
        BY <2>3
        DEF AcquireBootstrapLock, AcquireRemovalLock, MarkUsed, Revoke, IInv, Flow
      <3> QED
        BY <2>3, <3>1, ToLocks
        DEF AcquireBootstrapLock, AcquireRemovalLock, MarkUsed, Revoke
    <2>4. CASE CountAdministrators(q)
      <3>1. tx[q].op # "login"
        BY <2>4 DEF CountAdministrators, IInv, Flow
      <3> QED
        BY <2>4, <3>1, ToLocks, EndLocks DEF CountAdministrators
    <2>5. CASE \/ ClearLockout(q) \/ CountMiss(q)
               \/ \E password \in Link \cup {None} :
                    RejectPassword(q, password) \/ AcceptPassword(q, password)
      BY <2>5, LoginStatementLocks
    <2>6. CASE Deactivate(q)
      BY <2>6, DeactivateLocks
    <2>7. CASE UpdatePassword(q)
      <3>1. tx[q].op = "complete" /\ UNCHANGED <<users, clock>>
        BY <2>7 DEF UpdatePassword, IInv, TypeOK, Tx, Op, Flow
      <3>2. PICK row : tx' = [tx EXCEPT ![q].phase = "commit", ![q].cleared = TRUE,
                                        ![q].row = row]
        BY <2>7 DEF UpdatePassword
      <3>3. /\ tx'[q] = [tx[q] EXCEPT !.phase = "commit", !.cleared = TRUE, !.row = row]
            /\ \A s \in Request \ {q} : tx'[s] = tx[s]
        BY <3>2 DEF IInv, TypeOK
      <3>4. tx'[q].op = "complete"
        BY <3>1, <3>3, Typed DEF Tx
      <3>5. Informed(q)'
        BY <3>4 DEF Informed
      <3> QED
        BY <3>1, <3>3, <3>5, LocksStep
    <2> QED
      BY <1>2, <2>1, <2>2, <2>3, <2>4, <2>5, <2>6, <2>7 DEF Statement
  <1>3. ASSUME NEW q \in Request, Arrival(q) \/ Rollback(q) PROVE Locks'
    BY <1>3, ArrivalLocks, EndLocks DEF Rollback
  <1>4. CASE UNCHANGED vars
    BY <1>4 DEF vars, Locks, Informed, Locked
  <1> QED
    BY <1>1, <1>2, <1>3, <1>4 DEF Next

\* A lock in force goes only by a completed reset or by a login that read the
\* account before that lock was set.
LEMMA LockKept ==
  ASSUME IInv, Locks, [Next]_vars, NEW u \in Admin,
         users[u].locked # None, users[u].locked > clock,
         users'[u].locked # users[u].locked
  PROVE  \E q \in Request :
           /\ tx[q].user = u /\ tx'[q] = Idle
           /\ \/ tx[q].op = "complete"
              \/ tx[q].op = "login" /\ tx[q].read.locked # users[u].locked
  <1>1. users' # users
    OBVIOUS
  <1>2. PICK q \in Request : Commit(q)
    BY <1>1, CommitOnly
  <1>3. tx[q].row # NoRow /\ tx[q].user \in Admin
    BY <1>1, <1>2 DEF Commit, IInv, Flow, Pending
  <1>4. users' = [users EXCEPT ![tx[q].user] = tx[q].row] /\ tx'[q] = Idle
    BY <1>2, <1>3 DEF Commit, IInv, TypeOK
  <1>5. tx[q].user = u /\ users'[u] = tx[q].row
    BY <1>3, <1>4 DEF IInv, TypeOK
  <1>6. tx[q].op \in {"login", "complete"}
    <2>1. tx[q].op # "bootstrap"
      BY <1>2 DEF IInv, Known, Commit, Locks
    <2>2. tx[q].op # "remove"
      BY <1>3, <1>5 DEF Locks, Informed
    <2> QED
      BY <1>3, <2>1, <2>2 DEF IInv, Pending
  <1>7. ASSUME tx[q].op = "login" PROVE tx[q].read.locked # users[u].locked
    <2>1. tx[q].now \in Nat /\ tx[q].now <= clock /\ clock \in Nat
      BY <1>7, Typed DEF Tx, IInv, TypeOK, Locks, Informed
    <2>2. users[u].locked \in Nat
      BY DEF IInv, TypeOK, UserRow
    <2>3. ~(tx[q].read.locked # None /\ tx[q].read.locked > tx[q].now)
      BY <1>3, <1>7 DEF Locks, Informed, Locked
    <2>4. users[u].locked > tx[q].now
      BY <2>1, <2>2
    <2> QED
      BY <2>3, <2>4
  <1> QED
    BY <1>4, <1>5, <1>6, <1>7

\* Nobody who met the lock of an account undoes it (AccountLocked).
THEOREM LocksAreKept == Spec => LockHolds
  <1>1. Spec => []Locks
    BY InitLocks, StepLocks, InductiveInvariant, PTL DEF Spec
  <1>2. IInv /\ Locks /\ [Next]_vars =>
          [\A u \in Admin :
             /\ users[u].locked # None /\ users[u].locked > clock
             /\ users'[u].locked # users[u].locked
             => \E q \in Request :
                  /\ tx[q].user = u /\ tx'[q] = Idle
                  /\ \/ tx[q].op = "complete"
                     \/ /\ tx[q].op = "login"
                        /\ tx[q].read.locked # users[u].locked]_vars
    BY LockKept
  <1> QED
    BY <1>1, <1>2, InductiveInvariant, PTL DEF LockHolds, Spec
=============================================================================
