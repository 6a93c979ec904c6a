-------------------------- MODULE DirectoryProofs --------------------------
(***************************************************************************)
(* Proofs about Directory, for any sets of users, numbers and requests:    *)
(* types, unique numbers, single consents, versions, and that requests     *)
(* never wait for each other in a circle.                                  *)
(***************************************************************************)
EXTENDS Directory, TLAPS

-----------------------------------------------------------------------------
(* The inductive invariant *)

Writing == {"index", "scan", "revoke", "commit"}

\* Which statements a request of each kind runs, and on which user: nobody
\* else has heard of the user a request creates, and users never disappear.
Flow(q) ==
  /\ tx[q].op = "none" <=> tx[q].phase = "idle"
  /\ tx[q].op = "create" => tx[q].phase \in {"number", "insert"}
  /\ tx[q].op = "update" => tx[q].phase \in {"number", "lock"} \cup Writing
  /\ tx[q].op = "remove" => tx[q].phase \in {"lock", "commit"}
  /\ tx[q].op = "grant" => tx[q].phase \in {"active", "insert", "commit"}
  /\ tx[q].op = "revoke" => tx[q].phase \in {"active", "scan", "revoke", "commit"}
  /\ tx[q].op # "none" => tx[q].user \in User
  /\ tx[q].op \in {"create", "update"} => tx[q].mobile \in Mobile
  /\ tx[q].op = "create" => users[tx[q].user].status = "absent"
  /\ tx[q].op \notin {"none", "create"} => users[tx[q].user].status # "absent"

\* What an edit has read: an earlier state of the row, or the present one.
Read(q) ==
  /\ tx[q].op \in {"update", "grant"} => tx[q].target # NoRow
  /\ tx[q].op = "update" =>
       /\ tx[q].target.version <= users[tx[q].user].version
       /\ tx[q].target.version = users[tx[q].user].version
            => tx[q].target = users[tx[q].user]

\* What a request has written follows the committed row by one version.
Pending(q) ==
  /\ tx[q].row # NoRow <=> tx[q].op \in {"update", "remove"} /\ tx[q].phase \in Writing
  /\ tx[q].row # NoRow =>
       /\ tx[q].row.version = users[tx[q].user].version + 1
       /\ tx[q].op = "update" =>
            /\ tx[q].target = users[tx[q].user]
            /\ tx[q].row.status = users[tx[q].user].status
            /\ tx[q].row.mobile = tx[q].mobile
       /\ tx[q].op = "remove" =>
            /\ tx[q].row.status = "inactive"
            /\ tx[q].row.mobile = users[tx[q].user].mobile

\* q has entered its number into the unique index, and keeps others out of it.
Entered(q) ==
  tx[q].row # NoRow /\ tx[q].phase # "index" /\ tx[q].row.status = "active"

Reserved(q) == Entered(q) => ActiveWith(tx[q].row.mobile) \subseteq {tx[q].user}

Granting(q) == tx[q].op = "grant" /\ tx[q].phase = "commit"

\* The consents a request holds: it adds one where there is none.
Consented(q) ==
  /\ tx[q].seen \subseteq ConsentsOf(tx[q].user)
  /\ tx[q].seen # {} => tx[q].phase = "revoke"
  /\ tx[q].revoked # {} => tx[q].phase = "commit"
  /\ Granting(q) =>
       /\ tx[q].granted =
            {[user |-> tx[q].user, mobile |-> tx[q].target.mobile, by |-> q]}
       /\ ConsentsOf(tx[q].user) = {}
  /\ ~Granting(q) => tx[q].granted = {}

\* Where no grant overlaps an edit, a grant knows the user's number, and an edit
\* that changes it revokes every consent the user has.
Unraced(q) ==
  tx[q].op # "none" /\ tx[q].user \notin raced =>
    /\ tx[q].op = "grant" => tx[q].target.mobile = users[tx[q].user].mobile
    /\ tx[q].op = "update" /\ MobileChanged(q) /\ tx[q].phase = "revoke" =>
         ConsentsOf(tx[q].user) \subseteq tx[q].seen
    /\ tx[q].op = "update" /\ MobileChanged(q) /\ tx[q].phase = "commit" =>
         ConsentsOf(tx[q].user) \subseteq tx[q].revoked
    /\ tx[q].op = "update" /\ tx[q].phase = "scan" => MobileChanged(q)

Local(q) == Flow(q) /\ Read(q) /\ Pending(q) /\ Reserved(q) /\ Consented(q) /\ Unraced(q)

\* A written row, a created user, an entered number and an added consent belong
\* to one request; a grant that overlaps an edit is recorded.
Apart(q, s) ==
  /\ tx[q].user = tx[s].user =>
       /\ ~(tx[q].row # NoRow /\ tx[s].row # NoRow)
       /\ tx[q].op # "create"
       /\ ~(Granting(q) /\ Granting(s))
       /\ tx[q].op = "grant" /\ tx[s].op = "update" => tx[q].user \in raced
  /\ Entered(q) /\ Entered(s) => tx[q].row.mobile # tx[s].row.mobile

\* r has found the number it wants free, yet s edits a user who has it by now:
\* s has begun after r looked.
Behind(r, s) ==
  /\ tx[r].op = "update" /\ tx[r].phase \in {"lock", "index"}
  /\ tx[s].op = "update" /\ tx[s].user # tx[r].user
  /\ tx[s].user \in ActiveWith(tx[r].mobile)
  /\ tx[s].target = users[tx[s].user]

\* So the edits that want each other's numbers are ordered in time.
InOrder ==
  \A group \in (SUBSET Request) \ {{}} :
    \E r \in group : \A s \in group : ~Behind(r, s)

ConsentsHaveUsers == \A c \in consents : users[c.user].status # "absent"

IInv ==
  /\ TypeOK
  /\ \A q \in Request : Local(q)
  /\ \A q, s \in Request : q # s => Apart(q, s)
  /\ InOrder
  /\ ConsentsHaveUsers
  /\ ActiveMobileUnique
  /\ OneActiveConsent
  /\ OnlyRacesSplitConsent

-----------------------------------------------------------------------------
(* Rows and blank requests *)

LEMMA Rows ==
  ASSUME NEW row \in UserRow
  PROVE  /\ row.version \in Nat
         /\ row.status \in {"absent", "active", "inactive"}
         /\ row.status = "absent" <=> row = NoRow
         /\ row # NoRow => row.mobile \in Mobile /\ row.version \in 1..MaxVersion
         /\ row.version = 0 <=> row = NoRow
         /\ row.mobile \in Mobile \cup {None}
  BY DirectoryAssumption DEF UserRow, NoRow

LEMMA BlankRequest ==
  /\ Idle \in Tx /\ NoRow \in UserRow
  /\ Idle.op = "none" /\ Idle.phase = "idle" /\ Idle.row = NoRow
  /\ Idle.user = None /\ Idle.mobile = None /\ Idle.target = NoRow
  /\ Idle.seen = {} /\ Idle.granted = {} /\ Idle.revoked = {}
  BY DEF Idle, NoRow, UserRow, Tx, Op, Phase

LEMMA Typed ==
  ASSUME TypeOK, NEW q \in Request
  PROVE  tx[q] \in Tx
  BY DEF TypeOK

LEMMA Fields ==
  ASSUME NEW request \in Tx
  PROVE  /\ request.op \in Op /\ request.phase \in Phase
         /\ request.user \in User \cup {None} /\ request.mobile \in Mobile \cup {None}
         /\ request.target \in UserRow /\ request.row \in UserRow
         /\ request.seen \subseteq Consent /\ request.granted \subseteq Consent
         /\ request.revoked \subseteq Consent
  BY DEF Tx

LEMMA IdleLocal ==
  ASSUME NEW q \in Request, tx[q] = Idle
  PROVE  Local(q)
  <1>1. Flow(q)
    BY BlankRequest DEF Flow
  <1>2. Read(q) /\ Pending(q)
    BY BlankRequest DEF Read, Pending
  <1>3. Reserved(q) /\ Unraced(q)
    BY BlankRequest DEF Reserved, Entered, Unraced
  <1>4. Consented(q)
    BY BlankRequest DEF Consented, Granting
  <1> QED
    BY <1>1, <1>2, <1>3, <1>4 DEF Local

LEMMA EndsLocal ==
  ASSUME NEW q \in Request, tx'[q] = Idle
  PROVE  Local(q)'
  <1>1. Flow(q)'
    BY BlankRequest DEF Flow
  <1>2. Read(q)' /\ Pending(q)'
    BY BlankRequest DEF Read, Pending
  <1>3. Reserved(q)' /\ Unraced(q)'
    BY BlankRequest DEF Reserved, Entered, Unraced
  <1>4. Consented(q)'
    BY BlankRequest DEF Consented, Granting
  <1> QED
    BY <1>1, <1>2, <1>3, <1>4 DEF Local

LEMMA InitInv == Init => IInv
  <1> SUFFICES ASSUME Init PROVE IInv
    OBVIOUS
  <1> USE DirectoryAssumption
  <1>1. TypeOK
    BY BlankRequest DEF Init, TypeOK, UserRow
  <1>2. \A q \in Request : tx[q] = Idle
    BY DEF Init
  <1>3. \A q \in Request : Local(q)
    BY <1>2, IdleLocal
  <1>4. \A q, s \in Request : Apart(q, s)
    BY <1>2, BlankRequest DEF Apart, Granting, Entered
  <1>5. InOrder
    <2>1. \A r, s \in Request : ~Behind(r, s)
      BY <1>2, BlankRequest DEF Behind
    <2>2. ASSUME NEW group \in (SUBSET Request) \ {{}}
          PROVE  \E r \in group : \A s \in group : ~Behind(r, s)
      <3>1. group \subseteq Request /\ group # {}
        OBVIOUS
      <3>2. PICK r \in group : TRUE
        BY <3>1
      <3> QED
        BY <2>1, <3>1, <3>2
    <2> QED
      BY <2>2 DEF InOrder
  <1>6. ActiveMobileUnique
    <2> SUFFICES ASSUME NEW u \in User, NEW w \in User,
                        users[u].status = "active", users[w].status = "active",
                        users[u].mobile = users[w].mobile
                 PROVE  u = w
      BY DEF ActiveMobileUnique
    <2>1. users[u].mobile \in Mobile
      BY <1>1, Rows DEF TypeOK, NoRow
    <2>2. u \in ActiveWith(users[u].mobile) /\ w \in ActiveWith(users[u].mobile)
      BY DEF ActiveWith
    <2> QED
      BY <2>1, <2>2 DEF Init
  <1>7. ConsentsHaveUsers /\ OneActiveConsent /\ OnlyRacesSplitConsent
    BY DEF Init, ConsentsHaveUsers, OneActiveConsent, OnlyRacesSplitConsent
  <1> QED
    BY <1>1, <1>3, <1>4, <1>5, <1>6, <1>7 DEF IInv

-----------------------------------------------------------------------------
(* The order of edits *)

\* A request that is behind nobody may join.
LEMMA OrderKept ==
  ASSUME InOrder, NEW q,
         \A s \in Request : ~Behind(q, s)',
         \A r, s \in Request \ {q} : Behind(r, s)' => Behind(r, s)
  PROVE  InOrder'
  <1> SUFFICES ASSUME NEW group \in (SUBSET Request) \ {{}}
               PROVE  \E r \in group : \A s \in group : ~Behind(r, s)'
    BY DEF InOrder
  <1>1. CASE q \in group
    BY <1>1
  <1>2. CASE q \notin group
    BY <1>2 DEF InOrder
  <1> QED
    BY <1>1, <1>2

LEMMA OrderShrinks ==
  ASSUME InOrder, \A r, s \in Request : Behind(r, s)' => Behind(r, s)
  PROVE  InOrder'
  BY DEF InOrder

-----------------------------------------------------------------------------
(* Steps of one request that leave the committed rows alone *)

\* The order survives when q is behind nobody, or goes on with the same edit.
Ordered(q) ==
  \/ \A s \in Request : ~Behind(q, s)'
  \/ /\ tx'[q].op = tx[q].op /\ tx'[q].user = tx[q].user
     /\ tx'[q].mobile = tx[q].mobile /\ tx'[q].target = tx[q].target
     /\ tx'[q].phase \in {"lock", "index"} => tx[q].phase \in {"lock", "index"}

LEMMA LocalStep ==
  ASSUME IInv, NEW q \in Request, tx'[q] \in Tx, tx' = [tx EXCEPT ![q] = tx'[q]],
         users' = users, consents' = consents,
         raced \subseteq raced', raced' \subseteq User,
         Local(q)', \A s \in Request \ {q} : Apart(q, s)' /\ Apart(s, q)',
         Ordered(q)
  PROVE  IInv'
  <1>1. \A s \in Request \ {q} : tx'[s] = tx[s]
    BY DEF IInv, TypeOK
  <1>2. TypeOK'
    BY DEF IInv, TypeOK
  <1>3. ASSUME NEW s \in Request PROVE Local(s)'
    <2>1. CASE s = q
      BY <2>1
    <2>2. CASE s # q
      <3>1. tx'[s] = tx[s] /\ Local(s)
        BY <1>1, <2>2 DEF IInv
      <3> QED
        BY <3>1 DEF Local, Flow, Read, Pending, Reserved, Entered, ActiveWith,
           Consented, Granting, ConsentsOf, Unraced, MobileChanged
    <2> QED
      BY <2>1, <2>2
  <1>4. ASSUME NEW r \in Request, NEW s \in Request, r # s PROVE Apart(r, s)'
    <2>1. CASE r = q
      BY <2>1, <1>4
    <2>2. CASE s = q
      BY <2>2, <1>4
    <2>3. CASE r # q /\ s # q
      <3>1. tx'[s] = tx[s] /\ tx'[r] = tx[r] /\ Apart(r, s)
        BY <1>1, <1>4, <2>3 DEF IInv
      <3> QED
        BY <3>1 DEF Apart, Entered, Granting
    <2> QED
      BY <2>1, <2>2, <2>3
  <1>5. InOrder'
    <2>1. \A r, s \in Request \ {q} : Behind(r, s)' => Behind(r, s)
      BY <1>1 DEF Behind, ActiveWith
    <2>2. CASE \A s \in Request : ~Behind(q, s)'
      BY <2>1, <2>2, OrderKept DEF IInv
    <2>3. CASE /\ tx'[q].op = tx[q].op /\ tx'[q].user = tx[q].user
               /\ tx'[q].mobile = tx[q].mobile /\ tx'[q].target = tx[q].target
               /\ tx'[q].phase \in {"lock", "index"} => tx[q].phase \in {"lock", "index"}
      <3>1. \A r, s \in Request : Behind(r, s)' => Behind(r, s)
        BY <1>1, <2>3 DEF Behind, ActiveWith
      <3> QED
        BY <3>1, OrderShrinks DEF IInv
    <2> QED
      BY <2>2, <2>3 DEF Ordered
  <1>6. (ConsentsHaveUsers /\ ActiveMobileUnique /\ OneActiveConsent)'
    BY DEF IInv, ConsentsHaveUsers, ActiveMobileUnique, OneActiveConsent
  <1>7. OnlyRacesSplitConsent'
    BY DEF IInv, OnlyRacesSplitConsent
  <1> QED
    BY <1>2, <1>3, <1>4, <1>5, <1>6, <1>7 DEF IInv

\* A request that ends gives everything back.
LEMMA EndStep ==
  ASSUME IInv, NEW q \in Request, End(q), UNCHANGED <<users, consents, raced>>
  PROVE  IInv'
  <1>1. tx'[q] = Idle /\ tx' = [tx EXCEPT ![q] = tx'[q]]
    BY DEF IInv, TypeOK, End
  <1>2. Local(q)'
    BY <1>1, EndsLocal
  <1>3. ASSUME NEW s \in Request \ {q} PROVE Apart(q, s)' /\ Apart(s, q)'
    <2>1. tx'[s] = tx[s] /\ Flow(s)
      BY <1>1 DEF IInv, TypeOK, Local
    <2>2. tx[s].user = None => tx[s].op = "none"
      BY <2>1, DirectoryAssumption DEF Flow
    <2> QED
      BY <1>1, <2>1, <2>2, BlankRequest DEF Apart, Entered, Granting
  <1>4. Ordered(q)
    BY <1>1, BlankRequest DEF Ordered, Behind
  <1>5. raced' \subseteq User
    BY DEF IInv, TypeOK
  <1> QED
    BY <1>1, <1>2, <1>3, <1>4, <1>5, BlankRequest, LocalStep

\* A statement of a request that goes on: what it newly holds, nobody else has.
LEMMA StatementStep ==
  ASSUME IInv, NEW q \in Request, tx'[q] \in Tx, tx' = [tx EXCEPT ![q] = tx'[q]],
         UNCHANGED <<users, consents, raced>>,
         tx'[q].op = tx[q].op, tx'[q].user = tx[q].user, tx'[q].mobile = tx[q].mobile,
         tx'[q].target = tx[q].target,
         Local(q)',
         tx'[q].row # NoRow =>
           \/ tx[q].row # NoRow
           \/ \A s \in Request \ {q} : ~Wrote(s, tx[q].user),
         Granting(q)' =>
           \A s \in Request \ {q} : Granting(s) => tx[s].user # tx[q].user,
         Entered(q)' =>
           \/ Entered(q) /\ tx'[q].row = tx[q].row
           \/ \A s \in Request \ {q} :
                Entered(s) => tx[s].row.mobile # tx'[q].row.mobile,
         \/ tx'[q].phase \notin {"lock", "index"}
         \/ tx[q].phase \in {"lock", "index"}
         \/ ActiveWith(tx[q].mobile) \subseteq {tx[q].user}
  PROVE  IInv'
  <1>1. ASSUME NEW s \in Request \ {q} PROVE Apart(q, s)' /\ Apart(s, q)'
    <2>1. tx'[s] = tx[s] /\ Apart(q, s) /\ Apart(s, q)
      BY DEF IInv, TypeOK
    <2>2. ~(tx'[q].row # NoRow /\ tx[s].row # NoRow /\ tx[q].user = tx[s].user)
      BY <2>1 DEF Apart, Wrote
    <2>3. Granting(s)' <=> Granting(s)
      BY <2>1 DEF Granting
    <2>4. Entered(s)' <=> Entered(s)
      BY <2>1 DEF Entered
    <2>5. ~(Granting(q)' /\ Granting(s)' /\ tx[q].user = tx[s].user)
      BY <2>3
    <2>6. Entered(q)' /\ Entered(s)' => tx'[q].row.mobile # tx'[s].row.mobile
      BY <2>1, <2>4 DEF Apart
    <2> QED
      BY <2>1, <2>2, <2>5, <2>6 DEF Apart
  <1>2. Ordered(q)
    BY DEF Ordered, Behind, ActiveWith, IInv, TypeOK
  <1>3. raced' \subseteq User
    BY DEF IInv, TypeOK
  <1> QED
    BY <1>1, <1>2, <1>3, LocalStep

\* A new request has written nothing, and knows the row as it is.
LEMMA BeginStep ==
  ASSUME IInv, NEW q \in Request, NEW request \in Tx, Begin(q, request),
         request.row = NoRow, request.seen = {}, request.granted = {},
         request.revoked = {}, request.user \in User,
         request.op \in Op \ {"none"},
         request.op = "create" =>
           /\ request.phase = "number" /\ request.mobile \in Mobile
           /\ users[request.user].status = "absent"
           /\ \A s \in Request : tx[s].user # request.user,
         request.op # "create" => users[request.user].status # "absent",
         request.op = "update" =>
           /\ request.phase = "number" /\ request.mobile \in Mobile
           /\ request.target = users[request.user],
         request.op = "remove" => request.phase = "lock",
         request.op = "grant" =>
           request.phase = "active" /\ request.target = users[request.user],
         request.op = "revoke" => request.phase = "active"
  PROVE  IInv'
  <1>1. tx'[q] = request /\ tx' = [tx EXCEPT ![q] = tx'[q]]
    BY DEF IInv, TypeOK, Begin
  <1>2. users' = users /\ consents' = consents
    BY DEF Begin
  <1>3. users[request.user] \in UserRow
    BY DEF IInv, TypeOK
  <1>4. users[request.user].status # "absent" => users[request.user] # NoRow
    BY <1>3, Rows
  <1>5. users[request.user].version \in Nat
    BY <1>3, Rows
  <1>6. Local(q)'
    <2>1. Flow(q)'
      BY <1>1, <1>2 DEF Flow, Op, Writing
    <2>2. Read(q)'
      BY <1>1, <1>2, <1>4, <1>5 DEF Read
    <2>3. Pending(q)'
      BY <1>1 DEF Pending, Writing
    <2>4. Reserved(q)'
      BY <1>1 DEF Reserved, Entered
    <2>5. Consented(q)'
      BY <1>1 DEF Consented, Granting
    <2>6. Unraced(q)'
      BY <1>1, <1>2 DEF Unraced
    <2> QED
      BY <2>1, <2>2, <2>3, <2>4, <2>5, <2>6 DEF Local
  <1>7. raced \subseteq raced' /\ raced' \subseteq User
    BY DEF IInv, TypeOK, Begin
  <1>8. ASSUME NEW s \in Request \ {q} PROVE Apart(q, s)' /\ Apart(s, q)'
    <2>1. tx'[s] = tx[s] /\ Flow(s)
      BY <1>1 DEF IInv, TypeOK, Local
    <2>2. ~Entered(q)' /\ ~Granting(q)'
      BY <1>1 DEF Entered, Granting
    <2>3. tx[s].user = request.user => request.op # "create" /\ tx[s].op # "create"
      BY <2>1 DEF Flow
    <2>4. tx[s].user = request.user /\ {request.op, tx[s].op} = {"grant", "update"}
            => request.user \in raced'
      BY DEF Begin, Overlaps
    <2> QED
      BY <1>1, <2>1, <2>2, <2>3, <2>4 DEF Apart
  <1>9. Ordered(q)
    <2>1. request.op = "update" => request.phase = "number"
      OBVIOUS
    <2> QED
      BY <1>1, <2>1 DEF Ordered, Behind
  <1> QED
    BY <1>1, <1>2, <1>6, <1>7, <1>8, <1>9, LocalStep

-----------------------------------------------------------------------------
(* Requests arrive *)

LEMMA CreateUserInv ==
  ASSUME IInv, NEW q \in Request, NEW u \in User, NEW m \in Mobile, CreateUser(q, u, m)
  PROVE  IInv'
  <1> DEFINE request == [Idle EXCEPT !.op = "create", !.phase = "number",
                                     !.user = u, !.mobile = m]
  <1>1. /\ request \in Tx
        /\ request.op = "create" /\ request.phase = "number" /\ request.user = u
        /\ request.mobile = m /\ request.row = NoRow /\ request.seen = {}
        /\ request.granted = {} /\ request.revoked = {}
    BY BlankRequest DEF Tx, Op, Phase
  <1>2. Begin(q, request) /\ users[u].status = "absent" /\ \A s \in Request : tx[s].user # u
    BY DEF CreateUser
  <1> HIDE DEF request
  <1> QED
    BY <1>1, <1>2, BeginStep DEF Op

LEMMA UpdateUserInv ==
  ASSUME IInv, NEW q \in Request, NEW u \in User, NEW m \in Mobile, UpdateUser(q, u, m)
  PROVE  IInv'
  <1> DEFINE request == [Idle EXCEPT !.op = "update", !.phase = "number",
                                     !.user = u, !.mobile = m, !.target = users[u]]
  <1>1. users[u] \in UserRow
    BY DEF IInv, TypeOK
  <1>2. /\ request \in Tx
        /\ request.op = "update" /\ request.phase = "number" /\ request.user = u
        /\ request.mobile = m /\ request.row = NoRow /\ request.seen = {}
        /\ request.granted = {} /\ request.revoked = {} /\ request.target = users[u]
    BY <1>1, BlankRequest DEF Tx, Op, Phase
  <1>3. Begin(q, request) /\ users[u].status # "absent"
    BY DEF UpdateUser
  <1> HIDE DEF request
  <1> QED
    BY <1>2, <1>3, BeginStep DEF Op

LEMMA RemoveUserInv ==
  ASSUME IInv, NEW q \in Request, NEW u \in User, RemoveUser(q, u)
  PROVE  IInv'
  <1> DEFINE request == [Idle EXCEPT !.op = "remove", !.phase = "lock", !.user = u]
  <1>1. /\ request \in Tx
        /\ request.op = "remove" /\ request.phase = "lock" /\ request.user = u
        /\ request.row = NoRow /\ request.seen = {}
        /\ request.granted = {} /\ request.revoked = {}
    BY BlankRequest DEF Tx, Op, Phase
  <1>2. Begin(q, request) /\ users[u].status # "absent"
    BY DEF RemoveUser
  <1> HIDE DEF request
  <1> QED
    BY <1>1, <1>2, BeginStep DEF Op

LEMMA GrantConsentInv ==
  ASSUME IInv, NEW q \in Request, NEW u \in User, GrantConsent(q, u)
  PROVE  IInv'
  <1> DEFINE request == [Idle EXCEPT !.op = "grant", !.phase = "active",
                                     !.user = u, !.target = users[u]]
  <1>1. users[u] \in UserRow
    BY DEF IInv, TypeOK
  <1>2. /\ request \in Tx
        /\ request.op = "grant" /\ request.phase = "active" /\ request.user = u
        /\ request.row = NoRow /\ request.seen = {}
        /\ request.granted = {} /\ request.revoked = {} /\ request.target = users[u]
    BY <1>1, BlankRequest DEF Tx, Op, Phase
  <1>3. Begin(q, request) /\ users[u].status # "absent"
    BY DEF GrantConsent
  <1> HIDE DEF request
  <1> QED
    BY <1>2, <1>3, BeginStep DEF Op

LEMMA RevokeConsentInv ==
  ASSUME IInv, NEW q \in Request, NEW u \in User, RevokeConsent(q, u)
  PROVE  IInv'
  <1> DEFINE request == [Idle EXCEPT !.op = "revoke", !.phase = "active", !.user = u]
  <1>1. /\ request \in Tx
        /\ request.op = "revoke" /\ request.phase = "active" /\ request.user = u
        /\ request.row = NoRow /\ request.seen = {}
        /\ request.granted = {} /\ request.revoked = {}
    BY BlankRequest DEF Tx, Op, Phase
  <1>2. Begin(q, request) /\ users[u].status # "absent"
    BY DEF RevokeConsent
  <1> HIDE DEF request
  <1> QED
    BY <1>1, <1>2, BeginStep DEF Op

-----------------------------------------------------------------------------
(* The statements *)

\* A step of q to another phase, with nothing read or written.
LEMMA ToFields ==
  ASSUME TypeOK, NEW q \in Request, NEW phase \in Phase, To(q, phase)
  PROVE  /\ tx' = [tx EXCEPT ![q] = tx'[q]] /\ tx'[q] \in Tx
         /\ tx'[q].phase = phase
         /\ tx'[q].op = tx[q].op /\ tx'[q].user = tx[q].user
         /\ tx'[q].mobile = tx[q].mobile /\ tx'[q].target = tx[q].target
         /\ tx'[q].row = tx[q].row /\ tx'[q].seen = tx[q].seen
         /\ tx'[q].granted = tx[q].granted /\ tx'[q].revoked = tx[q].revoked
  <1>1. tx[q] \in Tx
    BY DEF TypeOK
  <1>2. tx'[q] = [tx[q] EXCEPT !.phase = phase] /\ tx' = [tx EXCEPT ![q] = tx'[q]]
    BY DEF To, TypeOK
  <1> QED
    BY <1>1, <1>2 DEF Tx

LEMMA CheckNumberInv ==
  ASSUME IInv, NEW q \in Request, CheckNumber(q)
  PROVE  IInv'
  <1> DEFINE next == IF tx[q].op = "create" THEN "insert" ELSE "lock"
  <1>1. CASE ~(ActiveWith(tx[q].mobile) \subseteq {tx[q].user})
    BY <1>1, EndStep DEF CheckNumber
  <1>2. CASE ActiveWith(tx[q].mobile) \subseteq {tx[q].user}
    <2>1. To(q, next) /\ next \in Phase /\ tx[q].phase = "number"
          /\ UNCHANGED <<users, consents, raced>>
      BY <1>2 DEF CheckNumber, Phase
    <2>2. TypeOK /\ Local(q)
      BY DEF IInv
    <2>3. next = "insert" \/ next = "lock"
      OBVIOUS
    <2>4. tx[q].op = "create" <=> next = "insert"
      OBVIOUS
    <2> HIDE DEF next
    <2>5. /\ tx' = [tx EXCEPT ![q] = tx'[q]] /\ tx'[q] \in Tx
          /\ tx'[q].phase = next
          /\ tx'[q].op = tx[q].op /\ tx'[q].user = tx[q].user
          /\ tx'[q].mobile = tx[q].mobile /\ tx'[q].target = tx[q].target
          /\ tx'[q].row = tx[q].row /\ tx'[q].seen = tx[q].seen
          /\ tx'[q].granted = tx[q].granted /\ tx'[q].revoked = tx[q].revoked
      BY <2>1, <2>2, ToFields
    <2>6. tx[q].op = "create" \/ tx[q].op = "update"
      BY <2>1, <2>2, Fields, Typed DEF Local, Flow, Op, Writing
    <2>7. tx[q].row = NoRow
      BY <2>1, <2>2 DEF Local, Pending, Writing
    <2>8. Local(q)'
      <3>1. Flow(q)'
        BY <2>1, <2>2, <2>3, <2>4, <2>5, <2>6 DEF Local, Flow
      <3>2. Read(q)'
        BY <2>1, <2>2, <2>5 DEF Local, Read
      <3>3. Pending(q)'
        BY <2>1, <2>3, <2>5, <2>7 DEF Pending, Writing
      <3>4. Reserved(q)'
        BY <2>5, <2>7 DEF Reserved, Entered
      <3>5. Consented(q)'
        BY <2>1, <2>2, <2>3, <2>5, <2>6 DEF Local, Consented, Granting, ConsentsOf
      <3>6. Unraced(q)'
        BY <2>3, <2>5, <2>6 DEF Unraced
      <3> QED
        BY <3>1, <3>2, <3>3, <3>4, <3>5, <3>6 DEF Local
    <2>9. ~Granting(q)' /\ ~Entered(q)'
      BY <2>5, <2>6, <2>7 DEF Granting, Entered
    <2> QED
      BY <1>2, <2>1, <2>5, <2>7, <2>8, <2>9, StatementStep
  <1> QED
    BY <1>1, <1>2

\* The row a request writes over the committed one.
LEMMA WrittenRow ==
  ASSUME NEW q \in Request, TypeOK, NEW row \in UserRow \ {NoRow},
         row.version < MaxVersion,
         \/ tx[q].op = "update" /\ tx[q].mobile \in Mobile
         \/ tx[q].op = "remove"
  PROVE  /\ Written(q, row) \in UserRow \ {NoRow}
         /\ Written(q, row).version = row.version + 1
         /\ tx[q].op = "update" => /\ Written(q, row).status = row.status
                                   /\ Written(q, row).mobile = tx[q].mobile
         /\ tx[q].op = "remove" => /\ Written(q, row).status = "inactive"
                                   /\ Written(q, row).mobile = row.mobile
  <1>1. row \in [status: {"active", "inactive"}, mobile: Mobile, version: 1..MaxVersion]
    BY DEF UserRow
  <1>2. row.version + 1 \in 1..MaxVersion
    BY <1>1, DirectoryAssumption
  <1>3. CASE tx[q].op = "update"
    <2>1. Written(q, row) = [row EXCEPT !.mobile = tx[q].mobile, !.version = @ + 1]
      BY <1>3 DEF Written
    <2>2. Written(q, row) \in [status: {"active", "inactive"}, mobile: Mobile,
                               version: 1..MaxVersion]
      BY <1>1, <1>2, <1>3, <2>1
    <2>3. Written(q, row).status # "absent"
      BY <2>2
    <2> QED
      BY <1>1, <1>3, <2>1, <2>2, <2>3 DEF UserRow, NoRow
  <1>4. CASE tx[q].op = "remove"
    <2>1. Written(q, row) = [row EXCEPT !.status = "inactive", !.version = @ + 1]
      BY <1>4 DEF Written
    <2>2. Written(q, row) \in [status: {"active", "inactive"}, mobile: Mobile,
                               version: 1..MaxVersion]
      BY <1>1, <1>2, <2>1
    <2>3. Written(q, row).status # "absent"
      BY <2>2
    <2> QED
      BY <1>1, <1>4, <2>1, <2>2, <2>3 DEF UserRow, NoRow
  <1> QED
    BY <1>3, <1>4

LEMMA WriteUserInv ==
  ASSUME IInv, NEW q \in Request, WriteUser(q)
  PROVE  IInv'
  <1> DEFINE row == users[tx[q].user]
             new == Written(q, row)
             next == IF tx[q].op = "update" THEN "index" ELSE "commit"
  <1>1. CASE End(q) /\ UNCHANGED <<users, consents, raced>>
    BY <1>1, EndStep
  <1>2. CASE /\ tx[q].phase = "lock" /\ Free(q)
             /\ tx[q].op = "remove" \/ Matches(q, row)
             /\ row.version < MaxVersion
             /\ tx' = [tx EXCEPT ![q].row = new, ![q].phase = next]
             /\ UNCHANGED <<users, consents, raced>>
    <2>1. TypeOK /\ Local(q) /\ tx[q] \in Tx
      BY Typed DEF IInv
    <2>2. tx[q].op = "update" \/ tx[q].op = "remove"
      BY <1>2, <2>1, Fields DEF Local, Flow, Op
    <2>3. /\ tx[q].user \in User /\ row.status # "absent"
          /\ tx[q].op = "update" => tx[q].mobile \in Mobile
      BY <2>1, <2>2 DEF Local, Flow
    <2>4. row \in UserRow
      BY <2>1, <2>3 DEF TypeOK
    <2>5. row \in UserRow \ {NoRow}
      BY <2>3, <2>4, Rows
    <2>6. next \in {"index", "commit"} /\ (next = "index" <=> tx[q].op = "update")
      OBVIOUS
    <2> HIDE DEF row, next, new
    <2>7. /\ new \in UserRow \ {NoRow}
          /\ new.version = row.version + 1
          /\ tx[q].op = "update" => new.status = row.status /\ new.mobile = tx[q].mobile
          /\ tx[q].op = "remove" => new.status = "inactive" /\ new.mobile = row.mobile
      BY <1>2, <2>1, <2>2, <2>3, <2>5, WrittenRow DEF new
    <2>8. /\ tx'[q] = [tx[q] EXCEPT !.row = new, !.phase = next]
          /\ tx' = [tx EXCEPT ![q] = tx'[q]]
      BY <1>2, <2>1 DEF TypeOK
    <2>9. /\ tx'[q] \in Tx
          /\ tx'[q].phase = next /\ tx'[q].row = new
          /\ tx'[q].op = tx[q].op /\ tx'[q].user = tx[q].user
          /\ tx'[q].mobile = tx[q].mobile /\ tx'[q].target = tx[q].target
          /\ tx'[q].seen = tx[q].seen
          /\ tx'[q].granted = tx[q].granted /\ tx'[q].revoked = tx[q].revoked
      BY <2>1, <2>6, <2>7, <2>8 DEF Tx, Phase
    <2>10. tx[q].op = "update" => tx[q].target = row
      BY <1>2, <2>1, <2>2 DEF Local, Read, Matches, row
    <2>11. Local(q)'
      <3>1. Flow(q)'
        BY <1>2, <2>1, <2>2, <2>6, <2>9 DEF Local, Flow, Writing
      <3>2. Read(q)'
        BY <1>2, <2>1, <2>9 DEF Local, Read
      <3>3. Pending(q)'
        BY <1>2, <2>2, <2>6, <2>7, <2>9, <2>10 DEF Pending, Writing, row
      <3>4. Reserved(q)'
        BY <2>2, <2>6, <2>7, <2>9 DEF Reserved, Entered
      <3>5. Consented(q)'
        BY <1>2, <2>1, <2>2, <2>6, <2>9 DEF Local, Consented, Granting, ConsentsOf
      <3>6. Unraced(q)'
        BY <2>2, <2>6, <2>9 DEF Unraced
      <3> QED
        BY <3>1, <3>2, <3>3, <3>4, <3>5, <3>6 DEF Local
    <2>12. \A s \in Request \ {q} : ~Wrote(s, tx[q].user)
      BY <1>2 DEF Free, Blockers
    <2>13. ~Granting(q)' /\ ~Entered(q)'
      BY <2>2, <2>6, <2>7, <2>9 DEF Granting, Entered
    <2> QED
      BY <1>2, <2>8, <2>9, <2>11, <2>12, <2>13, StatementStep
  <1> QED
    BY <1>1, <1>2 DEF WriteUser

LEMMA IndexNumberInv ==
  ASSUME IInv, NEW q \in Request, IndexNumber(q)
  PROVE  IInv'
  <1> DEFINE refused == tx[q].row.status = "active" /\ Taken(q, tx[q].mobile)
             next == IF MobileChanged(q) THEN "scan" ELSE "commit"
  <1>1. CASE refused
    BY <1>1, EndStep DEF IndexNumber
  <1>2. CASE ~refused
    <2>1. /\ To(q, next) /\ next \in Phase /\ tx[q].phase = "index" /\ Free(q)
          /\ UNCHANGED <<users, consents, raced>>
      BY <1>2 DEF IndexNumber, Phase
    <2>2. TypeOK /\ Local(q) /\ tx[q] \in Tx
      BY Typed DEF IInv
    <2>3. next = "scan" \/ next = "commit"
      OBVIOUS
    <2>4. next = "scan" <=> MobileChanged(q)
      OBVIOUS
    <2> HIDE DEF next
    <2>5. /\ tx' = [tx EXCEPT ![q] = tx'[q]] /\ tx'[q] \in Tx
          /\ tx'[q].phase = next
          /\ tx'[q].op = tx[q].op /\ tx'[q].user = tx[q].user
          /\ tx'[q].mobile = tx[q].mobile /\ tx'[q].target = tx[q].target
          /\ tx'[q].row = tx[q].row /\ tx'[q].seen = tx[q].seen
          /\ tx'[q].granted = tx[q].granted /\ tx'[q].revoked = tx[q].revoked
      BY <2>1, <2>2, ToFields
    <2>6. tx[q].op = "update"
      BY <2>1, <2>2, Fields DEF Local, Flow, Op
    <2>7. tx[q].row # NoRow /\ tx[q].row.mobile = tx[q].mobile
      BY <2>1, <2>2, <2>6 DEF Local, Pending, Writing
    <2>8. tx[q].row.status = "active" => ActiveWith(tx[q].row.mobile) \subseteq {tx[q].user}
      BY <1>2, <2>7 DEF Taken
    <2>9. Local(q)'
      <3>1. Flow(q)'
        BY <2>1, <2>2, <2>3, <2>5, <2>6 DEF Local, Flow, Writing
      <3>2. Read(q)'
        BY <2>1, <2>2, <2>5 DEF Local, Read
      <3>3. Pending(q)'
        BY <2>1, <2>2, <2>3, <2>5, <2>6, <2>7 DEF Local, Pending, Writing
      <3>4. Reserved(q)'
        BY <2>1, <2>5, <2>8 DEF Reserved, Entered, ActiveWith
      <3>5. Consented(q)'
        BY <2>1, <2>2, <2>3, <2>5, <2>6 DEF Local, Consented, Granting, ConsentsOf
      <3>6. Unraced(q)'
        BY <2>1, <2>3, <2>4, <2>5, <2>6 DEF Unraced, MobileChanged
      <3> QED
        BY <3>1, <3>2, <3>3, <3>4, <3>5, <3>6 DEF Local
    <2>10. Entered(q)' => \A s \in Request \ {q} :
                            Entered(s) => tx[s].row.mobile # tx'[q].row.mobile
      <3> SUFFICES ASSUME Entered(q)', NEW s \in Request \ {q}, Entered(s)
                   PROVE  tx[s].row.mobile # tx[q].row.mobile
        BY <2>5
      <3>1. ~HoldsNumber(s, tx[q].row.mobile)
        BY <2>1, <2>5 DEF Free, Blockers, Entered
      <3>2. tx[s].phase \in {"scan", "revoke", "commit"}
        BY DEF Entered, IInv, Local, Pending, Writing
      <3> QED
        BY <3>1, <3>2 DEF Entered, HoldsNumber
    <2>11. ~Granting(q)'
      BY <2>5, <2>6 DEF Granting
    <2> QED
      BY <2>1, <2>3, <2>5, <2>7, <2>9, <2>10, <2>11, StatementStep
  <1> QED
    BY <1>1, <1>2

LEMMA CheckConsentInv ==
  ASSUME IInv, NEW q \in Request, CheckConsent(q)
  PROVE  IInv'
  <1> DEFINE wanted == ConsentsOf(tx[q].user) = {} <=> tx[q].op = "grant"
             next == IF tx[q].op = "grant" THEN "insert" ELSE "scan"
  <1>1. CASE ~wanted
    BY <1>1, EndStep DEF CheckConsent
  <1>2. CASE wanted
    <2>1. /\ To(q, next) /\ next \in Phase /\ tx[q].phase = "active"
          /\ UNCHANGED <<users, consents, raced>>
      BY <1>2 DEF CheckConsent, Phase
    <2>2. TypeOK /\ Local(q) /\ tx[q] \in Tx
      BY Typed DEF IInv
    <2>3. next \in {"insert", "scan"} /\ (next = "insert" <=> tx[q].op = "grant")
      OBVIOUS
    <2> HIDE DEF next
    <2>4. /\ tx' = [tx EXCEPT ![q] = tx'[q]] /\ tx'[q] \in Tx
          /\ tx'[q].phase = next
          /\ tx'[q].op = tx[q].op /\ tx'[q].user = tx[q].user
          /\ tx'[q].mobile = tx[q].mobile /\ tx'[q].target = tx[q].target
          /\ tx'[q].row = tx[q].row /\ tx'[q].seen = tx[q].seen
          /\ tx'[q].granted = tx[q].granted /\ tx'[q].revoked = tx[q].revoked
      BY <2>1, <2>2, ToFields
    <2>5. tx[q].op = "grant" \/ tx[q].op = "revoke"
      BY <2>1, <2>2, Fields DEF Local, Flow, Op, Writing
    <2>6. tx[q].row = NoRow
      BY <2>1, <2>2 DEF Local, Pending, Writing
    <2>7. Local(q)'
      <3>1. Flow(q)'
        BY <2>1, <2>2, <2>3, <2>4, <2>5 DEF Local, Flow
      <3>2. Read(q)'
        BY <2>1, <2>2, <2>4 DEF Local, Read
      <3>3. Pending(q)'
        BY <2>3, <2>4, <2>5, <2>6 DEF Pending
      <3>4. Reserved(q)'
        BY <2>4, <2>6 DEF Reserved, Entered
      <3>5. Consented(q)'
        BY <2>1, <2>2, <2>3, <2>4 DEF Local, Consented, Granting, ConsentsOf
      <3>6. Unraced(q)'
        BY <2>1, <2>2, <2>4, <2>5 DEF Local, Unraced
      <3> QED
        BY <3>1, <3>2, <3>3, <3>4, <3>5, <3>6 DEF Local
    <2>8. ~Granting(q)' /\ ~Entered(q)'
      BY <2>3, <2>4, <2>6 DEF Granting, Entered
    <2> QED
      BY <2>1, <2>3, <2>4, <2>6, <2>7, <2>8, StatementStep
  <1> QED
    BY <1>1, <1>2

LEMMA InsertConsentInv ==
  ASSUME IInv, NEW q \in Request, InsertConsent(q)
  PROVE  IInv'
  <1> DEFINE consent == [user |-> tx[q].user, mobile |-> tx[q].target.mobile, by |-> q]
  <1>1. CASE End(q) /\ UNCHANGED <<users, consents, raced>>
    BY <1>1, EndStep
  <1>2. CASE /\ tx[q].phase = "insert" /\ tx[q].op = "grant" /\ Free(q)
             /\ ConsentsOf(tx[q].user) = {}
             /\ tx' = [tx EXCEPT ![q].phase = "commit", ![q].granted = {consent}]
             /\ UNCHANGED <<users, consents, raced>>
    <2>1. TypeOK /\ Local(q) /\ tx[q] \in Tx
      BY Typed DEF IInv
    <2>2. tx[q].user \in User /\ tx[q].target.mobile \in Mobile
      BY <1>2, <2>1, Fields, Rows DEF Local, Flow, Read
    <2>3. consent \in Consent
      BY <2>2 DEF Consent
    <2> HIDE DEF consent
    <2>4. /\ tx'[q] = [tx[q] EXCEPT !.phase = "commit", !.granted = {consent}]
          /\ tx' = [tx EXCEPT ![q] = tx'[q]]
      BY <1>2, <2>1 DEF TypeOK
    <2>5. /\ tx'[q].phase = "commit" /\ tx'[q].granted = {consent}
          /\ tx'[q].op = tx[q].op /\ tx'[q].user = tx[q].user
          /\ tx'[q].mobile = tx[q].mobile /\ tx'[q].target = tx[q].target
          /\ tx'[q].row = tx[q].row /\ tx'[q].seen = tx[q].seen
          /\ tx'[q].revoked = tx[q].revoked
      BY <2>1, <2>4 DEF Tx
    <2>10. tx'[q] \in Tx
      <3> DEFINE added == {consent}
      <3>1. added \in SUBSET Consent
        BY <2>3
      <3>2. tx'[q] = [tx[q] EXCEPT !.phase = "commit", !.granted = added]
        BY <2>4
      <3> HIDE DEF added
      <3> QED
        BY <2>1, <3>1, <3>2 DEF Tx, Phase
    <2>6. tx[q].row = NoRow
      BY <1>2, <2>1 DEF Local, Pending
    <2>7. Local(q)'
      <3>1. Flow(q)'
        BY <1>2, <2>1, <2>5 DEF Local, Flow
      <3>2. Read(q)'
        BY <1>2, <2>1, <2>5 DEF Local, Read
      <3>3. Pending(q)'
        BY <1>2, <2>5, <2>6 DEF Pending
      <3>4. Reserved(q)'
        BY <2>5, <2>6 DEF Reserved, Entered
      <3>5. Consented(q)'
        BY <1>2, <2>1, <2>5 DEF Local, Consented, Granting, ConsentsOf, consent
      <3>6. Unraced(q)'
        <4>1. Unraced(q) /\ users' = users /\ raced' = raced
          BY <1>2, <2>1 DEF Local
        <4> QED
          BY <1>2, <2>5, <4>1 DEF Unraced
      <3> QED
        BY <3>1, <3>2, <3>3, <3>4, <3>5, <3>6 DEF Local
    <2>8. ASSUME NEW s \in Request \ {q}, Granting(s)
          PROVE  tx[s].user # tx[q].user
      <3>1. \A c \in tx[s].granted : c.user # tx[q].user
        BY <1>2 DEF Free, Blockers
      <3>2. tx[s].granted =
              {[user |-> tx[s].user, mobile |-> tx[s].target.mobile, by |-> s]}
        BY <2>8 DEF IInv, Local, Consented
      <3> QED
        BY <3>1, <3>2
    <2>9. ~Entered(q)'
      BY <2>5, <2>6 DEF Entered
    <2> QED
      BY <1>2, <2>4, <2>5, <2>6, <2>7, <2>8, <2>9, <2>10, StatementStep
  <1> QED
    BY <1>1, <1>2 DEF InsertConsent

LEMMA ScanConsentsInv ==
  ASSUME IInv, NEW q \in Request, ScanConsents(q)
  PROVE  IInv'
  <1> DEFINE found == ConsentsOf(tx[q].user)
  <1>1. TypeOK /\ Local(q) /\ tx[q] \in Tx
    BY Typed DEF IInv
  <1>2. found \subseteq Consent
    BY <1>1 DEF TypeOK, ConsentsOf
  <1>3. found = ConsentsOf(tx[q].user)
    OBVIOUS
  <1>4. /\ tx[q].phase = "scan" /\ UNCHANGED <<users, consents, raced>>
        /\ tx' = [tx EXCEPT ![q].phase = "revoke", ![q].seen = found]
    BY DEF ScanConsents
  <1> HIDE DEF found
  <1>5. /\ tx'[q] = [tx[q] EXCEPT !.phase = "revoke", !.seen = found]
        /\ tx' = [tx EXCEPT ![q] = tx'[q]]
    BY <1>1, <1>4 DEF TypeOK
  <1>6. /\ tx'[q] \in Tx
        /\ tx'[q].phase = "revoke" /\ tx'[q].seen = found
        /\ tx'[q].op = tx[q].op /\ tx'[q].user = tx[q].user
        /\ tx'[q].mobile = tx[q].mobile /\ tx'[q].target = tx[q].target
        /\ tx'[q].row = tx[q].row /\ tx'[q].granted = tx[q].granted
        /\ tx'[q].revoked = tx[q].revoked
    BY <1>1, <1>2, <1>5 DEF Tx, Phase
  <1>7. tx[q].op = "update" \/ tx[q].op = "revoke"
    BY <1>1, <1>4, Fields DEF Local, Flow, Op
  <1>8. Local(q)'
    <2>1. Flow(q)'
      BY <1>1, <1>4, <1>6, <1>7 DEF Local, Flow, Writing
    <2>2. Read(q)'
      BY <1>1, <1>4, <1>6 DEF Local, Read
    <2>3. Pending(q)'
      BY <1>1, <1>4, <1>6, <1>7 DEF Local, Pending, Writing
    <2>4. Reserved(q)'
      BY <1>1, <1>4, <1>6 DEF Local, Reserved, Entered, ActiveWith
    <2>5. Consented(q)'
      BY <1>1, <1>3, <1>4, <1>6 DEF Local, Consented, Granting, ConsentsOf
    <2>6. Unraced(q)'
      BY <1>3, <1>4, <1>6, <1>7 DEF Unraced, MobileChanged, ConsentsOf
    <2> QED
      BY <2>1, <2>2, <2>3, <2>4, <2>5, <2>6 DEF Local
  <1>9. ~Granting(q)' /\ (Entered(q)' => Entered(q))
    BY <1>4, <1>6 DEF Granting, Entered
  <1> QED
    BY <1>4, <1>5, <1>6, <1>8, <1>9, StatementStep

LEMMA RevokeConsentsInv ==
  ASSUME IInv, NEW q \in Request, RevokeConsents(q)
  PROVE  IInv'
  <1>1. CASE End(q) /\ UNCHANGED <<users, consents, raced>>
    BY <1>1, EndStep
  <1>2. CASE /\ tx[q].phase = "revoke"
             /\ tx' = [tx EXCEPT ![q].phase = "commit", ![q].revoked = tx[q].seen,
                                 ![q].seen = {}]
             /\ UNCHANGED <<users, consents, raced>>
    <2>1. TypeOK /\ Local(q) /\ tx[q] \in Tx
      BY Typed DEF IInv
    <2>2. /\ tx'[q] = [tx[q] EXCEPT !.phase = "commit", !.revoked = tx[q].seen, !.seen = {}]
          /\ tx' = [tx EXCEPT ![q] = tx'[q]]
      BY <1>2, <2>1 DEF TypeOK
    <2>3. /\ tx'[q] \in Tx
          /\ tx'[q].phase = "commit" /\ tx'[q].revoked = tx[q].seen /\ tx'[q].seen = {}
          /\ tx'[q].op = tx[q].op /\ tx'[q].user = tx[q].user
          /\ tx'[q].mobile = tx[q].mobile /\ tx'[q].target = tx[q].target
          /\ tx'[q].row = tx[q].row /\ tx'[q].granted = tx[q].granted
      BY <2>1, <2>2 DEF Tx, Phase
    <2>4. tx[q].op = "update" \/ tx[q].op = "revoke"
      BY <1>2, <2>1, Fields DEF Local, Flow, Op
    <2>5. Local(q)'
      <3>1. Flow(q)'
        BY <1>2, <2>1, <2>3, <2>4 DEF Local, Flow, Writing
      <3>2. Read(q)'
        BY <1>2, <2>1, <2>3 DEF Local, Read
      <3>3. Pending(q)'
        BY <1>2, <2>1, <2>3, <2>4 DEF Local, Pending, Writing
      <3>4. Reserved(q)'
        BY <1>2, <2>1, <2>3 DEF Local, Reserved, Entered, ActiveWith
      <3>5. Consented(q)'
        BY <1>2, <2>1, <2>3, <2>4 DEF Local, Consented, Granting, ConsentsOf
      <3>6. Unraced(q)'
        <4>1. Unraced(q) /\ consents' = consents /\ raced' = raced
          BY <1>2, <2>1 DEF Local
        <4> QED
          BY <1>2, <2>3, <2>4, <4>1 DEF Unraced, MobileChanged, ConsentsOf
      <3> QED
        BY <3>1, <3>2, <3>3, <3>4, <3>5, <3>6 DEF Local
    <2>6. ~Granting(q)' /\ (Entered(q)' => Entered(q))
      BY <1>2, <2>3, <2>4 DEF Granting, Entered
    <2> QED
      BY <1>2, <2>2, <2>3, <2>5, <2>6, StatementStep
  <1> QED
    BY <1>1, <1>2 DEF RevokeConsents

-----------------------------------------------------------------------------
(* Steps that change the committed rows *)

\* InsertUser: nobody knows the new user, and nobody holds its number.
LEMMA InsertUserInv ==
  ASSUME IInv, NEW q \in Request, InsertUser(q)
  PROVE  IInv'
  <1> DEFINE u == tx[q].user
             m == tx[q].mobile
             row == [status |-> "active", mobile |-> m, version |-> 1]
  <1>1. CASE Taken(q, m)
    BY <1>1, EndStep DEF InsertUser
  <1>2. CASE ~Taken(q, m)
    <2>1. /\ TypeOK /\ Local(q) /\ tx[q] \in Tx
          /\ u \in User /\ m \in Mobile /\ users[u].status = "absent"
      BY Typed DEF IInv, Local, Flow, InsertUser
    <2>2. /\ tx[q].phase = "insert" /\ tx[q].op = "create"
          /\ users' = [users EXCEPT ![u] = row]
          /\ consents' = consents /\ raced' = raced
          /\ tx' = [tx EXCEPT ![q] = Idle]
      BY <1>2 DEF InsertUser, End
    <2>3. row \in UserRow /\ row.status = "active" /\ row.mobile = m
      BY <2>1, DirectoryAssumption DEF UserRow
    <2>4. ActiveWith(m) \subseteq {u}
      BY <1>2 DEF Taken
    <2>5. u \notin ActiveWith(m)
      BY <2>1 DEF ActiveWith
    <2>6. \A s \in Request \ {q} : ~HoldsNumber(s, m)
      BY <2>2 DEF InsertUser, Free, Blockers
    <2> HIDE DEF row
    <2>7. /\ users'[u] = row /\ \A w \in User \ {u} : users'[w] = users[w]
          /\ tx'[q] = Idle /\ \A s \in Request \ {q} : tx'[s] = tx[s]
      BY <2>1, <2>2 DEF TypeOK
    <2>8. \A s \in Request \ {q} : tx[s].user # u
      BY <2>2 DEF IInv, Apart
    <2>9. TypeOK'
      BY <2>1, <2>2, <2>3, BlankRequest DEF TypeOK
    <2>10. \A n \in Mobile : n # m => ActiveWith(n)' = ActiveWith(n)
      <3> SUFFICES ASSUME NEW n \in Mobile, n # m PROVE ActiveWith(n)' = ActiveWith(n)
        OBVIOUS
      <3>1. u \notin ActiveWith(n) /\ u \notin ActiveWith(n)'
        BY <2>1, <2>3, <2>7 DEF ActiveWith
      <3> QED
        BY <2>7, <3>1 DEF ActiveWith
    <2>11. ASSUME NEW s \in Request PROVE Local(s)'
      <3>1. CASE s = q
        BY <2>7, <3>1, EndsLocal
      <3>2. CASE s # q
        <4>1. /\ tx'[s] = tx[s] /\ Local(s) /\ tx[s] \in Tx
              /\ tx[s].op # "none" => users'[tx[s].user] = users[tx[s].user]
          BY <2>1, <2>7, <2>8, <3>2, Typed DEF IInv, Local, Flow
        <4>2. Flow(s)'
          BY <4>1 DEF Local, Flow
        <4>3. Read(s)'
          BY <4>1 DEF Local, Read
        <4>4. Pending(s)'
          BY <4>1 DEF Local, Pending
        <4>5. Reserved(s)'
          <5> SUFFICES ASSUME Entered(s)
                       PROVE  ActiveWith(tx[s].row.mobile)' \subseteq {tx[s].user}
            BY <4>1 DEF Reserved, Entered
          <5>1. tx[s].phase \in {"scan", "revoke", "commit"}
            BY <4>1 DEF Entered, Local, Pending, Writing
          <5>2. tx[s].row.mobile # m
            BY <2>6, <3>2, <5>1 DEF Entered, HoldsNumber
          <5>3. tx[s].row.mobile \in Mobile
            BY <4>1, Fields, Rows DEF Entered
          <5> QED
            BY <2>10, <4>1, <5>2, <5>3 DEF Local, Reserved
        <4>6. Consented(s)'
          BY <2>2, <4>1 DEF Local, Consented, Granting, ConsentsOf
        <4>7. Unraced(s)'
          BY <2>2, <4>1 DEF Local, Unraced, MobileChanged, ConsentsOf
        <4> QED
          BY <4>2, <4>3, <4>4, <4>5, <4>6, <4>7 DEF Local
      <3> QED
        BY <3>1, <3>2
    <2>12. ASSUME NEW r \in Request, NEW s \in Request, r # s PROVE Apart(r, s)'
      <3>1. \A t \in Request : tx'[t].user = None => tx'[t].op = "none"
        BY <2>11, DirectoryAssumption DEF Local, Flow
      <3>2. CASE r # q /\ s # q
        <4>1. tx'[r] = tx[r] /\ tx'[s] = tx[s] /\ Apart(r, s)
          BY <2>7, <2>12, <3>2 DEF IInv
        <4> QED
          BY <2>2, <4>1 DEF Apart, Entered, Granting
      <3>3. CASE r = q \/ s = q
        BY <2>7, <3>1, <3>3, BlankRequest DEF Apart, Entered, Granting
      <3> QED
        BY <3>2, <3>3
    <2>13. InOrder'
      <3>1. \A s \in Request : ~Behind(q, s)'
        BY <2>7, BlankRequest DEF Behind
      <3>2. ASSUME NEW r \in Request \ {q}, NEW s \in Request \ {q}, Behind(r, s)'
            PROVE  Behind(r, s)
        BY <2>7, <2>8, <3>2 DEF Behind, ActiveWith
      <3> QED
        BY <3>1, <3>2, OrderKept DEF IInv
    <2>14. ConsentsHaveUsers'
      <3>1. \A c \in consents : c.user \in User
        BY <2>1 DEF TypeOK, Consent
      <3> QED
        BY <2>2, <2>3, <2>7, <3>1 DEF IInv, ConsentsHaveUsers
    <2>15. ActiveMobileUnique'
      BY <2>3, <2>4, <2>7 DEF IInv, ActiveMobileUnique, ActiveWith
    <2>16. OneActiveConsent'
      BY <2>2 DEF IInv, OneActiveConsent
    <2>17. OnlyRacesSplitConsent'
      <3>1. \A c \in consents : c.user \in User /\ c.user # u
        BY <2>1 DEF TypeOK, Consent, IInv, ConsentsHaveUsers
      <3> QED
        BY <2>2, <2>7, <3>1 DEF IInv, OnlyRacesSplitConsent
    <2> QED
      BY <2>9, <2>11, <2>12, <2>13, <2>14, <2>15, <2>16, <2>17 DEF IInv
  <1> QED
    BY <1>1, <1>2

\* What a commit does to the rows.
LEMMA CommitRows ==
  ASSUME IInv, NEW q \in Request, Commit(q)
  PROVE  /\ tx'[q] = Idle
         /\ \A s \in Request \ {q} :
              tx'[s] = [tx[s] EXCEPT !.seen = tx[s].seen \ tx[q].revoked]
         /\ tx[q].row = NoRow => users' = users
         /\ tx[q].row # NoRow =>
              /\ tx[q].user \in User /\ users'[tx[q].user] = tx[q].row
              /\ \A w \in User \ {tx[q].user} : users'[w] = users[w]
              /\ users[tx[q].user] # NoRow
         /\ consents' = (consents \ tx[q].revoked) \cup tx[q].granted
         /\ raced' = raced
         /\ tx[q].op \in {"update", "remove", "grant", "revoke"}
  <1>1. TypeOK /\ Local(q)
    BY DEF IInv
  <1>2. /\ tx'[q] = Idle
        /\ \A s \in Request \ {q} :
             tx'[s] = [tx[s] EXCEPT !.seen = tx[s].seen \ tx[q].revoked]
        /\ consents' = (consents \ tx[q].revoked) \cup tx[q].granted
        /\ raced' = raced
        /\ tx[q].row = NoRow => users' = users
    BY DEF Commit
  <1>3. tx[q].op \in {"update", "remove", "grant", "revoke"} /\ tx[q].user \in User
        /\ users[tx[q].user].status # "absent"
    BY <1>1, Typed, Fields DEF Commit, Local, Flow, Op
  <1>4. users[tx[q].user] # NoRow
    BY <1>3, BlankRequest DEF NoRow
  <1>5. tx[q].row # NoRow => /\ users'[tx[q].user] = tx[q].row
                             /\ \A w \in User \ {tx[q].user} : users'[w] = users[w]
    BY <1>1, <1>3 DEF Commit, TypeOK
  <1> QED
    BY <1>2, <1>3, <1>4, <1>5

\* A commit keeps users present, and moves their versions on.
LEMMA CommitVersions ==
  ASSUME IInv, NEW q \in Request, Commit(q), NEW u \in User
  PROVE  /\ users'[u].status = "absent" <=> users[u].status = "absent"
         /\ \/ users'[u] = users[u]
            \/ /\ users'[u].version = users[u].version + 1
               /\ tx[q].row # NoRow /\ tx[q].user = u /\ users'[u] = tx[q].row
         /\ tx[q].op # "update" => users'[u].mobile = users[u].mobile
  <1>1. CASE tx[q].row = NoRow \/ tx[q].user # u
    <2>1. users'[u] = users[u]
      BY <1>1, CommitRows
    <2> QED
      BY <2>1
  <1>2. CASE tx[q].row # NoRow /\ tx[q].user = u
    <2>1. users'[u] = tx[q].row /\ users[u] # NoRow
      BY <1>2, CommitRows
    <2>2. tx[q].row \in UserRow /\ users[u] \in UserRow
      BY Typed, Fields DEF IInv, TypeOK
    <2>3. users[u].status # "absent" /\ tx[q].row.status # "absent"
      BY <1>2, <2>1, <2>2, Rows
    <2>4. Pending(q)
      BY DEF IInv, Local
    <2>5. tx[q].row.version = users[u].version + 1
      BY <1>2, <2>4 DEF Pending
    <2>6. tx[q].op # "update" => tx[q].row.mobile = users[u].mobile
      BY <1>2, <2>4 DEF Pending
    <2> QED
      BY <1>2, <2>1, <2>3, <2>5, <2>6
  <1> QED
    BY <1>1, <1>2

\* What q commits keeps the other requests' claims true.
LEMMA CommitLocal ==
  ASSUME IInv, NEW q \in Request, Commit(q), NEW s \in Request \ {q}
  PROVE  Local(s)'
  <1> DEFINE u == tx[s].user
             others == tx[s].seen \ tx[q].revoked
  <1>1. TypeOK /\ Local(s) /\ Local(q) /\ Apart(s, q) /\ Apart(q, s) /\ tx[s] \in Tx
    BY Typed DEF IInv
  <1>2. tx'[s] = [tx[s] EXCEPT !.seen = others]
    BY CommitRows
  <1>3. others \subseteq tx[s].seen /\ (\A c \in tx[s].seen : c \in others \/ c \in tx[q].revoked)
        /\ \A c \in others : c \notin tx[q].revoked
    OBVIOUS
  <1> HIDE DEF others
  <1>4. /\ tx'[s].op = tx[s].op /\ tx'[s].phase = tx[s].phase /\ tx'[s].user = u
        /\ tx'[s].mobile = tx[s].mobile /\ tx'[s].target = tx[s].target
        /\ tx'[s].row = tx[s].row /\ tx'[s].seen = others
        /\ tx'[s].granted = tx[s].granted /\ tx'[s].revoked = tx[s].revoked
    BY <1>1, <1>2 DEF Tx
  <1> HIDE DEF u
  <1>5. /\ tx[s].op # "none" => u \in User
        /\ tx[s].op = "none" => tx[s].phase = "idle"
    BY <1>1 DEF Local, Flow, u
  <1>6. u \in User =>
          /\ users'[u].status = "absent" <=> users[u].status = "absent"
          /\ \/ users'[u] = users[u]
             \/ /\ users'[u].version = users[u].version + 1
                /\ tx[q].row # NoRow /\ tx[q].user = u /\ users'[u] = tx[q].row
          /\ tx[q].op # "update" => users'[u].mobile = users[u].mobile
    BY CommitVersions
  <1>7. tx[s].row # NoRow => u \in User /\ users'[u] = users[u]
    BY <1>1, <1>5, <1>6 DEF Apart, Local, Pending, u
  <1>8. \A c \in consents' : c \in consents \/ c \in tx[q].granted
    BY CommitRows
  <1>9. \A c \in consents : c \in consents' \/ c \in tx[q].revoked
    BY CommitRows
  <1>10. \A c \in tx[q].granted : Granting(q) /\ c.user = tx[q].user
    BY <1>1 DEF Local, Consented
  <1>11. Flow(s)'
    BY <1>1, <1>4, <1>5, <1>6 DEF Local, Flow, u
  <1>12. Read(s)'
    <2>1. tx[s].op = "update" => users[u].version \in Nat /\ tx[s].target.version \in Nat
      BY <1>1, <1>5, Fields, Rows DEF TypeOK
    <2>2. Read(s)
      BY <1>1 DEF Local
    <2>3. tx[s].op = "update" =>
            /\ tx[s].target.version <= users[u].version
            /\ tx[s].target.version = users[u].version => tx[s].target = users[u]
      BY <2>2 DEF Read, u
    <2>4. tx[s].op = "update" =>
            /\ tx[s].target.version <= users'[u].version
            /\ tx[s].target.version = users'[u].version => tx[s].target = users'[u]
      BY <1>5, <1>6, <2>1, <2>3
    <2> QED
      BY <1>4, <2>2, <2>4 DEF Read
  <1>13. Pending(s)'
    BY <1>1, <1>4, <1>7 DEF Local, Pending, u
  <1>14. Reserved(s)'
    <2> SUFFICES ASSUME Entered(s), NEW w \in User, w \in ActiveWith(tx[s].row.mobile)'
                 PROVE  w = u
      BY <1>4 DEF Reserved, Entered, ActiveWith
    <2>1. users'[w].status = "active" /\ users'[w].mobile = tx[s].row.mobile
      BY <1>4 DEF ActiveWith
    <2>2. CASE users'[w] = users[w]
      BY <1>1, <2>1, <2>2 DEF Local, Reserved, ActiveWith, u
    <2>3. CASE tx[q].row # NoRow /\ tx[q].user = w /\ users'[w] = tx[q].row
      <3>1. Entered(q)
        BY <2>1, <2>3 DEF Entered, Commit
      <3> QED
        BY <1>1, <2>1, <2>3, <3>1 DEF Apart
    <2> QED
      BY <2>2, <2>3, CommitVersions
  <1>15. Consented(s)'
    <2>1. Consented(s)
      BY <1>1 DEF Local
    <2>2. \A c \in others : c \in consents' /\ c.user = u
      BY <1>3, <1>9, <2>1 DEF Consented, ConsentsOf, u
    <2>3. Granting(s)' <=> Granting(s)
      BY <1>4 DEF Granting
    <2>4. Granting(s) => ~ \E c \in consents' : c.user = u
      BY <1>1, <1>8, <1>10, <2>1 DEF Apart, Consented, ConsentsOf, u
    <2>5. others # {} => tx[s].seen # {}
      BY <1>3
    <2> QED
      BY <1>4, <2>1, <2>2, <2>3, <2>4, <2>5 DEF Consented, ConsentsOf, u
  <1>16. Unraced(s)'
    <2> SUFFICES ASSUME tx[s].op # "none", u \notin raced
                 PROVE  /\ tx[s].op = "grant" => tx[s].target.mobile = users'[u].mobile
                        /\ tx[s].op = "update" /\ MobileChanged(s) /\ tx[s].phase = "revoke" =>
                             \A c \in consents' : c.user = u => c \in others
                        /\ tx[s].op = "update" /\ MobileChanged(s) /\ tx[s].phase = "commit" =>
                             \A c \in consents' : c.user = u => c \in tx[s].revoked
                        /\ tx[s].op = "update" /\ tx[s].phase = "scan" => MobileChanged(s)
      BY <1>4, CommitRows DEF Unraced, MobileChanged, ConsentsOf
    <2>1. Unraced(s)
      BY <1>1 DEF Local
    <2>2. tx[s].op = "grant" => tx[s].target.mobile = users'[u].mobile
      <3>1. tx[s].op = "grant" /\ tx[q].user = u => tx[q].op # "update"
        BY <1>1 DEF Apart, u
      <3>2. tx[s].op = "grant" => users'[u].mobile = users[u].mobile
        BY <1>5, <1>6, <3>1
      <3> QED
        BY <2>1, <3>2 DEF Unraced, u
    <2>3. tx[s].op = "update" => \A c \in tx[q].granted : c.user # u
      BY <1>1, <1>10 DEF Apart, Granting, u
    <2>4. \A c \in consents' : c \notin tx[q].revoked \/ c \in tx[q].granted
      BY CommitRows
    <2>5. tx[s].op = "update" /\ MobileChanged(s) /\ tx[s].phase = "revoke" =>
            \A c \in consents' : c.user = u => c \in others
      BY <1>3, <1>8, <2>1, <2>3, <2>4 DEF Unraced, ConsentsOf, u
    <2>6. tx[s].op = "update" /\ MobileChanged(s) /\ tx[s].phase = "commit" =>
            \A c \in consents' : c.user = u => c \in tx[s].revoked
      BY <1>8, <2>1, <2>3 DEF Unraced, ConsentsOf, u
    <2>7. tx[s].op = "update" /\ tx[s].phase = "scan" => MobileChanged(s)
      BY <2>1 DEF Unraced, u
    <2> QED
      BY <2>2, <2>5, <2>6, <2>7
  <1> QED
    BY <1>11, <1>12, <1>13, <1>14, <1>15, <1>16 DEF Local

LEMMA CommitInv ==
  ASSUME IInv, NEW q \in Request, Commit(q)
  PROVE  IInv'
  <1>1. TypeOK /\ Local(q) /\ tx[q] \in Tx
    BY Typed DEF IInv
  <1>2. /\ tx'[q] = Idle /\ raced' = raced
        /\ consents' = (consents \ tx[q].revoked) \cup tx[q].granted
    BY CommitRows
  <1>3. ASSUME NEW s \in Request \ {q}
        PROVE  /\ tx'[s] \in Tx
               /\ tx'[s].op = tx[s].op /\ tx'[s].phase = tx[s].phase
               /\ tx'[s].user = tx[s].user /\ tx'[s].mobile = tx[s].mobile
               /\ tx'[s].target = tx[s].target /\ tx'[s].row = tx[s].row
    <2> DEFINE others == tx[s].seen \ tx[q].revoked
    <2>1. tx'[s] = [tx[s] EXCEPT !.seen = others]
      BY CommitRows
    <2>2. tx[s] \in Tx
      BY Typed, <1>1
    <2>3. others \in SUBSET Consent
      BY <2>2, Fields
    <2> HIDE DEF others
    <2> QED
      BY <2>1, <2>2, <2>3 DEF Tx
  <1>4. TypeOK'
    <2>1. \A s \in Request : tx'[s] \in Tx
      BY <1>2, <1>3, BlankRequest
    <2>2. tx' \in [Request -> Tx]
      BY <2>1 DEF Commit
    <2>3. users' \in [User -> UserRow]
      BY <1>1, Fields DEF Commit, TypeOK
    <2>4. consents' \subseteq Consent
      BY <1>1, <1>2, Fields DEF TypeOK
    <2> QED
      BY <1>1, <1>2, <2>2, <2>3, <2>4 DEF TypeOK
  <1>5. \A s \in Request : Local(s)'
    BY <1>2, EndsLocal, CommitLocal
  <1>6. ASSUME NEW r \in Request, NEW s \in Request, r # s PROVE Apart(r, s)'
    <2>1. \A t \in Request : tx'[t].user = None => tx'[t].op = "none"
      BY <1>5, DirectoryAssumption DEF Local, Flow
    <2>2. CASE r # q /\ s # q
      <3>1. Apart(r, s)
        BY <1>6 DEF IInv
      <3> QED
        BY <1>2, <1>3, <2>2, <3>1 DEF Apart, Entered, Granting
    <2>3. CASE r = q \/ s = q
      BY <1>2, <2>1, <2>3, BlankRequest DEF Apart, Entered, Granting
    <2> QED
      BY <2>2, <2>3
  <1>7. InOrder'
    <2>1. \A s \in Request : ~Behind(q, s)'
      BY <1>2, BlankRequest DEF Behind
    <2>2. ASSUME NEW r \in Request \ {q}, NEW s \in Request \ {q}, Behind(r, s)'
          PROVE  Behind(r, s)
      <3>1. /\ tx[r].op = "update" /\ tx[r].phase \in {"lock", "index"}
            /\ tx[s].op = "update" /\ tx[s].user # tx[r].user
            /\ tx[s].user \in User /\ users'[tx[s].user].status = "active"
            /\ users'[tx[s].user].mobile = tx[r].mobile
            /\ tx[s].target = users'[tx[s].user]
        BY <1>3, <2>2 DEF Behind, ActiveWith
      <3>2. tx[s].user \in User /\ Read(s)
        BY <3>1 DEF IInv, Local, Flow
      <3>3. users[tx[s].user].version \in Nat
        BY <1>1, <3>2, Rows DEF TypeOK
      <3>4. users'[tx[s].user].version <= users[tx[s].user].version
        BY <3>1, <3>2 DEF Read
      <3>5. users'[tx[s].user] = users[tx[s].user]
        BY <3>2, <3>3, <3>4, CommitVersions
      <3> QED
        BY <3>1, <3>2, <3>5 DEF Behind, ActiveWith
    <2> QED
      BY <2>1, <2>2, OrderKept DEF IInv
  <1>8. \A c \in tx[q].granted :
          /\ Granting(q) /\ c.user = tx[q].user /\ c.mobile = tx[q].target.mobile
          /\ tx[q].user \in User /\ tx[q].row = NoRow
          /\ users[tx[q].user].status # "absent"
          /\ \A d \in consents : d.user # tx[q].user
          /\ tx[q].granted = {c}
    BY <1>1 DEF Local, Consented, Granting, Flow, Pending, ConsentsOf
  <1>9. \A c \in consents' : c \in consents \/ c \in tx[q].granted
    BY <1>2
  <1>10. \A c \in consents : c.user \in User
    BY <1>1 DEF TypeOK, Consent
  <1>11. ConsentsHaveUsers'
    BY <1>8, <1>9, <1>10, CommitVersions DEF IInv, ConsentsHaveUsers
  <1>12. ActiveMobileUnique'
    <2> SUFFICES ASSUME NEW u \in User, NEW w \in User,
                        users'[u].status = "active", users'[w].status = "active",
                        users'[u].mobile = users'[w].mobile
                 PROVE  u = w
      BY DEF ActiveMobileUnique
    <2>1. ASSUME NEW x \in User, NEW y \in User, x # y, users'[y] = users[y],
                 users'[x].status = "active", users'[y].status = "active",
                 users'[x].mobile = users'[y].mobile
          PROVE  users'[x] = users[x]
      <3>1. CASE tx[q].row # NoRow /\ tx[q].user = x /\ users'[x] = tx[q].row
        <4>1. Entered(q)
          BY <2>1, <3>1 DEF Entered, Commit
        <4> QED
          BY <1>1, <2>1, <3>1, <4>1 DEF Local, Reserved, ActiveWith
      <3> QED
        BY <3>1, CommitVersions
    <2>2. users'[u] = users[u] \/ users'[w] = users[w] \/ u = w
      BY CommitVersions
    <2>3. u # w => users'[u] = users[u] /\ users'[w] = users[w]
      BY <2>1, <2>2
    <2> QED
      BY <2>3 DEF IInv, ActiveMobileUnique
  <1>13. OneActiveConsent'
    BY <1>8, <1>9 DEF IInv, OneActiveConsent
  <1>14. OnlyRacesSplitConsent'
    <2> SUFFICES ASSUME NEW c \in consents', c.user \notin raced
                 PROVE  c.mobile = users'[c.user].mobile
      BY <1>2 DEF OnlyRacesSplitConsent
    <2>1. CASE c \in tx[q].granted
      <3>1. users' = users
        BY <1>8, <2>1, CommitRows
      <3> QED
        BY <1>1, <1>8, <2>1, <3>1 DEF Local, Unraced, Granting
    <2>2. CASE c \in consents /\ c \notin tx[q].granted
      <3>1. c.mobile = users[c.user].mobile /\ c.user \in User
        BY <1>10, <2>2 DEF IInv, OnlyRacesSplitConsent
      <3>2. CASE users'[c.user].mobile = users[c.user].mobile
        BY <3>1, <3>2
      <3>3. CASE users'[c.user].mobile # users[c.user].mobile
        <4>1. /\ tx[q].op = "update" /\ tx[q].user = c.user /\ tx[q].row # NoRow
              /\ users'[c.user] = tx[q].row
          BY <3>1, <3>3, CommitVersions
        <4>2. tx[q].target = users[c.user] /\ tx[q].row.mobile = tx[q].mobile
          BY <1>1, <4>1 DEF Local, Pending
        <4>3. MobileChanged(q) /\ tx[q].phase = "commit"
          BY <3>3, <4>1, <4>2 DEF MobileChanged, Commit
        <4>4. c \in tx[q].revoked
          BY <1>1, <2>2, <4>1, <4>3 DEF Local, Unraced, ConsentsOf
        <4> QED
          BY <1>2, <2>2, <4>4
      <3> QED
        BY <3>2, <3>3
    <2> QED
      BY <1>9, <2>1, <2>2
  <1> QED
    BY <1>4, <1>5, <1>6, <1>7, <1>11, <1>12, <1>13, <1>14 DEF IInv

-----------------------------------------------------------------------------
(* Every step *)

LEMMA StatementInv ==
  ASSUME IInv, NEW q \in Request, Statement(q)
  PROVE  IInv'
  BY CheckNumberInv, WriteUserInv, IndexNumberInv, InsertUserInv, CheckConsentInv,
     InsertConsentInv, ScanConsentsInv, RevokeConsentsInv, CommitInv DEF Statement

LEMMA RollbackInv ==
  ASSUME IInv, NEW q \in Request, Rollback(q)
  PROVE  IInv'
  BY EndStep DEF Rollback

LEMMA NextInv == IInv /\ [Next]_vars => IInv'
  <1> SUFFICES ASSUME IInv, [Next]_vars PROVE IInv'
    OBVIOUS
  <1>1. ASSUME NEW q \in Request, NEW u \in User, NEW m \in Mobile,
               CreateUser(q, u, m) \/ UpdateUser(q, u, m)
        PROVE  IInv'
    BY <1>1, CreateUserInv, UpdateUserInv
  <1>2. ASSUME NEW q \in Request, NEW u \in User,
               RemoveUser(q, u) \/ GrantConsent(q, u) \/ RevokeConsent(q, u)
        PROVE  IInv'
    BY <1>2, RemoveUserInv, GrantConsentInv, RevokeConsentInv
  <1>3. ASSUME NEW q \in Request, Statement(q) \/ Rollback(q) PROVE IInv'
    BY <1>3, StatementInv, RollbackInv
  <1>4. CASE UNCHANGED vars
    BY <1>4 DEF vars, IInv, TypeOK, Local, Flow, Read, Pending, Reserved, Entered,
       ActiveWith, Consented, Granting, ConsentsOf, Unraced, MobileChanged, Apart,
       InOrder, Behind, ConsentsHaveUsers, ActiveMobileUnique, OneActiveConsent,
       OnlyRacesSplitConsent
  <1> QED
    BY <1>1, <1>2, <1>3, <1>4 DEF Next

\* The inductive invariant holds in every reachable state: what requests of
\* domain/recipients.py know, hold and exclude between their statements.
THEOREM InductiveInvariant == Spec => []IInv
  BY InitInv, NextInv, PTL DEF Spec

-----------------------------------------------------------------------------
(* What it gives *)

\* The directory's rows, consents and transactions keep their types, and no
\* version runs past its bound.
THEOREM TypesHold == Spec => []TypeOK
  <1>1. IInv => TypeOK
    BY DEF IInv
  <1> QED
    BY <1>1, InductiveInvariant, PTL

\* No two active users share a number, however create_user and update_user
\* interleave between get_by_mobile and the unique index.
THEOREM NumbersUnique == Spec => []ActiveMobileUnique
  <1>1. IInv => ActiveMobileUnique
    BY DEF IInv
  <1> QED
    BY <1>1, InductiveInvariant, PTL

\* A user has at most one active consent, however grants and revocations of
\* api/recipients/routes.py interleave.
THEOREM ConsentsSingle == Spec => []OneActiveConsent
  <1>1. IInv => OneActiveConsent
    BY DEF IInv
  <1> QED
    BY <1>1, InductiveInvariant, PTL

\* An active consent is for the user's present number unless a grant and an edit
\* of the user overlapped: revoke_active in update_user misses no other consent.
THEOREM ConsentsFollow == Spec => []OnlyRacesSplitConsent
  <1>1. IInv => OnlyRacesSplitConsent
    BY DEF IInv
  <1> QED
    BY <1>1, InductiveInvariant, PTL

\* Only a request in the middle of its edit makes another wait, and one that
\* waits itself is about to enter its number.
LEMMA BlockersProgress ==
  ASSUME IInv, NEW r \in Request, NEW s \in Blockers(r)
  PROVE  \/ tx[s].phase \in {"scan", "revoke", "commit"}
         \/ /\ tx[s].phase = "index"
            /\ tx[r].phase = "index" => Behind(r, s)
  <1>1. /\ s \in Request /\ s # r /\ TypeOK /\ Local(r) /\ Local(s) /\ Apart(r, s)
    BY DEF IInv, Blockers
  <1>2. CASE tx[s].row # NoRow
    <2>1. tx[s].op \in {"update", "remove"} /\ tx[s].phase \in Writing
      BY <1>1, <1>2 DEF Local, Pending
    <2>2. ASSUME tx[s].phase = "index", tx[r].phase = "index"
          PROVE  Behind(r, s)
      <3>1. tx[r].op = "update" /\ tx[s].op = "update"
        BY <1>1, <2>2, Typed, Fields DEF Local, Flow, Op
      <3>2. tx[r].row # NoRow /\ tx[r].row.mobile = tx[r].mobile
        BY <1>1, <2>2, <3>1 DEF Local, Pending, Writing
      <3>3. tx[s].target = users[tx[s].user]
        BY <1>1, <1>2, <3>1 DEF Local, Pending
      <3>4. tx[s].user # tx[r].user
        BY <1>1, <1>2, <3>2 DEF Apart
      <3>5. HoldsNumber(s, tx[r].mobile)
        BY <2>2, <3>2 DEF Blockers
      <3>6. tx[s].user \in ActiveWith(tx[r].mobile)
        BY <2>2, <3>5 DEF HoldsNumber
      <3> QED
        BY <2>2, <3>1, <3>3, <3>4, <3>6 DEF Behind
    <2> QED
      BY <2>1, <2>2 DEF Writing
  <1>3. CASE tx[s].row = NoRow
    <2>1. tx[s].granted # {} \/ tx[s].revoked # {}
      BY <1>3 DEF Blockers, Wrote, HoldsNumber
    <2>2. tx[s].phase = "commit"
      BY <1>1, <2>1 DEF Local, Consented, Granting
    <2> QED
      BY <2>2
  <1> QED
    BY <1>2, <1>3

\* Past the index, a request waits at most for one that is about to commit.
LEMMA AlmostDone ==
  ASSUME IInv, NEW r \in Request, tx[r].phase \in {"scan", "revoke", "commit"},
         NEW s \in Blockers(r)
  PROVE  tx[s].phase = "commit" /\ Blockers(s) = {}
  <1>1. tx[s].revoked # {} /\ s \in Request
    BY DEF Blockers
  <1>2. tx[s].phase = "commit"
    BY <1>1 DEF IInv, Local, Consented
  <1> QED
    BY <1>2 DEF Blockers

\* Requests never wait for each other in a circle, although an edit locks its
\* row first and its number later: of two edits that want each other's numbers,
\* the later one has found its number taken (get_by_mobile in update_user).
THEOREM NoDeadlock == Spec => []NoWaitCycle
  <1>1. ASSUME IInv, NEW circle \in (SUBSET Request) \ {{}}
        PROVE  \E r \in circle : Blockers(r) \cap circle = {}
    <2>1. circle \subseteq Request /\ circle # {}
      OBVIOUS
    <2>2. CASE \E r \in circle : tx[r].phase \in {"scan", "revoke", "commit"}
      <3>1. PICK r \in circle : tx[r].phase \in {"scan", "revoke", "commit"}
        BY <2>2
      <3>2. CASE Blockers(r) \cap circle = {}
        BY <3>2
      <3>3. CASE Blockers(r) \cap circle # {}
        <4>1. PICK s \in circle : s \in Blockers(r)
          BY <3>3
        <4>2. Blockers(s) = {}
          BY <1>1, <2>1, <3>1, <4>1, AlmostDone
        <4> QED
          BY <4>2
      <3> QED
        BY <3>2, <3>3
    <2>3. CASE \A r \in circle : tx[r].phase \notin {"scan", "revoke", "commit"}
      <3> DEFINE entering == {r \in circle : tx[r].phase = "index"}
      <3>1. \A r \in circle : \A s \in Blockers(r) \cap circle :
              /\ s \in entering
              /\ tx[r].phase = "index" => Behind(r, s)
        BY <1>1, <2>1, <2>3, BlockersProgress
      <3>2. CASE entering = {}
        <4>1. PICK r \in circle : TRUE
          BY <2>1
        <4> QED
          BY <3>1, <3>2, <4>1
      <3>3. CASE entering # {}
        <4>1. entering \subseteq Request
          BY <2>1
        <4>2. PICK r \in entering : \A s \in entering : ~Behind(r, s)
          <5> HIDE DEF entering
          <5> QED
            BY <1>1, <3>3, <4>1 DEF IInv, InOrder
        <4>3. Blockers(r) \cap circle = {}
          BY <3>1, <4>2
        <4> QED
          BY <4>2, <4>3
      <3> QED
        BY <3>2, <3>3
    <2> QED
      BY <2>2, <2>3
  <1>2. IInv => NoWaitCycle
    BY <1>1 DEF NoWaitCycle
  <1> QED
    BY <1>2, InductiveInvariant, PTL

-----------------------------------------------------------------------------
(* What a step may do to a user *)

\* Only a commit and the insertion of a new user change rows.
LEMMA WhoWrites ==
  ASSUME IInv, [Next]_vars, users' # users
  PROVE  \E q \in Request : Commit(q) \/ InsertUser(q)
  BY DEF Next, vars, Statement, Rollback, CreateUser, UpdateUser, RemoveUser,
     GrantConsent, RevokeConsent, Begin, CheckNumber, WriteUser, IndexNumber,
     CheckConsent, InsertConsent, ScanConsents, RevokeConsents

\* An edit that is written replaces exactly the row its Administrator saw: the
\* WHERE clause of update_directory_fields loses no concurrent edit or removal.
THEOREM NoLostEdit == Spec => EditsWhatWasSeen
  <1>1. ASSUME IInv, [Next]_vars, NEW r \in Request, tx[r].op = "update",
               users' # users, tx'[r] = Idle, tx[r] # Idle
        PROVE  users[tx[r].user] = tx[r].target
    <2>1. PICK q \in Request : Commit(q) \/ InsertUser(q)
      BY <1>1, WhoWrites
    <2>2. CASE Commit(q)
      <3>1. q = r
        <4> SUFFICES ASSUME r # q PROVE FALSE
          OBVIOUS
        <4>1. tx'[r] = [tx[r] EXCEPT !.seen = tx[r].seen \ tx[q].revoked]
          BY <1>1, <2>2, CommitRows
        <4>2. tx'[r].op = tx[r].op
          BY <1>1, <4>1, Typed DEF IInv, Tx
        <4> QED
          BY <1>1, <4>2, BlankRequest
      <3>2. tx[r].row # NoRow
        BY <1>1, <2>2, <3>1, CommitRows
      <3> QED
        BY <1>1, <3>2 DEF IInv, Local, Pending
    <2>3. CASE InsertUser(q)
      <3>1. tx[q].op = "create" /\ tx' = [tx EXCEPT ![q] = Idle]
        BY <2>3 DEF InsertUser, End
      <3>2. tx'[r] = tx[r]
        BY <1>1, <3>1 DEF IInv, TypeOK
      <3> QED
        BY <1>1, <3>2
    <2> QED
      BY <2>1, <2>2, <2>3
  <1>2. IInv /\ [Next]_vars =>
          [\A r \in Request :
             tx[r].op = "update" /\ users' # users /\ tx'[r] = Idle /\ tx[r] # Idle
               => users[tx[r].user] = tx[r].target]_vars
    BY <1>1
  <1> QED
    BY <1>2, InductiveInvariant, PTL DEF EditsWhatWasSeen, Spec

\* A removed user is never brought back by an edit that was under way when
\* deactivate committed.
THEOREM RemovalIsFinal == Spec => RemovedStaysRemoved
  <1>1. ASSUME IInv, [Next]_vars, NEW u \in User, users[u].status = "inactive"
        PROVE  users'[u].status = "inactive"
    <2>1. CASE users' = users
      BY <1>1, <2>1
    <2>2. CASE users' # users
      <3>1. PICK q \in Request : Commit(q) \/ InsertUser(q)
        BY <1>1, <2>2, WhoWrites
      <3>2. Local(q) /\ TypeOK
        BY <1>1 DEF IInv
      <3>3. CASE Commit(q)
        <4>1. CASE users'[u] = users[u]
          BY <1>1, <4>1
        <4>2. CASE tx[q].row # NoRow /\ tx[q].user = u /\ users'[u] = tx[q].row
          <5>1. tx[q].op \in {"update", "remove"}
            BY <3>2, <4>2 DEF Local, Pending
          <5> QED
            BY <1>1, <3>2, <4>2, <5>1 DEF Local, Pending
        <4> QED
          BY <1>1, <3>3, <4>1, <4>2, CommitVersions
      <3>4. CASE InsertUser(q)
        <4>1. users[tx[q].user].status = "absent"
          BY <3>2, <3>4 DEF InsertUser, Local, Flow
        <4>2. tx[q].user # u
          BY <1>1, <4>1
        <4>3. users'[u] = users[u]
          BY <3>2, <3>4, <4>2 DEF InsertUser, TypeOK
        <4> QED
          BY <1>1, <4>3
      <3> QED
        BY <3>1, <3>3, <3>4
    <2> QED
      BY <2>1, <2>2
  <1>2. IInv /\ [Next]_vars =>
          [\A u \in User :
             users[u].status = "inactive" => users'[u].status = "inactive"]_vars
    BY <1>1
  <1> QED
    BY <1>2, InductiveInvariant, PTL DEF RemovedStaysRemoved, Spec
=============================================================================
