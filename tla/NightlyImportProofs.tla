------------------------ MODULE NightlyImportProofs ------------------------
(***************************************************************************)
(* Proofs about NightlyImport, for any teams, names, files, importers and  *)
(* handlers: types, that a night is all or nothing, that only edits of     *)
(* teams make a name count twice, and what orphans a doctor.               *)
(***************************************************************************)
EXTENDS NightlyImport, FiniteSetTheorems, WellFoundedInduction, TLAPS

-----------------------------------------------------------------------------
(* The inductive invariant *)

Holder(p) == imp[p].phase \in {"fetch", "resolve"}

\* Runs are numbered as they start; the lock's holder has the latest number, and
\* nobody else concludes a run that is under way.
Underway(p) ==
  imp[p].phase # "idle" =>
    /\ imp[p].run \in Run
    /\ runs[imp[p].run].status = "none"
    /\ IF Holder(p) THEN imp[p].run = begun ELSE imp[p].run <= begun

OneNightAtATime(p, q) ==
  /\ ~(Holder(p) /\ Holder(q))
  /\ imp[p].phase # "idle" /\ imp[q].phase # "idle" => imp[p].run # imp[q].run

Concluded == \A r \in Run : runs[r].status # "none" => r <= begun

\* Team t is committed, and is called n unless it has been edited since.
Known(t, n) == teams[t] # NoTeam /\ (teams[t].name = n \/ teams[t].version > 1)

\* What an import has resolved, and what it has inserted and nobody else sees.
Resolved(p) ==
  /\ imp[p].phase = "resolve" => imp[p].batch \in Batch /\ ~Unreadable(imp[p].batch)
  /\ imp[p].phase # "resolve" =>
       imp[p].name = None /\ \A t \in Team : imp[p].made[t] = None
  /\ \A n \in Name : imp[p].cache[n] # None =>
       imp[p].made[imp[p].cache[n]] = n \/ Known(imp[p].cache[n], n)
  /\ \A t, u \in Team : imp[p].made[t] = imp[p].made[u] /\ imp[p].made[t] # None => t = u

\* A team that an import has inserted, against what is committed or being edited.
Reserved(p, t) ==
  LET n == imp[p].made[t]
  IN n # None =>
       /\ teams[t] = NoTeam
       /\ ActiveWith(n) = {}
       /\ imp[p].cache[n] # None \/ imp[p].name = n
       /\ \A h \in Handler :
            /\ adm[h].team # t
            /\ ~(adm[h].phase = "commit" /\ adm[h].row.status = "active"
                                         /\ adm[h].row.name = n)

\* Which statements an edit of each kind runs, and on which team.
Flow(h) ==
  /\ adm[h].op = "none" <=> adm[h].phase = "idle"
  /\ adm[h].op = "create" => adm[h].phase \in {"name", "write", "commit"}
  /\ adm[h].op = "remove" => adm[h].phase \in {"write", "commit"}
  /\ adm[h].op # "none" => adm[h].team \in Team
  /\ adm[h].op \in {"create", "rename"} => adm[h].name \in Name
  /\ adm[h].op = "create" => teams[adm[h].team] = NoTeam
  /\ adm[h].op \in {"rename", "remove"} => teams[adm[h].team] # NoTeam

\* A renaming has read an earlier state of the row, or the present one, and has
\* found no doctor in the team's territory, of those imported so far.
Read(h) ==
  adm[h].op = "rename" =>
    /\ adm[h].target.version <= teams[adm[h].team].version
    /\ adm[h].target.version = teams[adm[h].team].version
         => adm[h].target = teams[adm[h].team]
    /\ adm[h].phase \in {"write", "commit"} /\ adm[h].name # adm[h].target.name =>
         /\ adm[h].asOf \in Succeeded \cup {0}
         /\ \A d \in Doctor :
              doctors[d].territory = adm[h].target.name => doctors[d].by > adm[h].asOf

\* What an edit has written, and keeps other edits away from.
Pending(h) ==
  adm[h].phase = "commit" =>
    /\ adm[h].row = Written(teams[adm[h].team], adm[h].op, adm[h].name)
    /\ adm[h].op = "rename" => adm[h].target = teams[adm[h].team]
    /\ adm[h].row.status = "active" => ActiveWith(adm[h].row.name) \subseteq {adm[h].team}

Apart(h, k) ==
  /\ adm[h].op = "create" => adm[h].team # adm[k].team
  /\ adm[h].phase = "commit" /\ adm[k].phase = "commit" =>
       /\ adm[h].team # adm[k].team
       /\ adm[h].row.status = "active" /\ adm[k].row.status = "active" =>
            adm[h].row.name # adm[k].row.name

\* Facts come from runs that succeeded, for teams that were called that.
FactsKnown ==
  /\ \A d \in Date, t \in Team :
       /\ sales[<<d, t>>].by \in Succeeded \cup {0}
       /\ sales[<<d, t>>].name # None => sales[<<d, t>>].by > 0 /\ Known(t, sales[<<d, t>>].name)
  /\ \A b \in Brand : brands[b].by \in Succeeded \cup {0}
  /\ \A d \in Doctor :
       /\ doctors[d].by \in Succeeded \cup {0}
       /\ doctors[d].by > 0 => doctors[d].territory \in Name

\* The sales, the brands and the doctors of run r's files are in the tables, and
\* its counts add up.
SalesShown(r) ==
  \A i \in Valid(staged[r].sales) :
    \E t \in Team :
      LET fact == sales[<<staged[r].sales[i].date, t>>]
      IN fact.by >= r /\ (fact.name = staged[r].sales[i].team \/ teams[t].version > 1)

BrandsShown(r) ==
  \A i \in Valid(staged[r].brands) : brands[staged[r].brands[i].brand].by >= r

DoctorsShown(r) ==
  \A i \in ValidDoctors(staged[r].doctors) : doctors[staged[r].doctors[i].doctor].by >= r

Counted(r) ==
  runs[r].processed + runs[r].rejected =
    Len(staged[r].sales) + Len(staged[r].brands) + Len(staged[r].doctors)

Shown(r) ==
  r \in Succeeded =>
    staged[r] \in Batch /\ SalesShown(r) /\ BrandsShown(r) /\ DoctorsShown(r) /\ Counted(r)

\* ix_teams_name_active_uq: no two active teams share a name.
NamesUnique ==
  \A t, u \in Team :
    teams[t].status = "active" /\ teams[u].status = "active" /\ teams[t].name = teams[u].name
      => t = u

IInv ==
  /\ TypeOK
  /\ \A p \in Importer : Underway(p) /\ Resolved(p) /\ \A t \in Team : Reserved(p, t)
  /\ \A p, q \in Importer : p # q => OneNightAtATime(p, q)
  /\ Concluded
  /\ \A h \in Handler : Flow(h) /\ Read(h) /\ Pending(h)
  /\ \A h, k \in Handler : h # k => Apart(h, k)
  /\ FactsKnown
  /\ \A r \in Run : Shown(r)
  /\ NamesUnique

-----------------------------------------------------------------------------
(* The greatest of finitely many numbers *)

LEMMA LastIs ==
  ASSUME NEW n \in Nat, NEW S, S \subseteq 1..n, S # {}
  PROVE  LastOf(S) \in S /\ \A j \in S : j <= LastOf(S)
  <1> DEFINE Rest == {i..n : i \in S}
  <1>1. Rest \subseteq FiniteSubsetsOf(1..n)
    <2> SUFFICES ASSUME NEW i \in S PROVE IsFiniteSet(i..n) /\ i..n \subseteq 1..n
      BY DEF FiniteSubsetsOf
    <2>1. i \in Int /\ 1 <= i
      OBVIOUS
    <2> QED
      BY <2>1, FS_Interval
  <1>2. Rest # {}
    OBVIOUS
  <1>3. PICK T \in Rest : \A U \in Rest : <<U, T>> \notin StrictSubsetOrdering(1..n)
    <2> HIDE DEF Rest
    <2> QED
      BY <1>1, <1>2, WFMin, FS_StrictSubsetOrderingWellFounded
  <1>4. PICK i \in S : T = i..n
    OBVIOUS
  <1>5. \A j \in S : j <= i
    <2> SUFFICES ASSUME NEW j \in S, i < j PROVE FALSE
      OBVIOUS
    <2>1. j..n \subseteq i..n /\ i \in i..n /\ i \notin j..n
      OBVIOUS
    <2>2. j..n \subseteq 1..n /\ i..n \subseteq 1..n
      OBVIOUS
    <2>3. <<j..n, i..n>> \in StrictSubsetOrdering(1..n)
      BY <2>1, <2>2 DEF StrictSubsetOrdering
    <2> QED
      BY <1>3, <1>4, <2>3
  <1> QED
    BY <1>5 DEF LastOf

\* A test splits the positions of a file in two.
LEMMA Split ==
  ASSUME NEW S, IsFiniteSet(S), NEW T, T \subseteq S
  PROVE  /\ IsFiniteSet(T) /\ IsFiniteSet(S \ T)
         /\ Cardinality(T) \in Nat /\ Cardinality(S \ T) \in Nat
         /\ Cardinality(T) + Cardinality(S \ T) = Cardinality(S)
  <1>1. S \cap T = T
    OBVIOUS
  <1>2. IsFiniteSet(T) /\ IsFiniteSet(S \ T)
    BY FS_Subset, FS_Difference
  <1>3. Cardinality(S \ T) = Cardinality(S) - Cardinality(T)
    BY <1>1, FS_Difference
  <1>4. Cardinality(T) \in Nat /\ Cardinality(S \ T) \in Nat /\ Cardinality(S) \in Nat
    BY <1>2, FS_CardinalityType
  <1> QED
    BY <1>2, <1>3, <1>4

-----------------------------------------------------------------------------
(* Rows, blank imports and blank edits *)

LEMMA Rows ==
  ASSUME NEW row \in TeamRow
  PROVE  /\ row.version \in Nat
         /\ row.status \in {"absent", "active", "inactive"}
         /\ row = NoTeam <=> row.status = "absent"
         /\ row = NoTeam <=> row.version = 0
         /\ row # NoTeam => row.name \in Name
         /\ row.name = None <=> row = NoTeam
  BY NightlyImportAssumption DEF TeamRow, NoTeam

LEMMA BlankRow == NoTeam \in TeamRow /\ NoTeam.status = "absent" /\ NoTeam.version = 0
  BY DEF NoTeam, TeamRow

LEMMA BlankImport ==
  /\ NoImport \in Import
  /\ NoImport.phase = "idle" /\ NoImport.run = 0 /\ NoImport.batch = None
  /\ NoImport.name = None
  /\ \A n \in Name : NoImport.cache[n] = None
  /\ \A t \in Team : NoImport.made[t] = None
  BY DEF NoImport, Import

LEMMA BlankEdit ==
  /\ NoEdit \in Edit
  /\ NoEdit.op = "none" /\ NoEdit.phase = "idle" /\ NoEdit.team = None
  BY BlankRow DEF NoEdit, Edit

LEMMA ImportFields ==
  ASSUME NEW i \in Import
  PROVE  /\ i.phase \in {"idle", "fetch", "resolve", "failed"}
         /\ i.run \in Run \cup {0} /\ i.batch \in Batch \cup {None}
         /\ i.cache \in [Name -> Team \cup {None}]
         /\ i.made \in [Team -> Name \cup {None}] /\ i.name \in Name \cup {None}
  BY DEF Import

LEMMA EditFields ==
  ASSUME NEW e \in Edit
  PROVE  /\ e.op \in {"none", "create", "rename", "remove"}
         /\ e.phase \in {"idle", "name", "doctors", "write", "commit"}
         /\ e.team \in Team \cup {None} /\ e.name \in Name \cup {None}
         /\ e.target \in TeamRow /\ e.row \in TeamRow /\ e.asOf \in Run \cup {0}
  BY DEF Edit

LEMMA Typed ==
  ASSUME TypeOK
  PROVE  /\ \A p \in Importer : imp[p] \in Import
         /\ \A h \in Handler : adm[h] \in Edit
         /\ \A t \in Team : teams[t] \in TeamRow
         /\ \A r \in Run : runs[r] \in RunRow
         /\ begun \in 0..MaxRuns
  BY DEF TypeOK

LEMMA InitInv == Init => IInv
  <1> SUFFICES ASSUME Init PROVE IInv
    OBVIOUS
  <1> USE NightlyImportAssumption
  <1>1. TypeOK
    <2>1. NoFact \in Fact
      BY DEF NoFact, Fact, Amount, Pct
    <2>2. NoRun \in RunRow
      BY DEF NoRun, RunRow
    <2> QED
      BY <2>1, <2>2, BlankRow, BlankImport, BlankEdit DEF Init, TypeOK, Pct
  <1>2. /\ \A p \in Importer : imp[p] = NoImport
        /\ \A h \in Handler : adm[h] = NoEdit
        /\ \A t \in Team : teams[t] = NoTeam
    BY DEF Init
  <1>3. \A p \in Importer : Underway(p) /\ Resolved(p) /\ \A t \in Team : Reserved(p, t)
    BY <1>2, BlankImport DEF Underway, Resolved, Reserved
  <1>4. \A p, q \in Importer : OneNightAtATime(p, q)
    BY <1>2, BlankImport DEF OneNightAtATime, Holder
  <1>5. Concluded /\ Succeeded = {}
    BY DEF Init, Concluded, NoRun, Succeeded
  <1>6. \A h \in Handler : Flow(h) /\ Read(h) /\ Pending(h)
    BY <1>2, BlankEdit DEF Flow, Read, Pending
  <1>7. \A h, k \in Handler : Apart(h, k)
    BY <1>2, BlankEdit DEF Apart
  <1>8. FactsKnown
    <2>1. \A d \in Date, t \in Team : sales[<<d, t>>] = NoFact
      BY DEF Init
    <2>2. NoFact.by = 0 /\ NoFact.name = None
      BY DEF NoFact
    <2> QED
      BY <2>1, <2>2 DEF Init, FactsKnown
  <1>9. \A r \in Run : Shown(r)
    BY <1>5 DEF Shown
  <1>10. NamesUnique
    BY <1>2, BlankRow DEF NamesUnique
  <1> QED
    BY <1>1, <1>3, <1>4, <1>5, <1>6, <1>7, <1>8, <1>9, <1>10 DEF IInv

-----------------------------------------------------------------------------
(* Steps of one import that commit no team and no fact *)

\* What a run has put on record stays shown while the facts stay.
LEMMA ShownKept ==
  ASSUME NEW r \in Run, Shown(r), UNCHANGED <<sales, brands, doctors, staged>>,
         Succeeded' = Succeeded, r \in Succeeded => runs'[r] = runs[r],
         \A t \in Team : teams[t].version > 1 => teams'[t].version > 1
  PROVE  Shown(r)'
  <1> SUFFICES ASSUME r \in Succeeded PROVE Shown(r)'
    BY DEF Shown
  <1>1. /\ staged[r] \in Batch /\ SalesShown(r) /\ BrandsShown(r) /\ DoctorsShown(r)
        /\ Counted(r)
    BY DEF Shown
  <1>2. SalesShown(r)'
    BY <1>1 DEF SalesShown
  <1>3. BrandsShown(r)' /\ DoctorsShown(r)'
    BY <1>1 DEF BrandsShown, DoctorsShown
  <1>4. Counted(r)'
    BY <1>1 DEF Counted
  <1> QED
    BY <1>1, <1>2, <1>3, <1>4 DEF Shown

LEMMA ImportStep ==
  ASSUME IInv, NEW p \in Importer,
         imp'[p] \in Import, imp' = [imp EXCEPT ![p] = imp'[p]],
         UNCHANGED <<teams, facts, staged, adm>>,
         begun' \in 0..MaxRuns, begun <= begun',
         \A q \in Importer \ {p} : Holder(q) => begun' = begun,
         runs' \in [Run -> RunRow],
         \A r \in Run : \/ runs'[r] = runs[r]
                       \/ /\ imp[p].phase = "failed" /\ r = imp[p].run
                          /\ runs'[r].status = "failed",
         Underway(p)', Resolved(p)', \A t \in Team : Reserved(p, t)',
         \A q \in Importer \ {p} : OneNightAtATime(p, q)'
  PROVE  IInv'
  <1>1. \A q \in Importer \ {p} : imp'[q] = imp[q]
    BY DEF IInv, TypeOK
  <1>2. TypeOK'
    BY DEF IInv, TypeOK, facts
  <1>3. begun \in Nat /\ begun' \in Nat /\ \A r \in Run : r \in Nat
    BY Typed DEF IInv, Run
  <1>12. ASSUME NEW r \in Run, runs[r].status # "none"
        PROVE  runs'[r] = runs[r]
    BY <1>12 DEF IInv, Underway
  <1>13. Succeeded' = Succeeded
    BY <1>12 DEF Succeeded
  <1>4. ASSUME NEW q \in Importer PROVE (Underway(q) /\ Resolved(q))'
    <2>1. CASE q = p
      BY <2>1
    <2>2. CASE q # p
      <3>1. imp'[q] = imp[q] /\ Underway(q) /\ Resolved(q) /\ OneNightAtATime(p, q)
        BY <1>1, <2>2 DEF IInv
      <3>4. imp[q].phase # "idle" => runs'[imp[q].run] = runs[imp[q].run]
        BY <3>1 DEF OneNightAtATime, Underway
      <3>2. Underway(q)'
        BY <1>3, <2>2, <3>1, <3>4 DEF Underway, Holder
      <3>3. Resolved(q)'
        BY <3>1 DEF Resolved, Known
      <3> QED
        BY <3>2, <3>3
    <2> QED
      BY <2>1, <2>2
  <1>5. ASSUME NEW q \in Importer, NEW t \in Team PROVE Reserved(q, t)'
    <2>1. CASE q = p
      BY <2>1
    <2>2. CASE q # p
      <3>1. imp'[q] = imp[q] /\ Reserved(q, t)
        BY <1>1, <2>2 DEF IInv
      <3> QED
        BY <3>1 DEF Reserved, ActiveWith
    <2> QED
      BY <2>1, <2>2
  <1>6. ASSUME NEW q \in Importer, NEW s \in Importer, q # s PROVE OneNightAtATime(q, s)'
    <2>1. CASE q = p
      BY <1>6, <2>1
    <2>2. CASE s = p
      BY <1>6, <2>2 DEF OneNightAtATime
    <2>3. CASE q # p /\ s # p
      <3>1. imp'[q] = imp[q] /\ imp'[s] = imp[s] /\ OneNightAtATime(q, s)
        BY <1>1, <1>6, <2>3 DEF IInv
      <3> QED
        BY <3>1 DEF OneNightAtATime, Holder
    <2> QED
      BY <2>1, <2>2, <2>3
  <1>7. Concluded'
    <2> SUFFICES ASSUME NEW r \in Run, runs'[r].status # "none" PROVE r <= begun'
      BY DEF Concluded
    <2>1. CASE runs'[r] = runs[r]
      BY <1>3, <2>1 DEF IInv, Concluded
    <2>2. CASE imp[p].phase = "failed" /\ r = imp[p].run
      BY <1>3, <2>2 DEF IInv, Underway, Holder
    <2> QED
      BY <2>1, <2>2
  <1>8. \A h \in Handler : (Flow(h) /\ Read(h) /\ Pending(h))'
    BY <1>13 DEF IInv, facts, Flow, Read, Pending, Written, ActiveWith
  <1>9. \A h, k \in Handler : h # k => Apart(h, k)'
    BY DEF IInv, Apart
  <1>10. FactsKnown' /\ NamesUnique'
    BY <1>13 DEF IInv, facts, FactsKnown, Known, NamesUnique
  <1>14. \A r \in Succeeded : runs'[r] = runs[r]
    BY <1>12 DEF Succeeded
  <1>11. \A r \in Run : Shown(r)'
    <2>1. UNCHANGED <<sales, brands, doctors, staged, teams>>
      BY DEF facts
    <2> QED
      BY <1>13, <1>14, <2>1, ShownKept DEF IInv
  <1> QED
    BY <1>2, <1>4, <1>5, <1>6, <1>7, <1>8, <1>9, <1>10, <1>11 DEF IInv

\* An import that gives up: whether its run is still to be recorded, or not.
LEMMA StopStep ==
  ASSUME IInv, NEW p \in Importer, NEW stopped \in Import,
         imp' = [imp EXCEPT ![p] = stopped],
         UNCHANGED <<teams, facts, staged, begun, adm>>,
         runs' \in [Run -> RunRow],
         \A r \in Run : \/ runs'[r] = runs[r]
                       \/ /\ imp[p].phase = "failed" /\ r = imp[p].run
                          /\ runs'[r].status = "failed" /\ stopped.phase = "idle",
         \/ stopped.phase = "idle"
         \/ /\ stopped.phase = "failed" /\ stopped.run = imp[p].run
            /\ imp[p].phase # "idle",
         stopped.name = None, \A n \in Name : stopped.cache[n] = None,
         \A t \in Team : stopped.made[t] = None
  PROVE  IInv'
  <1>1. imp'[p] = stopped /\ imp' = [imp EXCEPT ![p] = imp'[p]]
    BY DEF IInv, TypeOK
  <1>2. begun \in 0..MaxRuns /\ begun \in Nat /\ begun <= begun
    BY NightlyImportAssumption, Typed DEF IInv
  <1>3. Underway(p)'
    <2>1. Underway(p)
      BY DEF IInv
    <2> QED
      BY <1>1, <1>2, <2>1 DEF Underway, Holder
  <1>4. Resolved(p)'
    BY <1>1 DEF Resolved
  <1>5. \A t \in Team : Reserved(p, t)'
    BY <1>1 DEF Reserved
  <1>6. ASSUME NEW q \in Importer \ {p} PROVE OneNightAtATime(p, q)'
    <2>1. imp'[q] = imp[q] /\ OneNightAtATime(p, q)
      BY <1>1 DEF IInv, TypeOK
    <2> QED
      BY <1>1, <2>1 DEF OneNightAtATime, Holder
  <1>7. /\ begun' = begun
        /\ \A r \in Run : \/ runs'[r] = runs[r]
                         \/ /\ imp[p].phase = "failed" /\ r = imp[p].run
                            /\ runs'[r].status = "failed"
    OBVIOUS
  <1> QED
    BY <1>1, <1>2, <1>3, <1>4, <1>5, <1>6, <1>7, ImportStep

LEMMA FailInv ==
  ASSUME IInv, NEW p \in Importer, Fail(p) \/ Crash(p)
  PROVE  IInv'
  <1>1. runs' = runs /\ runs \in [Run -> RunRow]
    BY DEF Fail, Crash, IInv, TypeOK
  <1>2. CASE Crash(p)
    BY <1>1, <1>2, BlankImport, StopStep DEF Crash
  <1>3. CASE Fail(p)
    <2> DEFINE stopped == [NoImport EXCEPT !.phase = "failed", !.run = imp[p].run]
    <2>1. imp[p].run \in Run \cup {0}
      BY Typed, ImportFields DEF IInv
    <2>2. /\ stopped \in Import /\ stopped.phase = "failed" /\ stopped.run = imp[p].run
          /\ stopped.name = None /\ \A n \in Name : stopped.cache[n] = None
          /\ \A t \in Team : stopped.made[t] = None
      BY <2>1, BlankImport DEF Import
    <2>3. imp' = [imp EXCEPT ![p] = stopped] /\ imp[p].phase # "idle"
      BY <1>3 DEF Fail
    <2> HIDE DEF stopped
    <2>4. UNCHANGED <<teams, facts, staged, begun, adm>>
      BY <1>3 DEF Fail
    <2> QED
      BY <1>1, <2>2, <2>3, <2>4, StopStep
  <1> QED
    BY <1>2, <1>3

LEMMA RecordFailureInv ==
  ASSUME IInv, NEW p \in Importer, RecordFailure(p)
  PROVE  IInv'
  <1>1. imp[p].phase = "failed" /\ imp[p].run \in Run /\ runs \in [Run -> RunRow]
    BY DEF IInv, TypeOK, Underway, RecordFailure
  <1>2. runs' = [runs EXCEPT ![imp[p].run].status = "failed"]
        /\ imp' = [imp EXCEPT ![p] = NoImport]
        /\ UNCHANGED <<teams, facts, staged, begun, adm>>
    BY DEF RecordFailure
  <1>3. runs[imp[p].run] \in RunRow
    BY <1>1
  <1>4. [runs[imp[p].run] EXCEPT !.status = "failed"] \in RunRow
        /\ [runs[imp[p].run] EXCEPT !.status = "failed"].status = "failed"
    BY <1>3 DEF RunRow
  <1>5. runs' \in [Run -> RunRow]
    BY <1>1, <1>2, <1>4
  <1>6. \A r \in Run : \/ runs'[r] = runs[r]
                       \/ r = imp[p].run /\ runs'[r].status = "failed"
    BY <1>1, <1>2, <1>4
  <1> QED
    BY <1>1, <1>2, <1>5, <1>6, BlankImport, StopStep

LEMMA StartRunInv ==
  ASSUME IInv, NEW p \in Importer, StartRun(p)
  PROVE  IInv'
  <1> DEFINE started == [NoImport EXCEPT !.phase = "fetch", !.run = begun + 1]
  <1>1. begun \in 0..MaxRuns /\ begun + 1 \in Run /\ begun < MaxRuns
    BY NightlyImportAssumption, Typed DEF IInv, StartRun, Run
  <1>2. /\ started \in Import /\ started.phase = "fetch" /\ started.run = begun + 1
        /\ started.name = None /\ \A n \in Name : started.cache[n] = None
        /\ \A t \in Team : started.made[t] = None
    BY <1>1, BlankImport DEF Import
  <1>3. imp' = [imp EXCEPT ![p] = started] /\ begun' = begun + 1
        /\ UNCHANGED <<teams, facts, runs, staged, adm>>
    BY DEF StartRun
  <1> HIDE DEF started
  <1>4. imp'[p] = started /\ imp' = [imp EXCEPT ![p] = imp'[p]]
    BY <1>3 DEF IInv, TypeOK
  <1>5. \A q \in Importer : ~Holder(q)
    BY DEF StartRun, LockHeld, Holder
  <1>6. runs[begun + 1].status = "none"
    BY <1>1, Typed DEF IInv, Concluded, RunRow
  <1>7. Underway(p)'
    BY <1>1, <1>2, <1>3, <1>4, <1>6 DEF Underway, Holder
  <1>8. Resolved(p)'
    BY <1>2, <1>4 DEF Resolved
  <1>9. \A t \in Team : Reserved(p, t)'
    BY <1>2, <1>4 DEF Reserved
  <1>10. ASSUME NEW q \in Importer \ {p} PROVE OneNightAtATime(p, q)'
    <2>1. imp'[q] = imp[q] /\ Underway(q)
      BY <1>3 DEF IInv, TypeOK
    <2>2. imp[q].phase # "idle" => imp[q].run <= begun /\ imp[q].run \in Nat
      BY <1>5, <2>1 DEF Underway, Run
    <2>3. imp[q].phase # "idle" => imp[q].run # begun + 1
      BY <1>1, <2>2
    <2> QED
      BY <1>2, <1>4, <1>5, <2>1, <2>3 DEF OneNightAtATime, Holder
  <1>11. begun' \in 0..MaxRuns /\ begun <= begun'
    BY <1>1, <1>3, NightlyImportAssumption
  <1>12. runs' \in [Run -> RunRow] /\ \A r \in Run : runs'[r] = runs[r]
    BY <1>3 DEF IInv, TypeOK
  <1> QED
    BY <1>12, <1>2, <1>3, <1>4, <1>5, <1>7, <1>8, <1>9, <1>10, <1>11, ImportStep

\* A statement of the lock's holder that neither commits nor lets go.
LEMMA HolderStep ==
  ASSUME IInv, NEW p \in Importer,
         imp'[p] \in Import, imp' = [imp EXCEPT ![p] = imp'[p]],
         UNCHANGED <<teams, facts, runs, staged, begun, adm>>,
         Holder(p), imp'[p].phase \in {"fetch", "resolve"}, imp'[p].run = imp[p].run,
         Resolved(p)', \A t \in Team : Reserved(p, t)'
  PROVE  IInv'
  <1>1. begun \in 0..MaxRuns /\ begun <= begun
    BY NightlyImportAssumption, Typed DEF IInv
  <1>2. Underway(p)'
    BY DEF IInv, Underway, Holder
  <1>3. ASSUME NEW q \in Importer \ {p} PROVE OneNightAtATime(p, q)'
    <2>1. imp'[q] = imp[q] /\ OneNightAtATime(p, q)
      BY DEF IInv, TypeOK
    <2> QED
      BY <2>1 DEF OneNightAtATime, Holder
  <1>4. runs' \in [Run -> RunRow] /\ runs' = runs
    BY DEF IInv, TypeOK
  <1> QED
    BY <1>1, <1>2, <1>3, <1>4, ImportStep

LEMMA StageAndValidateInv ==
  ASSUME IInv, NEW p \in Importer, NEW b \in Batch, StageAndValidate(p, b)
  PROVE  IInv'
  <1>1. imp[p].phase = "fetch" /\ imp[p] \in Import
    BY Typed DEF IInv, StageAndValidate
  <1>2. imp'[p] = [imp[p] EXCEPT !.phase = "resolve", !.batch = b]
    BY DEF StageAndValidate, IInv, TypeOK
  <1>3. /\ imp'[p].phase = "resolve" /\ imp'[p].batch = b
        /\ imp'[p].run = imp[p].run /\ imp'[p].cache = imp[p].cache
        /\ imp'[p].made = imp[p].made /\ imp'[p].name = imp[p].name
    BY <1>1, <1>2 DEF Import
  <1>7. imp'[p] \in Import
    BY <1>1, <1>2 DEF Import
  <1>8. imp' = [imp EXCEPT ![p] = imp'[p]]
        /\ UNCHANGED <<teams, facts, runs, staged, begun, adm>>
    BY DEF StageAndValidate, IInv, TypeOK
  <1>4. Resolved(p)'
    <2>1. Resolved(p)
      BY DEF IInv
    <2>2. imp[p].name = None /\ \A t \in Team : imp[p].made[t] = None
      BY <1>1, <2>1 DEF Resolved
    <2>3. \A n \in Name : imp[p].cache[n] # None =>
            imp[p].made[imp[p].cache[n]] = n \/ Known(imp[p].cache[n], n)
      BY <2>1 DEF Resolved
    <2>4. \A n \in Name : imp'[p].cache[n] # None =>
            imp'[p].made[imp'[p].cache[n]] = n \/ Known(imp[p].cache[n], n)'
      BY <1>3, <1>8, <2>3 DEF Known
    <2>5. ~Unreadable(b)
      BY DEF StageAndValidate
    <2> QED
      BY <1>3, <2>2, <2>4, <2>5 DEF Resolved, Known
  <1>5. \A t \in Team : Reserved(p, t)'
    BY <1>1, <1>3, <1>8 DEF IInv, Resolved, Reserved
  <1>6. Holder(p)
    BY <1>1 DEF Holder
  <1> QED
    BY <1>1, <1>3, <1>4, <1>5, <1>6, <1>7, <1>8, HolderStep

LEMMA InsertTeamInv ==
  ASSUME IInv, NEW p \in Importer, NEW n \in Name, NEW t \in Team,
         ActiveWith(n) = {} => Unused(t), InsertTeam(p, n, t)
  PROVE  IInv'
  <1> DEFINE new == IF ActiveWith(n) = {} THEN n ELSE imp[p].made[t]
             made == [imp[p].made EXCEPT ![t] = new]
  <1>1. /\ imp[p].phase = "resolve" /\ imp[p] \in Import /\ imp[p].name = None
        /\ imp[p].cache[n] = None
        /\ UNCHANGED <<teams, facts, runs, staged, begun, adm>>
    BY Typed DEF IInv, InsertTeam, Unresolved
  <1>2. imp' = [imp EXCEPT ![p].name = n, ![p].made[t] = new]
    BY DEF InsertTeam
  <1>3. /\ imp[p].made \in [Team -> Name \cup {None}] /\ new \in Name \cup {None}
        /\ imp[p].cache \in [Name -> Team \cup {None}]
    BY <1>1, ImportFields
  <1>4. /\ made \in [Team -> Name \cup {None}] /\ made[t] = new
        /\ \A u \in Team \ {t} : made[u] = imp[p].made[u]
    BY <1>3
  <1>5. imp'[p] = [imp[p] EXCEPT !.name = n, !.made = made]
    BY <1>1, <1>2 DEF IInv, TypeOK
  <1>6. new = imp[p].made[t] \/ (new = n /\ ActiveWith(n) = {} /\ Unused(t))
    OBVIOUS
  <1>7. imp' = [imp EXCEPT ![p] = imp'[p]]
    BY <1>2 DEF IInv, TypeOK
  <1> HIDE DEF new, made
  <1>8. /\ imp'[p] \in Import
        /\ imp'[p].phase = "resolve" /\ imp'[p].batch = imp[p].batch
        /\ imp'[p].run = imp[p].run /\ imp'[p].cache = imp[p].cache
        /\ imp'[p].made = made /\ imp'[p].name = n
    BY <1>1, <1>4, <1>5 DEF Import
  <1>9. Resolved(p) /\ \A u \in Team : Reserved(p, u)
    BY DEF IInv
  <1>10. \A u \in Team : imp[p].made[u] # n
    BY <1>1, <1>9, NightlyImportAssumption DEF Reserved
  <1>11. new # imp[p].made[t] => imp[p].made[t] = None
    BY <1>6 DEF Unused
  <1>12. Resolved(p)'
    <2>1. \A m \in Name : imp[p].cache[m] # None =>
            made[imp[p].cache[m]] = m \/ Known(imp[p].cache[m], m)
      <3> SUFFICES ASSUME NEW m \in Name, imp[p].cache[m] # None
                   PROVE  made[imp[p].cache[m]] = m \/ Known(imp[p].cache[m], m)
        OBVIOUS
      <3>1. imp[p].cache[m] \in Team
        BY <1>3
      <3>2. imp[p].made[imp[p].cache[m]] = m \/ Known(imp[p].cache[m], m)
        BY <1>9 DEF Resolved
      <3> QED
        BY <1>4, <1>11, <3>1, <3>2, NightlyImportAssumption
    <2>2. \A u, v \in Team : made[u] = made[v] /\ made[u] # None => u = v
      BY <1>4, <1>6, <1>9, <1>10 DEF Resolved
    <2> QED
      BY <1>1, <1>8, <1>9, <2>1, <2>2 DEF Resolved, Known
  <1>13. ASSUME NEW u \in Team PROVE Reserved(p, u)'
    <2>1. CASE made[u] = imp[p].made[u]
      <3>1. Reserved(p, u) /\ (imp[p].made[u] # None => imp[p].cache[imp[p].made[u]] # None)
        BY <1>1, <1>9, NightlyImportAssumption, <1>3 DEF Reserved
      <3> QED
        BY <1>1, <1>8, <2>1, <3>1 DEF Reserved, ActiveWith
    <2>2. CASE u = t /\ made[u] = n /\ ActiveWith(n) = {} /\ Unused(t)
      <3>1. \A h \in Handler : ~EditHolds(h, n)
        BY DEF InsertTeam
      <3> QED
        BY <1>1, <1>8, <2>2, <3>1 DEF Reserved, ActiveWith, EditHolds, Unused
    <2> QED
      BY <1>4, <1>6, <2>1, <2>2
  <1>14. Holder(p)
    BY <1>1 DEF Holder
  <1> QED
    BY <1>1, <1>7, <1>8, <1>12, <1>13, <1>14, HolderStep

LEMMA SelectTeamInv ==
  ASSUME IInv, NEW p \in Importer, NEW t \in Team, SelectTeam(p, t)
  PROVE  IInv'
  <1> DEFINE n == imp[p].name
             cache == [imp[p].cache EXCEPT ![n] = t]
  <1>1. /\ imp[p] \in Import /\ n \in Name
        /\ t \in ActiveWith(n) \/ imp[p].made[t] = n
        /\ UNCHANGED <<teams, facts, runs, staged, begun, adm>>
    BY Typed, ImportFields DEF IInv, SelectTeam
  <1>2. imp' = [imp EXCEPT ![p].name = None, ![p].cache[n] = t]
    BY DEF SelectTeam
  <1>3. imp[p].cache \in [Name -> Team \cup {None}]
    BY <1>1, ImportFields
  <1>4. /\ cache \in [Name -> Team \cup {None}] /\ cache[n] = t
        /\ \A m \in Name \ {n} : cache[m] = imp[p].cache[m]
    BY <1>1, <1>3
  <1>5. imp'[p] = [imp[p] EXCEPT !.name = None, !.cache = cache]
        /\ imp' = [imp EXCEPT ![p] = imp'[p]]
    BY <1>1, <1>2 DEF IInv, TypeOK
  <1> HIDE DEF cache
  <1>6. /\ imp'[p] \in Import
        /\ imp'[p].phase = imp[p].phase /\ imp'[p].batch = imp[p].batch
        /\ imp'[p].run = imp[p].run /\ imp'[p].made = imp[p].made
        /\ imp'[p].cache = cache /\ imp'[p].name = None
    BY <1>1, <1>4, <1>5 DEF Import
  <1>7. Resolved(p) /\ \A u \in Team : Reserved(p, u)
    BY DEF IInv
  <1>8. imp[p].made[t] = n \/ Known(t, n)
    BY <1>1, BlankRow DEF ActiveWith, Known
  <1>9. t # None /\ n # None
    BY <1>1, NightlyImportAssumption
  <1>10. Resolved(p)'
    <2>1. \A m \in Name : cache[m] # None =>
            imp[p].made[cache[m]] = m \/ Known(cache[m], m)
      BY <1>4, <1>7, <1>8 DEF Resolved
    <2> HIDE DEF n
    <2> QED
      BY <1>1, <1>6, <1>7, <2>1 DEF Resolved, Known
  <1>11. ASSUME NEW u \in Team PROVE Reserved(p, u)'
    <2>1. Reserved(p, u) /\ imp[p].made[u] \in Name \cup {None}
      BY <1>1, <1>7, ImportFields
    <2>2. imp[p].made[u] # None => cache[imp[p].made[u]] # None
      BY <1>4, <1>9, <2>1 DEF Reserved
    <2> QED
      BY <1>1, <1>6, <2>1, <2>2 DEF Reserved, ActiveWith
  <1>12. Holder(p)
    BY <1>7, <1>9 DEF Resolved, Holder
  <1> QED
    BY <1>1, <1>5, <1>6, <1>10, <1>11, <1>12, HolderStep DEF Holder

-----------------------------------------------------------------------------
(* Steps of one edit that commit nothing *)

LEMMA EditStep ==
  ASSUME IInv, NEW h \in Handler,
         adm'[h] \in Edit, adm' = [adm EXCEPT ![h] = adm'[h]],
         UNCHANGED <<teams, facts, runs, staged, begun, imp>>,
         Flow(h)', Read(h)', Pending(h)',
         \A k \in Handler \ {h} : Apart(h, k)' /\ Apart(k, h)',
         \A p \in Importer, t \in Team : imp[p].made[t] # None =>
           /\ adm'[h].team # t
           /\ ~(adm'[h].phase = "commit" /\ adm'[h].row.status = "active"
                                         /\ adm'[h].row.name = imp[p].made[t])
  PROVE  IInv'
  <1>1. \A k \in Handler \ {h} : adm'[k] = adm[k]
    BY DEF IInv, TypeOK
  <1>2. TypeOK'
    BY DEF IInv, TypeOK, facts
  <1>3. ASSUME NEW p \in Importer
        PROVE  (Underway(p) /\ Resolved(p) /\ \A t \in Team : Reserved(p, t))'
    <2>1. Underway(p)' /\ Resolved(p)'
      BY DEF IInv, Underway, Holder, Resolved, Known
    <2>2. ASSUME NEW t \in Team PROVE Reserved(p, t)'
      <3>1. Reserved(p, t)
        BY DEF IInv
      <3> QED
        BY <1>1, <3>1 DEF Reserved, ActiveWith
    <2> QED
      BY <2>1, <2>2
  <1>4. \A p, q \in Importer : p # q => OneNightAtATime(p, q)'
    BY DEF IInv, OneNightAtATime, Holder
  <1>5. Concluded'
    BY DEF IInv, Concluded
  <1>6. ASSUME NEW k \in Handler PROVE (Flow(k) /\ Read(k) /\ Pending(k))'
    <2>1. CASE k = h
      BY <2>1
    <2>2. CASE k # h
      <3>1. adm'[k] = adm[k] /\ Flow(k) /\ Read(k) /\ Pending(k)
        BY <1>1, <2>2 DEF IInv
      <3>2. Succeeded' = Succeeded /\ doctors' = doctors
        BY DEF Succeeded, facts
      <3> QED
        BY <3>1, <3>2 DEF Flow, Read, Pending, Written, ActiveWith
    <2> QED
      BY <2>1, <2>2
  <1>7. ASSUME NEW k \in Handler, NEW l \in Handler, k # l PROVE Apart(k, l)'
    <2>1. CASE k = h \/ l = h
      BY <1>7, <2>1
    <2>2. CASE k # h /\ l # h
      <3>1. adm'[k] = adm[k] /\ adm'[l] = adm[l] /\ Apart(k, l)
        BY <1>1, <1>7, <2>2 DEF IInv
      <3> QED
        BY <3>1 DEF Apart
    <2> QED
      BY <2>1, <2>2
  <1>8. FactsKnown' /\ NamesUnique'
    BY DEF IInv, FactsKnown, Known, NamesUnique, Succeeded, facts
  <1>9. \A r \in Run : Shown(r)'
    <2>1. UNCHANGED <<sales, brands, doctors, staged, teams, runs>> /\ Succeeded' = Succeeded
      BY DEF facts, Succeeded
    <2> QED
      BY <2>1, ShownKept DEF IInv
  <1> QED
    BY <1>2, <1>3, <1>4, <1>5, <1>6, <1>7, <1>8, <1>9 DEF IInv

LEMMA EndInv ==
  ASSUME IInv, NEW h \in Handler, End(h)
  PROVE  IInv'
  <1>1. adm' = [adm EXCEPT ![h] = NoEdit]
        /\ UNCHANGED <<teams, facts, runs, staged, begun, imp>>
    BY DEF End
  <1>2. adm'[h] = NoEdit
    BY <1>1 DEF IInv, TypeOK
  <1>3. adm'[h] \in Edit /\ adm' = [adm EXCEPT ![h] = adm'[h]]
    BY <1>1, <1>2, BlankEdit
  <1>4. Flow(h)' /\ Read(h)' /\ Pending(h)'
    BY <1>2, BlankEdit DEF Flow, Read, Pending
  <1>5. ASSUME NEW k \in Handler \ {h} PROVE Apart(h, k)' /\ Apart(k, h)'
    <2>1. adm'[k] = adm[k] /\ Flow(k)
      BY <1>1 DEF IInv, TypeOK
    <2> QED
      BY <1>2, <2>1, BlankEdit, NightlyImportAssumption DEF Apart, Flow
  <1>6. \A t \in Team : adm'[h].team # t /\ adm'[h].phase # "commit"
    BY <1>2, BlankEdit, NightlyImportAssumption
  <1> QED
    BY <1>1, <1>3, <1>4, <1>5, <1>6, EditStep

\* An edit as it begins: nothing written, nothing read but the row itself.
LEMMA BeginInv ==
  ASSUME IInv, NEW h \in Handler, NEW t \in Team, NEW edit \in Edit, Begin(h, edit),
         edit.team = t,
         \/ edit.op = "create" /\ edit.phase = "name" /\ edit.name \in Name /\ Unused(t)
         \/ /\ edit.op = "rename" /\ edit.phase = "name" /\ edit.name \in Name
            /\ edit.target = teams[t] /\ teams[t].status # "absent"
         \/ edit.op = "remove" /\ edit.phase = "write" /\ teams[t].status # "absent"
  PROVE  IInv'
  <1>1. adm' = [adm EXCEPT ![h] = edit]
        /\ UNCHANGED <<teams, facts, runs, staged, begun, imp>>
    BY DEF Begin
  <1>2. adm'[h] = edit
    BY <1>1 DEF IInv, TypeOK
  <1>3. adm'[h] \in Edit /\ adm' = [adm EXCEPT ![h] = adm'[h]]
    BY <1>1, <1>2
  <1>4. teams[t] \in TeamRow
    BY Typed DEF IInv
  <1>5. teams[t].version \in Nat /\ (teams[t] = NoTeam <=> teams[t].status = "absent")
    BY <1>4, Rows
  <1>6. Flow(h)'
    BY <1>1, <1>2, <1>5 DEF Flow, Unused
  <1>7. Read(h)' /\ Pending(h)'
    BY <1>1, <1>2, <1>5 DEF Read, Pending
  <1>8. ASSUME NEW k \in Handler \ {h} PROVE Apart(h, k)' /\ Apart(k, h)'
    <2>1. adm'[k] = adm[k] /\ Flow(k)
      BY <1>1 DEF IInv, TypeOK
    <2>2. adm[k].op = "create" => adm[k].team # t
      BY <1>5, <2>1 DEF Flow, Unused
    <2>3. edit.op = "create" => adm[k].team # t
      BY DEF Unused
    <2> QED
      BY <1>2, <2>1, <2>2, <2>3 DEF Apart
  <1>9. ASSUME NEW p \in Importer, NEW u \in Team, imp[p].made[u] # None
        PROVE  adm'[h].team # u /\ adm'[h].phase # "commit"
    <2>1. teams[u] = NoTeam
      BY <1>9 DEF IInv, Reserved
    <2> QED
      BY <1>2, <1>5, <1>9, <2>1 DEF Unused
  <1> QED
    BY <1>1, <1>3, <1>6, <1>7, <1>8, <1>9, EditStep

LEMMA BeginsInv ==
  ASSUME IInv, NEW h \in Handler, NEW t \in Team, NEW n \in Name,
         CreateTeam(h, t, n) \/ RenameTeam(h, t, n)
  PROVE  IInv'
  <1>1. teams[t] \in TeamRow
    BY Typed DEF IInv
  <1>2. CASE CreateTeam(h, t, n)
    <2> DEFINE e == [NoEdit EXCEPT !.op = "create", !.phase = "name", !.team = t, !.name = n]
    <2>1. e \in Edit /\ e.op = "create" /\ e.phase = "name" /\ e.team = t /\ e.name = n
      BY BlankEdit DEF Edit
    <2>2. Begin(h, e) /\ Unused(t)
      BY <1>2 DEF CreateTeam
    <2> HIDE DEF e
    <2> QED
      BY <2>1, <2>2, BeginInv
  <1>3. CASE RenameTeam(h, t, n)
    <2> DEFINE e == [NoEdit EXCEPT !.op = "rename", !.phase = "name", !.team = t,
                                   !.name = n, !.target = teams[t]]
    <2>1. /\ e \in Edit /\ e.op = "rename" /\ e.phase = "name" /\ e.team = t
          /\ e.name = n /\ e.target = teams[t]
      BY <1>1, BlankEdit DEF Edit
    <2>2. Begin(h, e) /\ teams[t].status # "absent"
      BY <1>3 DEF RenameTeam
    <2> HIDE DEF e
    <2> QED
      BY <2>1, <2>2, BeginInv
  <1> QED
    BY <1>2, <1>3

LEMMA RemoveTeamInv ==
  ASSUME IInv, NEW h \in Handler, NEW t \in Team, RemoveTeam(h, t)
  PROVE  IInv'
  <1> DEFINE e == [NoEdit EXCEPT !.op = "remove", !.phase = "write", !.team = t,
                                 !.target = teams[t]]
  <1>1. teams[t] \in TeamRow
    BY Typed DEF IInv
  <1>2. e \in Edit /\ e.op = "remove" /\ e.phase = "write" /\ e.team = t
    BY <1>1, BlankEdit DEF Edit
  <1>3. Begin(h, e) /\ teams[t].status # "absent"
    BY DEF RemoveTeam
  <1> HIDE DEF e
  <1> QED
    BY <1>2, <1>3, BeginInv

LEMMA CheckNameInv ==
  ASSUME IInv, NEW h \in Handler, CheckName(h)
  PROVE  IInv'
  <1>1. CASE End(h)
    BY <1>1, EndInv
  <1>2. CASE ~End(h)
    <2> DEFINE ph == IF adm[h].op = "rename" /\ adm[h].name # adm[h].target.name
                     THEN "doctors" ELSE "write"
    <2>1. adm' = [adm EXCEPT ![h].phase = ph]
          /\ UNCHANGED <<teams, facts, runs, staged, begun, imp>>
      BY <1>2 DEF CheckName
    <2>2. adm[h] \in Edit /\ adm[h].phase = "name"
      BY Typed DEF IInv, CheckName
    <2>3. adm'[h] = [adm[h] EXCEPT !.phase = ph]
      BY <2>1 DEF IInv, TypeOK
    <2>4. ph \in {"doctors", "write"}
          /\ (ph = "write" /\ adm[h].op = "rename" => adm[h].name = adm[h].target.name)
          /\ (ph = "doctors" => adm[h].op = "rename")
      OBVIOUS
    <2>5. adm' = [adm EXCEPT ![h] = adm'[h]]
      BY <2>1 DEF IInv, TypeOK
    <2> HIDE DEF ph
    <2>6. /\ adm'[h].phase = ph /\ adm'[h].op = adm[h].op /\ adm'[h].team = adm[h].team
          /\ adm'[h].name = adm[h].name /\ adm'[h].target = adm[h].target
      BY <2>2, <2>3 DEF Edit
    <2>7. adm'[h] \in Edit
      BY <2>2, <2>3, <2>4 DEF Edit
    <2>8. Flow(h) /\ Read(h)
      BY DEF IInv
    <2>9. Flow(h)'
      BY <2>1, <2>2, <2>4, <2>6, <2>8 DEF Flow
    <2>10. Read(h)' /\ Pending(h)'
      BY <2>1, <2>4, <2>6, <2>8 DEF Read, Pending
    <2>11. ASSUME NEW k \in Handler \ {h} PROVE Apart(h, k)' /\ Apart(k, h)'
      <3>1. adm'[k] = adm[k] /\ Apart(h, k) /\ Apart(k, h)
        BY <2>1 DEF IInv, TypeOK
      <3> QED
        BY <2>4, <2>6, <3>1 DEF Apart
    <2>12. \A p \in Importer, t \in Team : imp[p].made[t] # None =>
             adm'[h].team # t /\ adm'[h].phase # "commit"
      BY <2>4, <2>6 DEF IInv, Reserved
    <2> QED
      BY <2>1, <2>5, <2>7, <2>9, <2>10, <2>11, <2>12, EditStep
  <1> QED
    BY <1>1, <1>2

LEMMA LastSuccessIs ==
  ASSUME IInv
  PROVE  LastSuccess \in Succeeded \cup {0} /\ LastSuccess \in Run \cup {0}
  <1>1. Succeeded \subseteq 1..MaxRuns /\ MaxRuns \in Nat
    BY NightlyImportAssumption DEF Succeeded, Run
  <1> QED
    BY <1>1, LastIs DEF LastSuccess, Run

LEMMA CheckDoctorsInv ==
  ASSUME IInv, NEW h \in Handler, CheckDoctors(h)
  PROVE  IInv'
  <1>1. CASE End(h)
    BY <1>1, EndInv
  <1>2. CASE ~End(h)
    <2> DEFINE last == LastSuccess
    <2>1. adm' = [adm EXCEPT ![h].phase = "write", ![h].asOf = last]
          /\ \A d \in Doctor : doctors[d].territory # adm[h].target.name
      BY <1>2 DEF CheckDoctors
    <2>2. adm[h] \in Edit /\ adm[h].phase = "doctors"
      BY Typed DEF IInv, CheckDoctors
    <2>3. adm'[h] = [adm[h] EXCEPT !.phase = "write", !.asOf = last]
      BY <2>1 DEF IInv, TypeOK
    <2>4. last \in Succeeded \cup {0} /\ last \in Run \cup {0}
      BY LastSuccessIs
    <2>5. adm' = [adm EXCEPT ![h] = adm'[h]]
      BY <2>1 DEF IInv, TypeOK
    <2> HIDE DEF last
    <2>6. /\ adm'[h].phase = "write" /\ adm'[h].op = adm[h].op /\ adm'[h].team = adm[h].team
          /\ adm'[h].name = adm[h].name /\ adm'[h].target = adm[h].target
          /\ adm'[h].asOf = last
      BY <2>2, <2>3 DEF Edit
    <2>7. adm'[h] \in Edit
      BY <2>2, <2>3, <2>4 DEF Edit
    <2>8. Flow(h) /\ Read(h)
      BY DEF IInv
    <2>13. UNCHANGED <<teams, facts, runs, staged, begun, imp>>
      BY <1>2 DEF CheckDoctors
    <2>14. doctors' = doctors /\ Succeeded' = Succeeded /\ teams' = teams
      BY <2>13 DEF facts, Succeeded
    <2>9. Flow(h)'
      BY <2>14, <2>2, <2>6, <2>8 DEF Flow
    <2>10. Read(h)' /\ Pending(h)'
      BY <2>14, <2>1, <2>4, <2>6, <2>8 DEF Read, Pending
    <2>11. ASSUME NEW k \in Handler \ {h} PROVE Apart(h, k)' /\ Apart(k, h)'
      <3>1. adm'[k] = adm[k] /\ Apart(h, k) /\ Apart(k, h)
        BY <2>1 DEF IInv, TypeOK
      <3> QED
        BY <2>6, <3>1 DEF Apart
    <2>12. \A p \in Importer, t \in Team : imp[p].made[t] # None =>
             adm'[h].team # t /\ adm'[h].phase # "commit"
      BY <2>6 DEF IInv, Reserved
    <2> QED
      BY <2>13, <2>5, <2>7, <2>9, <2>10, <2>11, <2>12, EditStep
  <1> QED
    BY <1>1, <1>2

-----------------------------------------------------------------------------
(* Writing and committing an edit *)

\* What each operation writes over a row.
LEMMA WrittenIs ==
  ASSUME NEW row \in TeamRow, NEW n
  PROVE  /\ Written(row, "create", n) = [status |-> "active", name |-> n, version |-> 1]
         /\ Written(row, "rename", n) = [row EXCEPT !.name = n, !.version = row.version + 1]
         /\ Written(row, "remove", n)
              = [row EXCEPT !.status = "inactive", !.version = row.version + 1]
  BY DEF Written

LEMMA CreatedIs ==
  ASSUME NEW row \in TeamRow, NEW n \in Name, NEW new, new = Written(row, "create", n)
  PROVE  /\ new.status = "active" /\ new.name = n /\ new.version = 1
         /\ new \in [status: {"absent", "active", "inactive"}, name: Name \cup {None},
                     version: Nat]
  <1>1. new = [status |-> "active", name |-> n, version |-> 1]
    BY WrittenIs
  <1> QED
    BY <1>1

LEMMA RenamedIs ==
  ASSUME NEW row \in TeamRow, NEW n \in Name, NEW new, new = Written(row, "rename", n)
  PROVE  /\ new.status = row.status /\ new.name = n /\ new.version = row.version + 1
         /\ new \in [status: {"absent", "active", "inactive"}, name: Name \cup {None},
                     version: Nat]
  <1>1. new = [row EXCEPT !.name = n, !.version = row.version + 1]
    BY WrittenIs
  <1>2. row \in [status: {"absent", "active", "inactive"}, name: Name \cup {None},
                 version: Nat]
    BY DEF TeamRow, NoTeam
  <1>3. n \in Name \cup {None} /\ row.version + 1 \in Nat
    BY Rows
  <1>4. new \in [status: {"absent", "active", "inactive"}, name: Name \cup {None},
                version: Nat]
    BY <1>1, <1>2, <1>3
  <1> QED
    BY <1>1, <1>2, <1>4

LEMMA RemovedIs ==
  ASSUME NEW row \in TeamRow, NEW n, NEW new, new = Written(row, "remove", n)
  PROVE  /\ new.status = "inactive" /\ new.name = row.name
         /\ new.version = row.version + 1
         /\ new \in [status: {"absent", "active", "inactive"}, name: Name \cup {None},
                     version: Nat]
  <1>1. new = [row EXCEPT !.status = "inactive", !.version = row.version + 1]
    BY WrittenIs
  <1>2. row \in [status: {"absent", "active", "inactive"}, name: Name \cup {None},
                 version: Nat]
    BY DEF TeamRow, NoTeam
  <1>3. row.version + 1 \in Nat
    BY Rows
  <1>4. new \in [status: {"absent", "active", "inactive"}, name: Name \cup {None},
                version: Nat]
    BY <1>1, <1>2, <1>3
  <1> QED
    BY <1>1, <1>2, <1>4

\* ... of an edit under way: a present row, newer than the one it replaces.
LEMMA WritesARow ==
  ASSUME IInv, NEW h \in Handler, adm[h].op # "none",
         NEW row, row = Written(teams[adm[h].team], adm[h].op, adm[h].name)
  PROVE  /\ adm[h].team \in Team
         /\ row.status \in {"active", "inactive"} /\ row.name \in Name
         /\ row.version \in Nat /\ row.version > teams[adm[h].team].version
         /\ row.version <= MaxVersion => row \in TeamRow
         /\ row # NoTeam
         /\ adm[h].op # "create" => row.version > 1
         /\ adm[h].op = "rename" => row.name = adm[h].name
         /\ adm[h].op = "remove" => row.name = teams[adm[h].team].name
  <1> DEFINE old == teams[adm[h].team]
  <1>1. Flow(h) /\ adm[h] \in Edit /\ adm[h].team \in Team /\ old \in TeamRow
    BY Typed DEF IInv, Flow
  <1>2. adm[h].op \in {"create", "rename", "remove"}
    BY <1>1, EditFields
  <1>3. /\ old.version \in Nat /\ old.status \in {"absent", "active", "inactive"}
        /\ (old = NoTeam <=> old.status = "absent") /\ (old = NoTeam <=> old.version = 0)
        /\ (old # NoTeam => old.name \in Name)
    BY <1>1, Rows
  <1>4. /\ adm[h].op = "create" => old = NoTeam /\ adm[h].name \in Name
        /\ adm[h].op = "rename" => old # NoTeam /\ adm[h].name \in Name
        /\ adm[h].op = "remove" => old # NoTeam
    BY <1>1 DEF Flow
  <1> DEFINE n == adm[h].name
  <1>5. row = Written(old, adm[h].op, n)
    OBVIOUS
  <1> HIDE DEF old, n
  <1>6. /\ row.status \in {"active", "inactive"} /\ row.name \in Name
        /\ row.version \in Nat /\ row.version > old.version /\ row.version >= 1
        /\ adm[h].op # "create" => row.version > 1
        /\ adm[h].op = "rename" => row.name = n
        /\ adm[h].op = "remove" => row.name = old.name
        /\ row \in [status: {"absent", "active", "inactive"}, name: Name \cup {None},
                    version: Nat]
    <2>1. CASE adm[h].op = "create"
      BY <1>1, <1>3, <1>4, <1>5, <2>1, CreatedIs DEF n
    <2>2. CASE adm[h].op = "rename"
      BY <1>1, <1>3, <1>4, <1>5, <2>2, RenamedIs DEF n
    <2>3. CASE adm[h].op = "remove"
      BY <1>1, <1>3, <1>4, <1>5, <2>3, RemovedIs
    <2> QED
      BY <1>2, <2>1, <2>2, <2>3
  <1>7. row # NoTeam
    BY <1>6, BlankRow
  <1>8. row.version <= MaxVersion => row \in TeamRow
    BY <1>6, NightlyImportAssumption DEF TeamRow
  <1> QED
    BY <1>1, <1>6, <1>7, <1>8 DEF old, n

LEMMA WriteTeamInv ==
  ASSUME IInv, NEW h \in Handler, WriteTeam(h)
  PROVE  IInv'
  <1>1. CASE End(h)
    BY <1>1, EndInv
  <1>2. CASE ~End(h)
    <2> DEFINE row == Written(teams[adm[h].team], adm[h].op, adm[h].name)
    <2>1. /\ adm' = [adm EXCEPT ![h].phase = "commit", ![h].row = row]
          /\ UNCHANGED <<teams, facts, runs, staged, begun, imp>>
      BY <1>2 DEF WriteTeam
    <2>2. /\ adm[h] \in Edit /\ adm[h].phase = "write" /\ RowIsFree(h)
          /\ row.version <= MaxVersion
      BY <1>2, Typed DEF IInv, WriteTeam
    <2>3. adm[h].op = "rename" => teams[adm[h].team].version = adm[h].target.version
      BY <1>2 DEF WriteTeam
    <2>4. row.status = "active" =>
            /\ ActiveWith(row.name) \subseteq {adm[h].team}
            /\ \A k \in Handler \ {h} : ~EditHolds(k, row.name)
            /\ \A p \in Importer : ~ImportHolds(p, row.name)
      BY <1>2 DEF WriteTeam
    <2>5. Flow(h) /\ Read(h) /\ adm[h].op # "none"
      BY <2>2 DEF IInv, Flow
    <2>6. adm'[h] = [adm[h] EXCEPT !.phase = "commit", !.row = row]
      BY <2>1 DEF IInv, TypeOK
    <2>7. adm' = [adm EXCEPT ![h] = adm'[h]]
      BY <2>1 DEF IInv, TypeOK
    <2>8. row = Written(teams[adm[h].team], adm[h].op, adm[h].name)
      OBVIOUS
    <2> HIDE DEF row
    <2>9. adm[h].team \in Team /\ row \in TeamRow
      BY <2>2, <2>5, <2>8, WritesARow
    <2>10. /\ adm'[h].phase = "commit" /\ adm'[h].op = adm[h].op
           /\ adm'[h].team = adm[h].team /\ adm'[h].name = adm[h].name
           /\ adm'[h].target = adm[h].target /\ adm'[h].asOf = adm[h].asOf
           /\ adm'[h].row = row
      BY <2>2, <2>6 DEF Edit
    <2>11. adm'[h] \in Edit
      BY <2>2, <2>6, <2>9 DEF Edit
    <2>12. doctors' = doctors /\ Succeeded' = Succeeded /\ teams' = teams
      BY <2>1 DEF facts, Succeeded
    <2>13. Flow(h)'
      BY <2>2, <2>5, <2>10, <2>12 DEF Flow
    <2>14. Read(h)'
      BY <2>2, <2>5, <2>10, <2>12 DEF Read
    <2>15. Pending(h)'
      BY <2>3, <2>4, <2>5, <2>8, <2>10, <2>12 DEF Pending, Read, Written, ActiveWith
    <2>16. ASSUME NEW k \in Handler \ {h} PROVE Apart(h, k)' /\ Apart(k, h)'
      <3>1. adm'[k] = adm[k] /\ Apart(h, k) /\ Apart(k, h)
        BY <2>1 DEF IInv, TypeOK
      <3>2. adm[k].phase = "commit" =>
              /\ adm[k].team # adm[h].team
              /\ row.status = "active" /\ adm[k].row.status = "active" =>
                   row.name # adm[k].row.name
        BY <2>2, <2>4 DEF RowIsFree, EditHolds
      <3> QED
        BY <2>10, <3>1, <3>2 DEF Apart
    <2>17. ASSUME NEW p \in Importer, NEW t \in Team, imp[p].made[t] # None
           PROVE  /\ adm'[h].team # t
                  /\ ~(adm'[h].row.status = "active" /\ adm'[h].row.name = imp[p].made[t])
      <3>1. Reserved(p, t)
        BY DEF IInv
      <3> QED
        BY <2>4, <2>10, <2>17, <3>1 DEF Reserved, ImportHolds
    <2> QED
      BY <2>1, <2>7, <2>11, <2>13, <2>14, <2>15, <2>16, <2>17, EditStep
  <1> QED
    BY <1>1, <1>2

LEMMA CommitEditInv ==
  ASSUME IInv, NEW h \in Handler, CommitEdit(h)
  PROVE  IInv'
  <1> DEFINE u == adm[h].team
             row == adm[h].row
  <1>1. /\ adm[h].phase = "commit" /\ teams' = [teams EXCEPT ![u] = row]
        /\ adm' = [adm EXCEPT ![h] = NoEdit]
        /\ UNCHANGED <<facts, runs, staged, begun, imp>>
    BY DEF CommitEdit
  <1>2. adm[h] \in Edit /\ Flow(h) /\ Pending(h) /\ adm[h].op # "none"
    BY <1>1, Typed DEF IInv, Flow
  <1>3. row = Written(teams[u], adm[h].op, adm[h].name)
        /\ (row.status = "active" => ActiveWith(row.name) \subseteq {u})
    BY <1>1, <1>2 DEF Pending
  <1>4. /\ u \in Team /\ row.status \in {"active", "inactive"} /\ row.name \in Name
        /\ row # NoTeam /\ row.version \in Nat /\ row.version > teams[u].version
        /\ adm[h].op # "create" => row.version > 1
    BY <1>2, <1>3, WritesARow
  <1>5. row \in TeamRow /\ teams[u] \in TeamRow /\ teams[u].version \in Nat
    BY <1>2, <1>4, EditFields, Typed, Rows DEF IInv
  <1>6. adm[h].op = "create" => teams[u] = NoTeam
    BY <1>2 DEF Flow
  <1> HIDE DEF u, row
  <1>7. teams'[u] = row /\ \A t \in Team \ {u} : teams'[t] = teams[t]
    BY <1>1, <1>4 DEF IInv, TypeOK
  <1>8. adm'[h] = NoEdit /\ \A k \in Handler \ {h} : adm'[k] = adm[k]
    BY <1>1 DEF IInv, TypeOK
  <1>9. TypeOK'
    BY <1>1, <1>5, BlankEdit DEF IInv, TypeOK, facts
  <1>10. /\ Succeeded' = Succeeded /\ sales' = sales /\ brands' = brands
         /\ doctors' = doctors /\ runs' = runs /\ staged' = staged /\ imp' = imp
         /\ begun' = begun
    BY <1>1 DEF Succeeded, facts
  <1>11. ASSUME NEW t \in Team, NEW n, Known(t, n) PROVE Known(t, n)'
    BY <1>4, <1>6, <1>7, <1>11 DEF Known
  <1>12. \A t \in Team : teams[t] # NoTeam => teams'[t] # NoTeam
    BY <1>4, <1>7
  <1>13. ASSUME NEW p \in Importer
         PROVE  (Underway(p) /\ Resolved(p) /\ \A t \in Team : Reserved(p, t))'
    <2>1. imp[p] \in Import /\ Underway(p) /\ Resolved(p)
      BY Typed DEF IInv
    <2>2. Underway(p)'
      BY <1>10, <2>1 DEF Underway, Holder
    <2>3. \A n \in Name : imp[p].cache[n] # None => imp[p].cache[n] \in Team
      BY <2>1, ImportFields
    <2>4. Resolved(p)'
      <3>1. \A n \in Name : imp[p].cache[n] # None =>
              imp[p].made[imp[p].cache[n]] = n \/ Known(imp[p].cache[n], n)
        BY <2>1 DEF Resolved
      <3>2. \A n \in Name : imp[p].cache[n] # None =>
              imp[p].made[imp[p].cache[n]] = n \/ Known(imp[p].cache[n], n)'
        BY <1>10, <1>11, <2>3, <3>1
      <3> QED
        BY <1>10, <2>1, <3>2 DEF Resolved, Known
    <2>5. ASSUME NEW t \in Team PROVE Reserved(p, t)'
      <3>1. Reserved(p, t)
        BY DEF IInv
      <3>2. SUFFICES ASSUME imp[p].made[t] # None PROVE Reserved(p, t)'
        BY <1>10 DEF Reserved
      <3> DEFINE n == imp[p].made[t]
      <3>3. /\ teams[t] = NoTeam /\ ActiveWith(n) = {} /\ t # u
            /\ ~(row.status = "active" /\ row.name = n)
            /\ imp[p].cache[n] # None \/ imp[p].name = n
        BY <1>1, <3>1, <3>2 DEF Reserved, u, row
      <3>4. {v \in Team : teams'[v].status = "active" /\ teams'[v].name = n} = {}
        BY <1>7, <3>3 DEF ActiveWith
      <3>5. \A k \in Handler :
              /\ adm'[k].team # t
              /\ ~(adm'[k].phase = "commit" /\ adm'[k].row.status = "active"
                                            /\ adm'[k].row.name = n)
        BY <1>8, <3>1, <3>2, BlankEdit, NightlyImportAssumption DEF Reserved
      <3>6. teams'[t] = NoTeam
        BY <1>7, <3>3
      <3> QED
        BY <1>10, <3>3, <3>4, <3>5, <3>6 DEF Reserved, ActiveWith
    <2> QED
      BY <2>2, <2>4, <2>5
  <1>14. \A p, q \in Importer : p # q => OneNightAtATime(p, q)'
    BY <1>10 DEF IInv, OneNightAtATime, Holder
  <1>15. Concluded'
    BY <1>10 DEF IInv, Concluded
  <1>16. ASSUME NEW k \in Handler PROVE (Flow(k) /\ Read(k) /\ Pending(k))'
    <2>1. CASE k = h
      BY <1>8, <2>1, BlankEdit DEF Flow, Read, Pending
    <2>2. CASE k # h
      <3>1. /\ adm'[k] = adm[k] /\ adm[k] \in Edit /\ Flow(k) /\ Read(k) /\ Pending(k)
            /\ Apart(h, k) /\ Apart(k, h)
        BY <1>8, <2>2, Typed DEF IInv
      <3>2. adm[k].op = "create" => adm[k].team # u
        BY <3>1 DEF Apart, u
      <3>3. Flow(k)'
        BY <1>7, <1>12, <3>1, <3>2 DEF Flow
      <3>4. Read(k)'
        <4> SUFFICES ASSUME adm[k].op = "rename" PROVE Read(k)'
          BY <3>1 DEF Read
        <4>1. adm[k].team \in Team /\ adm[k].target.version \in Nat
          BY <3>1, EditFields, Rows DEF Flow
        <4>2. /\ adm[k].target.version <= teams'[adm[k].team].version
              /\ adm[k].target.version = teams'[adm[k].team].version
                   => adm[k].target = teams'[adm[k].team]
          <5>1. /\ adm[k].target.version <= teams[adm[k].team].version
                /\ adm[k].target.version = teams[adm[k].team].version
                     => adm[k].target = teams[adm[k].team]
            BY <3>1 DEF Read
          <5>2. CASE adm[k].team = u
            BY <1>4, <1>5, <1>7, <4>1, <5>1, <5>2
          <5>3. CASE adm[k].team # u
            BY <1>7, <4>1, <5>1, <5>3
          <5> QED
            BY <5>2, <5>3
        <4> QED
          BY <1>10, <3>1, <4>2 DEF Read
      <3>5. Pending(k)'
        <4> SUFFICES ASSUME adm[k].phase = "commit" PROVE Pending(k)'
          BY <3>1 DEF Pending
        <4>1. /\ adm[k].team # u /\ adm[k].team \in Team
              /\ row.status = "active" /\ adm[k].row.status = "active" =>
                   row.name # adm[k].row.name
          BY <1>1, <3>1 DEF Apart, Flow, u, row
        <4>2. teams'[adm[k].team] = teams[adm[k].team]
          BY <1>7, <4>1
        <4>3. adm[k].row.status = "active" =>
                {v \in Team : teams'[v].status = "active" /\ teams'[v].name = adm[k].row.name}
                  \subseteq {adm[k].team}
          BY <1>7, <3>1, <4>1 DEF Pending, ActiveWith
        <4> QED
          BY <3>1, <4>2, <4>3 DEF Pending, Written, ActiveWith
      <3> QED
        BY <3>3, <3>4, <3>5
    <2> QED
      BY <2>1, <2>2
  <1>17. ASSUME NEW k \in Handler, NEW l \in Handler, k # l PROVE Apart(k, l)'
    <2>1. Apart(k, l) /\ Flow(k)
      BY <1>17 DEF IInv
    <2>2. adm[k].op = "create" => adm[k].team # None
      BY <2>1, NightlyImportAssumption DEF Flow
    <2> QED
      BY <1>8, <2>1, <2>2, BlankEdit DEF Apart
  <1>18. FactsKnown'
    BY <1>10, <1>11 DEF IInv, FactsKnown
  <1>19. \A r \in Run : Shown(r)'
    <2>1. \A t \in Team : teams[t].version > 1 => teams'[t].version > 1
      BY <1>4, <1>5, <1>7
    <2> QED
      BY <1>10, <2>1, ShownKept DEF IInv
  <1>20. NamesUnique'
    <2>1. NamesUnique
      BY DEF IInv
    <2> QED
      BY <1>3, <1>4, <1>7, <2>1 DEF NamesUnique, ActiveWith
  <1> QED
    BY <1>9, <1>13, <1>14, <1>15, <1>16, <1>17, <1>18, <1>19, <1>20 DEF IInv

-----------------------------------------------------------------------------
(* The files of one night, and what their rows put in the tables *)

LEMMA BatchRows ==
  ASSUME NEW batch \in Batch
  PROVE  /\ batch.sales \in Seq(SalesRow) /\ batch.brands \in Seq(BrandRow)
         /\ batch.doctors \in Seq(DoctorRow)
         /\ \A i \in Valid(batch.sales) : i \in DOMAIN batch.sales /\ batch.sales[i] \in SalesRow
         /\ \A i \in Valid(batch.brands) : i \in DOMAIN batch.brands /\ batch.brands[i] \in BrandRow
         /\ \A i \in ValidDoctors(batch.doctors) :
              i \in DOMAIN batch.doctors /\ batch.doctors[i] \in DoctorRow
  <1>1. /\ batch.sales \in Seq(SalesRow) /\ batch.brands \in Seq(BrandRow)
        /\ batch.doctors \in Seq(DoctorRow)
    BY NightlyImportAssumption
  <1> QED
    BY <1>1 DEF Valid, ValidDoctors

\* Of the rows of one key, one is the last.
LEMMA LastRow ==
  ASSUME NEW R, NEW rows \in Seq(R), NEW S, S \subseteq DOMAIN rows, S # {}
  PROVE  LastOf(S) \in S
  <1>1. S \subseteq 1..Len(rows) /\ Len(rows) \in Nat
    OBVIOUS
  <1> QED
    BY <1>1, LastIs

LEMMA SalesUpserted ==
  ASSUME NEW p \in Importer, imp[p].batch \in Batch, NEW d \in Date, NEW t \in Team
  PROVE  \/ SalesOf(p, <<d, t>>) = {} /\ UpsertedSales(p)[<<d, t>>] = sales[<<d, t>>]
         \/ \E i \in Valid(imp[p].batch.sales) :
              LET row == imp[p].batch.sales[i]
              IN /\ row.date = d /\ imp[p].cache[row.team] = t
                 /\ UpsertedSales(p)[<<d, t>>] =
                      [amount |-> row.amount, pct |-> row.pct, name |-> row.team,
                       by |-> imp[p].run]
  <1> DEFINE S == SalesOf(p, <<d, t>>)
             i == LastOf(S)
             row == imp[p].batch.sales[i]
  <1>1. imp[p].batch.sales \in Seq(SalesRow)
    BY BatchRows
  <1>2. S = {j \in Valid(imp[p].batch.sales) :
               imp[p].batch.sales[j].date = d /\ imp[p].cache[imp[p].batch.sales[j].team] = t}
    BY DEF SalesOf
  <1>3. UpsertedSales(p)[<<d, t>>] =
          IF S = {} THEN sales[<<d, t>>]
          ELSE [amount |-> row.amount, pct |-> row.pct, name |-> row.team, by |-> imp[p].run]
    BY DEF UpsertedSales
  <1>4. S \subseteq DOMAIN imp[p].batch.sales
    BY <1>2 DEF Valid
  <1> HIDE DEF S
  <1>5. S # {} => i \in S
    BY <1>1, <1>4, LastRow
  <1> HIDE DEF i
  <1>6. CASE S = {}
    BY <1>3, <1>6 DEF S
  <1>7. CASE S # {}
    <2>1. i \in Valid(imp[p].batch.sales) /\ row.date = d /\ imp[p].cache[row.team] = t
      BY <1>2, <1>5, <1>7
    <2> QED
      BY <1>3, <1>7, <2>1
  <1> QED
    BY <1>6, <1>7

LEMMA BrandsUpserted ==
  ASSUME NEW p \in Importer, imp[p].batch \in Batch, NEW b \in Brand
  PROVE  \/ RanksOf(p, b) = {} /\ UpsertedBrands(p)[b] = brands[b]
         \/ \E i \in Valid(imp[p].batch.brands) :
              UpsertedBrands(p)[b] =
                [rank |-> imp[p].batch.brands[i].rank, growth |-> imp[p].batch.brands[i].growth,
                 by |-> imp[p].run]
  <1> DEFINE S == RanksOf(p, b)
             i == LastOf(S)
             row == imp[p].batch.brands[i]
  <1>1. imp[p].batch.brands \in Seq(BrandRow)
    BY BatchRows
  <1>2. S \subseteq Valid(imp[p].batch.brands) /\ S \subseteq DOMAIN imp[p].batch.brands
    BY DEF RanksOf, Valid
  <1>3. UpsertedBrands(p)[b] = IF S = {} THEN brands[b]
          ELSE [rank |-> row.rank, growth |-> row.growth, by |-> imp[p].run]
    BY DEF UpsertedBrands
  <1> HIDE DEF S
  <1>4. S # {} => i \in S
    BY <1>1, <1>2, LastRow
  <1> HIDE DEF i
  <1> QED
    BY <1>2, <1>3, <1>4 DEF S

LEMMA DoctorsUpserted ==
  ASSUME NEW p \in Importer, imp[p].batch \in Batch, NEW d \in Doctor
  PROVE  \/ VisitsOf(p, d) = {} /\ UpsertedDoctors(p)[d] = doctors[d]
         \/ \E i \in ValidDoctors(imp[p].batch.doctors) :
              UpsertedDoctors(p)[d] =
                [territory |-> imp[p].batch.doctors[i].territory, by |-> imp[p].run]
  <1> DEFINE S == VisitsOf(p, d)
             i == LastOf(S)
             row == imp[p].batch.doctors[i]
  <1>1. imp[p].batch.doctors \in Seq(DoctorRow)
    BY BatchRows
  <1>2. S \subseteq ValidDoctors(imp[p].batch.doctors) /\ S \subseteq DOMAIN imp[p].batch.doctors
    BY DEF VisitsOf, Valid, ValidDoctors
  <1>3. UpsertedDoctors(p)[d] = IF S = {} THEN doctors[d]
          ELSE [territory |-> row.territory, by |-> imp[p].run]
    BY DEF UpsertedDoctors
  <1> HIDE DEF S
  <1>4. S # {} => i \in S
    BY <1>1, <1>2, LastRow
  <1> HIDE DEF i
  <1> QED
    BY <1>2, <1>3, <1>4 DEF S

\* The valid rows of a file and the others.
LEMMA Positions ==
  ASSUME NEW R, NEW rows \in Seq(R)
  PROVE  /\ IsFiniteSet(Valid(rows))
         /\ Cardinality(Valid(rows)) \in Nat /\ Cardinality(DOMAIN rows \ Valid(rows)) \in Nat
         /\ Cardinality(Valid(rows)) + Cardinality(DOMAIN rows \ Valid(rows)) = Len(rows)
  <1>1. DOMAIN rows = 1..Len(rows) /\ Len(rows) \in Nat
    OBVIOUS
  <1>2. IsFiniteSet(DOMAIN rows) /\ Cardinality(DOMAIN rows) = Len(rows)
    BY <1>1, FS_Interval
  <1>3. Valid(rows) \subseteq DOMAIN rows
    BY DEF Valid
  <1> HIDE DEF Valid
  <1> QED
    BY <1>2, <1>3, Split

\* Every row of the files counts once, as processed or as rejected.
LEMMA CountsAddUp ==
  ASSUME NEW p \in Importer, imp[p].batch \in Batch, ~Unreadable(imp[p].batch)
  PROVE  /\ Processed(p) \in Nat /\ Rejected(p) \in Nat
         /\ Processed(p) + Rejected(p) =
              Len(imp[p].batch.sales) + Len(imp[p].batch.brands) + Len(imp[p].batch.doctors)
  <1> DEFINE s == imp[p].batch.sales
             b == imp[p].batch.brands
             d == imp[p].batch.doctors
             named == {i \in Valid(d) : d[i].extra = "named"}
  <1>1. s \in Seq(SalesRow) /\ b \in Seq(BrandRow) /\ d \in Seq(DoctorRow)
    BY BatchRows
  <1>2. ValidDoctors(d) \subseteq Valid(d)
    BY DEF ValidDoctors
  <1>3. named = Valid(d) \ ValidDoctors(d)
    <2>1. \A i \in Valid(d) : d[i].extra \in {"none", "named"}
      <3>1. \A i \in Valid(d) : d[i] \in DoctorRow
        BY <1>1 DEF Valid
      <3> QED
        BY <3>1 DEF Unreadable, DoctorRow
    <2> QED
      BY <2>1 DEF ValidDoctors
  <1>4. Processed(p) = Cardinality(Valid(s)) + Cardinality(Valid(b)) + Cardinality(ValidDoctors(d))
    BY DEF Processed
  <1>5. Rejected(p) = Cardinality(DOMAIN s \ Valid(s)) + Cardinality(DOMAIN b \ Valid(b))
                        + Cardinality(DOMAIN d \ Valid(d)) + Cardinality(named)
    BY DEF Rejected
  <1> DEFINE vs == Cardinality(Valid(s))
             vb == Cardinality(Valid(b))
             vd == Cardinality(Valid(d))
             ok == Cardinality(ValidDoctors(d))
             xs == Cardinality(DOMAIN s \ Valid(s))
             xb == Cardinality(DOMAIN b \ Valid(b))
             xd == Cardinality(DOMAIN d \ Valid(d))
             xn == Cardinality(named)
  <1> HIDE DEF s, b, d, named
  <1>6. /\ vs \in Nat /\ xs \in Nat /\ vs + xs = Len(s)
    BY <1>1, Positions
  <1>7. /\ vb \in Nat /\ xb \in Nat /\ vb + xb = Len(b)
    BY <1>1, Positions
  <1>8. /\ vd \in Nat /\ xd \in Nat /\ vd + xd = Len(d)
        /\ IsFiniteSet(Valid(d))
    BY <1>1, Positions
  <1>9. ok \in Nat /\ xn \in Nat /\ ok + xn = vd
    BY <1>2, <1>3, <1>8, Split
  <1>10. Len(s) \in Nat /\ Len(b) \in Nat /\ Len(d) \in Nat
    BY <1>1
  <1>11. Processed(p) = vs + vb + ok /\ Rejected(p) = xs + xb + xd + xn
    BY <1>4, <1>5
  <1> HIDE DEF vs, vb, vd, ok, xs, xb, xd, xn
  <1>12. /\ Processed(p) \in Nat /\ Rejected(p) \in Nat
         /\ Processed(p) + Rejected(p) = Len(s) + Len(b) + Len(d)
    BY <1>6, <1>7, <1>8, <1>9, <1>10, <1>11
  <1> QED
    BY <1>12 DEF s, b, d

-----------------------------------------------------------------------------
(* The night's commit *)

\* The committing run is newer than every run that succeeded, and joins them.
LEMMA PromotedRun ==
  ASSUME IInv, NEW p \in Importer, Promote(p), NEW r, r = imp[p].run
  PROVE  /\ r \in Run /\ r \in Nat /\ r = begun /\ r \notin Succeeded
         /\ Succeeded' = Succeeded \cup {r} /\ \A s \in Succeeded : s \in Nat /\ s > 0 /\ s < r
         /\ runs' \in [Run -> RunRow]
         /\ \A s \in Run \ {r} : runs'[s] = runs[s] /\ staged'[s] = staged[s]
         /\ staged'[r] = imp[p].batch
         /\ runs'[r].processed = Processed(p) /\ runs'[r].rejected = Rejected(p)
         /\ imp[p].batch \in Batch /\ ~Unreadable(imp[p].batch)
  <1>1. imp[p].phase = "resolve" /\ Underway(p) /\ Resolved(p)
    BY DEF IInv, Promote
  <1>2. /\ r \in Run /\ r = begun /\ runs[r].status = "none"
        /\ imp[p].batch \in Batch /\ ~Unreadable(imp[p].batch)
    BY <1>1 DEF Underway, Holder, Resolved
  <1>3. runs \in [Run -> RunRow] /\ staged \in [Run -> Batch \cup {None}]
    BY DEF IInv, TypeOK
  <1> DEFINE row == [status |-> "succeeded", processed |-> Processed(p), rejected |-> Rejected(p)]
  <1>4. row \in RunRow /\ row.status = "succeeded"
        /\ row.processed = Processed(p) /\ row.rejected = Rejected(p)
    BY <1>2, CountsAddUp DEF RunRow
  <1>5. runs' = [runs EXCEPT ![r] = row] /\ staged' = [staged EXCEPT ![r] = imp[p].batch]
    BY DEF Promote
  <1> HIDE DEF row
  <1>6. /\ runs' \in [Run -> RunRow] /\ runs'[r] = row /\ staged'[r] = imp[p].batch
        /\ \A s \in Run \ {r} : runs'[s] = runs[s] /\ staged'[s] = staged[s]
    BY <1>2, <1>3, <1>4, <1>5
  <1>7. Succeeded' = Succeeded \cup {r} /\ r \notin Succeeded
    BY <1>2, <1>4, <1>6 DEF Succeeded
  <1>8. \A s \in Succeeded : s \in Nat /\ s > 0 /\ s < r
    <2> SUFFICES ASSUME NEW s \in Succeeded PROVE s \in Nat /\ s > 0 /\ s < r
      OBVIOUS
    <2>1. s \in Run /\ runs[s].status # "none" /\ s # r
      BY <1>7 DEF Succeeded
    <2>2. s <= begun
      BY <2>1 DEF IInv, Concluded
    <2> QED
      BY <1>2, <2>1, <2>2, NightlyImportAssumption DEF Run
  <1> QED
    BY <1>2, <1>4, <1>6, <1>7, <1>8, NightlyImportAssumption DEF Run

\* Teams that were committed stay as they are; the others become what was inserted.
LEMMA PromotedTeams ==
  ASSUME IInv, NEW p \in Importer, Promote(p), NEW t \in Team
  PROVE  /\ imp[p].made[t] \in Name \cup {None}
         /\ imp[p].made[t] = None => teams'[t] = teams[t]
         /\ imp[p].made[t] # None =>
              /\ teams[t] = NoTeam /\ teams'[t] # NoTeam /\ teams'[t] \in TeamRow
              /\ teams'[t].status = "active" /\ teams'[t].name = imp[p].made[t]
         /\ \A n : Known(t, n) => Known(t, n)' /\ teams'[t] = teams[t] /\ imp[p].made[t] = None
         /\ \A n \in Name : imp[p].made[t] = n => Known(t, n)'
  <1>1. imp[p].made[t] \in Name \cup {None} /\ Reserved(p, t)
    BY Typed, ImportFields DEF IInv
  <1>2. imp[p].made[t] = None => teams'[t] = teams[t]
    BY DEF Promote
  <1>3. ASSUME imp[p].made[t] # None
        PROVE  /\ teams[t] = NoTeam /\ teams'[t] # NoTeam /\ teams'[t] \in TeamRow
               /\ teams'[t].status = "active" /\ teams'[t].name = imp[p].made[t]
    <2> DEFINE n == imp[p].made[t]
    <2>1. teams'[t] = [status |-> "active", name |-> n, version |-> 1]
      BY <1>3 DEF Promote
    <2>2. n \in Name
      BY <1>1, <1>3
    <2> HIDE DEF n
    <2>3. teams'[t] \in TeamRow /\ teams'[t].status = "active" /\ teams'[t].name = n
      BY <2>1, <2>2, NightlyImportAssumption DEF TeamRow
    <2> QED
      BY <1>1, <1>3, <2>3, BlankRow DEF Reserved, n
  <1>4. \A n : Known(t, n) => Known(t, n)' /\ teams'[t] = teams[t] /\ imp[p].made[t] = None
    BY <1>2, <1>3 DEF Known
  <1>5. \A n \in Name : imp[p].made[t] = n => Known(t, n)'
    BY <1>3, NightlyImportAssumption DEF Known
  <1> QED
    BY <1>1, <1>2, <1>3, <1>4, <1>5

\* The team that a row's name resolves to is called that when the night commits.
LEMMA ResolvedTeam ==
  ASSUME IInv, NEW p \in Importer, Promote(p), NEW i \in Valid(imp[p].batch.sales),
         NEW n, n = imp[p].batch.sales[i].team, NEW t, t = imp[p].cache[n]
  PROVE  n \in Name /\ t \in Team /\ Known(t, n)' /\ (imp[p].made[t] = n \/ Known(t, n))
  <1>1. imp[p].batch \in Batch /\ Resolved(p) /\ Unresolved(p) = {}
    BY PromotedRun DEF IInv, Promote
  <1>2. n \in Name
    BY <1>1, BatchRows DEF SalesRow
  <1>3. imp[p].cache \in [Name -> Team \cup {None}]
    BY Typed, ImportFields DEF IInv
  <1>4. t \in Team /\ t # None
    BY <1>1, <1>2, <1>3 DEF Unresolved
  <1>5. imp[p].made[t] = n \/ Known(t, n)
    BY <1>1, <1>2, <1>4 DEF Resolved
  <1> QED
    BY <1>2, <1>4, <1>5, PromotedTeams

\* What the commit does to the fact of one date and one team.
LEMMA PromotedSales ==
  ASSUME IInv, NEW p \in Importer, Promote(p), NEW d \in Date, NEW t \in Team
  PROVE  \/ sales'[<<d, t>>] = sales[<<d, t>>] /\ SalesOf(p, <<d, t>>) = {}
         \/ /\ sales'[<<d, t>>] \in Fact /\ sales'[<<d, t>>].by = imp[p].run
            /\ sales'[<<d, t>>].name \in Name
            /\ imp[p].made[t] = sales'[<<d, t>>].name \/ Known(t, sales'[<<d, t>>].name)
  <1>1. imp[p].batch \in Batch /\ imp[p].run \in Run
    BY PromotedRun
  <1>2. sales'[<<d, t>>] = UpsertedSales(p)[<<d, t>>]
    BY DEF Promote
  <1>3. CASE SalesOf(p, <<d, t>>) = {} /\ UpsertedSales(p)[<<d, t>>] = sales[<<d, t>>]
    BY <1>2, <1>3
  <1>4. ASSUME NEW i \in Valid(imp[p].batch.sales),
               imp[p].cache[imp[p].batch.sales[i].team] = t,
               sales'[<<d, t>>] =
                 [amount |-> imp[p].batch.sales[i].amount, pct |-> imp[p].batch.sales[i].pct,
                  name |-> imp[p].batch.sales[i].team, by |-> imp[p].run]
        PROVE  /\ sales'[<<d, t>>] \in Fact /\ sales'[<<d, t>>].by = imp[p].run
               /\ sales'[<<d, t>>].name \in Name
               /\ imp[p].made[t] = sales'[<<d, t>>].name \/ Known(t, sales'[<<d, t>>].name)
    <2> DEFINE row == imp[p].batch.sales[i]
               fact == [amount |-> row.amount, pct |-> row.pct, name |-> row.team,
                        by |-> imp[p].run]
    <2>1. row.amount \in Amount /\ row.pct \in Pct /\ row.team \in Name
      BY <1>1, BatchRows DEF SalesRow
    <2>2. sales'[<<d, t>>] = fact
      BY <1>4
    <2>3. imp[p].made[t] = row.team \/ Known(t, row.team)
      BY <1>4, ResolvedTeam
    <2> HIDE DEF row
    <2>4. fact \in Fact /\ fact.by = imp[p].run /\ fact.name = row.team
      BY <1>1, <2>1 DEF Fact
    <2> HIDE DEF fact
    <2> QED
      BY <2>1, <2>2, <2>3, <2>4
  <1>5. \/ SalesOf(p, <<d, t>>) = {} /\ UpsertedSales(p)[<<d, t>>] = sales[<<d, t>>]
        \/ \E i \in Valid(imp[p].batch.sales) :
             /\ imp[p].cache[imp[p].batch.sales[i].team] = t
             /\ sales'[<<d, t>>] =
                  [amount |-> imp[p].batch.sales[i].amount, pct |-> imp[p].batch.sales[i].pct,
                   name |-> imp[p].batch.sales[i].team, by |-> imp[p].run]
    BY <1>1, <1>2, SalesUpserted
  <1> QED
    BY <1>3, <1>4, <1>5

LEMMA PromotedFacts ==
  ASSUME IInv, NEW p \in Importer, Promote(p)
  PROVE  /\ sales' \in [Date \X Team -> Fact]
         /\ brands' \in [Brand -> [rank: Nat, growth: Pct, by: Run \cup {0}]]
         /\ doctors' \in [Doctor -> [territory: Name \cup {None}, by: Run \cup {0}]]
         /\ \A b \in Brand :
              \/ brands'[b].by = imp[p].run
              \/ brands'[b] = brands[b] /\ RanksOf(p, b) = {}
         /\ \A d \in Doctor :
              \/ doctors'[d].by = imp[p].run /\ doctors'[d].territory \in Name
              \/ doctors'[d] = doctors[d] /\ VisitsOf(p, d) = {}
  <1>1. imp[p].batch \in Batch /\ imp[p].run \in Run
    BY PromotedRun
  <1>2. sales' \in [Date \X Team -> Fact]
    <2>1. sales' = UpsertedSales(p) /\ sales \in [Date \X Team -> Fact]
      BY DEF Promote, IInv, TypeOK
    <2>2. ASSUME NEW k \in Date \X Team PROVE sales'[k] \in Fact
      <3>1. PICK d \in Date, t \in Team : k = <<d, t>>
        OBVIOUS
      <3>2. sales[<<d, t>>] \in Fact
        BY <2>1
      <3> QED
        BY <3>1, <3>2, PromotedSales
    <2>3. UpsertedSales(p) = [k \in Date \X Team |-> UpsertedSales(p)[k]]
      BY DEF UpsertedSales
    <2> QED
      BY <2>1, <2>2, <2>3
  <1>3. ASSUME NEW b \in Brand
        PROVE  /\ brands'[b] \in [rank: Nat, growth: Pct, by: Run \cup {0}]
               /\ \/ brands'[b].by = imp[p].run
                  \/ brands'[b] = brands[b] /\ RanksOf(p, b) = {}
    <2>1. /\ brands'[b] = UpsertedBrands(p)[b]
          /\ brands[b] \in [rank: Nat, growth: Pct, by: Run \cup {0}]
      BY DEF Promote, IInv, TypeOK
    <2>2. \A i \in Valid(imp[p].batch.brands) :
            /\ imp[p].batch.brands[i].rank \in Nat
            /\ imp[p].batch.brands[i].growth \in Pct
      BY <1>1, BatchRows DEF BrandRow
    <2>3. CASE RanksOf(p, b) = {} /\ UpsertedBrands(p)[b] = brands[b]
      BY <2>1, <2>3
    <2>4. ASSUME NEW i \in Valid(imp[p].batch.brands),
                 brands'[b] =
                   [rank |-> imp[p].batch.brands[i].rank,
                    growth |-> imp[p].batch.brands[i].growth, by |-> imp[p].run]
          PROVE  /\ brands'[b] \in [rank: Nat, growth: Pct, by: Run \cup {0}]
                 /\ brands'[b].by = imp[p].run
      <3>1. imp[p].run \in Run \cup {0}
        BY <1>1
      <3> QED
        BY <2>2, <2>4, <3>1
    <2>5. \/ RanksOf(p, b) = {} /\ UpsertedBrands(p)[b] = brands[b]
          \/ \E i \in Valid(imp[p].batch.brands) :
               brands'[b] =
                 [rank |-> imp[p].batch.brands[i].rank,
                  growth |-> imp[p].batch.brands[i].growth, by |-> imp[p].run]
      BY <1>1, <2>1, BrandsUpserted
    <2> QED
      BY <2>1, <2>3, <2>4, <2>5
  <1>4. ASSUME NEW d \in Doctor
        PROVE  /\ doctors'[d] \in [territory: Name \cup {None}, by: Run \cup {0}]
               /\ \/ doctors'[d].by = imp[p].run /\ doctors'[d].territory \in Name
                  \/ doctors'[d] = doctors[d] /\ VisitsOf(p, d) = {}
    <2>1. /\ doctors'[d] = UpsertedDoctors(p)[d]
          /\ doctors[d] \in [territory: Name \cup {None}, by: Run \cup {0}]
      BY DEF Promote, IInv, TypeOK
    <2>2. \A i \in ValidDoctors(imp[p].batch.doctors) : imp[p].batch.doctors[i].territory \in Name
      BY <1>1, BatchRows DEF DoctorRow
    <2>3. CASE VisitsOf(p, d) = {} /\ UpsertedDoctors(p)[d] = doctors[d]
      BY <2>1, <2>3
    <2>4. ASSUME NEW i \in ValidDoctors(imp[p].batch.doctors),
                 doctors'[d] =
                   [territory |-> imp[p].batch.doctors[i].territory, by |-> imp[p].run]
          PROVE  /\ doctors'[d] \in [territory: Name \cup {None}, by: Run \cup {0}]
                 /\ doctors'[d].by = imp[p].run /\ doctors'[d].territory \in Name
      <3>1. imp[p].run \in Run \cup {0}
        BY <1>1
      <3> QED
        BY <2>2, <2>4, <3>1
    <2>5. \/ VisitsOf(p, d) = {} /\ UpsertedDoctors(p)[d] = doctors[d]
          \/ \E i \in ValidDoctors(imp[p].batch.doctors) :
               doctors'[d] =
                 [territory |-> imp[p].batch.doctors[i].territory, by |-> imp[p].run]
      BY <1>1, <2>1, DoctorsUpserted
    <2> QED
      BY <2>3, <2>4, <2>5
  <1>5. brands' \in [Brand -> [rank: Nat, growth: Pct, by: Run \cup {0}]]
    <2>1. brands' = [b \in Brand |-> brands'[b]]
      BY DEF Promote, UpsertedBrands
    <2> QED
      BY <1>3, <2>1
  <1>6. doctors' \in [Doctor -> [territory: Name \cup {None}, by: Run \cup {0}]]
    <2>1. doctors' = [d \in Doctor |-> doctors'[d]]
      BY DEF Promote, UpsertedDoctors
    <2> QED
      BY <1>4, <2>1
  <1> QED
    BY <1>2, <1>3, <1>4, <1>5, <1>6

\* The names that were inserted are still free, and different.
LEMMA PromotedNames ==
  ASSUME IInv, NEW p \in Importer, Promote(p)
  PROVE  NamesUnique'
  <1> SUFFICES ASSUME NEW t \in Team, NEW u \in Team,
                      teams'[t].status = "active", teams'[u].status = "active",
                      teams'[t].name = teams'[u].name
               PROVE  t = u
    BY DEF NamesUnique
  <1>1. /\ Reserved(p, t) /\ Reserved(p, u) /\ Resolved(p) /\ NamesUnique
    BY DEF IInv
  <1>2. CASE imp[p].made[t] = None /\ imp[p].made[u] = None
    BY <1>1, <1>2, PromotedTeams DEF NamesUnique
  <1>3. CASE imp[p].made[t] # None /\ imp[p].made[u] # None
    BY <1>1, <1>3, PromotedTeams DEF Resolved
  <1>4. CASE imp[p].made[t] # None /\ imp[p].made[u] = None
    <2>1. teams'[t].name = imp[p].made[t] /\ teams'[u] = teams[u]
      BY <1>4, PromotedTeams
    <2>2. u \in ActiveWith(imp[p].made[t])
      BY <2>1 DEF ActiveWith
    <2> QED
      BY <1>1, <1>4, <2>2 DEF Reserved
  <1>5. CASE imp[p].made[t] = None /\ imp[p].made[u] # None
    <2>1. teams'[u].name = imp[p].made[u] /\ teams'[t] = teams[t]
      BY <1>5, PromotedTeams
    <2>2. t \in ActiveWith(imp[p].made[u])
      BY <2>1 DEF ActiveWith
    <2> QED
      BY <1>1, <1>5, <2>2 DEF Reserved
  <1> QED
    BY <1>2, <1>3, <1>4, <1>5

LEMMA PromotedFactsKnown ==
  ASSUME IInv, NEW p \in Importer, Promote(p)
  PROVE  FactsKnown'
  <1>1. imp[p].run \in Nat /\ imp[p].run \in Run /\ Succeeded' = Succeeded \cup {imp[p].run}
    BY PromotedRun
  <1>2. FactsKnown
    BY DEF IInv
  <1>3. ASSUME NEW d \in Date, NEW t \in Team
        PROVE  /\ sales'[<<d, t>>].by \in Succeeded' \cup {0}
               /\ sales'[<<d, t>>].name # None =>
                    sales'[<<d, t>>].by > 0 /\ Known(t, sales[<<d, t>>].name)'
    <2>1. CASE sales'[<<d, t>>] = sales[<<d, t>>]
      <3>1. sales[<<d, t>>].by \in Succeeded \cup {0}
        BY <1>2 DEF FactsKnown
      <3>2. sales[<<d, t>>].name # None =>
              sales[<<d, t>>].by > 0 /\ Known(t, sales[<<d, t>>].name)
        BY <1>2 DEF FactsKnown
      <3>3. sales'[<<d, t>>].by = sales[<<d, t>>].by
            /\ sales'[<<d, t>>].name = sales[<<d, t>>].name
        BY <2>1
      <3>4. \A n : Known(t, n) => teams'[t] = teams[t]
        BY PromotedTeams
      <3>5. sales'[<<d, t>>].name # None => Known(t, sales[<<d, t>>].name)'
        BY <3>2, <3>3, <3>4 DEF Known
      <3> QED
        BY <1>1, <3>1, <3>2, <3>3, <3>5
    <2>2. CASE /\ sales'[<<d, t>>].by = imp[p].run
               /\ sales'[<<d, t>>].name \in Name
               /\ imp[p].made[t] = sales'[<<d, t>>].name \/ Known(t, sales'[<<d, t>>].name)
      <3>1. imp[p].run > 0
        BY <1>1 DEF Run
      <3>2. Known(t, sales[<<d, t>>].name)'
        <4> DEFINE n == sales'[<<d, t>>].name
        <4>1. n \in Name /\ (imp[p].made[t] = n \/ Known(t, n)) /\ n # None
          BY <2>2, NightlyImportAssumption
        <4> HIDE DEF n
        <4>2. \/ teams'[t] # NoTeam /\ teams'[t].name = n
              \/ Known(t, n) /\ teams'[t] = teams[t]
          BY <4>1, PromotedTeams
        <4> QED
          BY <4>2 DEF Known, n
      <3> QED
        BY <1>1, <2>2, <3>1, <3>2
    <2> QED
      BY <2>1, <2>2, PromotedSales
  <1>4. \A b \in Brand : brands'[b].by \in Succeeded' \cup {0}
    BY <1>1, <1>2, PromotedFacts DEF FactsKnown
  <1>5. \A d \in Doctor : /\ doctors'[d].by \in Succeeded' \cup {0}
                          /\ doctors'[d].by > 0 => doctors'[d].territory \in Name
    <2>1. \A d \in Doctor : /\ doctors[d].by \in Succeeded \cup {0}
                            /\ doctors[d].by > 0 => doctors[d].territory \in Name
      BY <1>2 DEF FactsKnown
    <2> QED
      BY <1>1, <2>1, PromotedFacts
  <1> QED
    BY <1>3, <1>4, <1>5 DEF FactsKnown

\* Runs that succeeded before: their rows, or newer ones under names that the
\* same team answered to.
LEMMA PromotedShownBefore ==
  ASSUME IInv, NEW p \in Importer, Promote(p), NEW s \in Succeeded
  PROVE  Shown(s)'
  <1> DEFINE r == imp[p].run
  <1>1. /\ r \in Nat /\ s \in Nat /\ s > 0 /\ s < r /\ s \in Run \ {r}
        /\ staged'[s] = staged[s] /\ runs'[s] = runs[s]
    BY PromotedRun DEF Succeeded
  <1>2. /\ staged[s] \in Batch /\ SalesShown(s) /\ BrandsShown(s) /\ DoctorsShown(s)
        /\ Counted(s)
    BY DEF IInv, Shown, Succeeded
  <1>3. SalesShown(s)'
    <2> SUFFICES ASSUME NEW i \in Valid(staged[s].sales)
                 PROVE  \E t \in Team :
                          /\ sales'[<<staged[s].sales[i].date, t>>].by >= s
                          /\ \/ sales'[<<staged[s].sales[i].date, t>>].name
                                  = staged[s].sales[i].team
                             \/ teams'[t].version > 1
      BY <1>1 DEF SalesShown
    <2> DEFINE d == staged[s].sales[i].date
               n == staged[s].sales[i].team
    <2>1. d \in Date /\ n \in Name
      BY <1>2, BatchRows DEF SalesRow
    <2>2. PICK t \in Team : /\ sales[<<d, t>>].by >= s
                            /\ sales[<<d, t>>].name = n \/ teams[t].version > 1
      BY <1>2 DEF SalesShown
    <2>3. teams[t].version > 1 => teams'[t].version > 1
      <3>1. teams[t].version > 1 => teams[t] # NoTeam
        BY BlankRow
      <3> QED
        BY <3>1, PromotedTeams
    <2> HIDE DEF d, n
    <2>4. CASE sales'[<<d, t>>] = sales[<<d, t>>]
      BY <2>2, <2>3, <2>4 DEF d, n
    <2>5. CASE /\ sales'[<<d, t>>].by = r
               /\ imp[p].made[t] = sales'[<<d, t>>].name \/ Known(t, sales'[<<d, t>>].name)
               /\ sales'[<<d, t>>].name \in Name
      <3>1. sales'[<<d, t>>].by >= s
        BY <1>1, <2>5
      <3>2. CASE teams[t].version > 1
        BY <2>3, <3>1, <3>2 DEF d, n
      <3>3. CASE sales[<<d, t>>].name = n
        <4>1. Known(t, n)
          BY <2>1, <3>3, NightlyImportAssumption DEF IInv, FactsKnown
        <4>2. imp[p].made[t] = None /\ teams'[t] = teams[t]
          BY <4>1, PromotedTeams
        <4>3. Known(t, sales'[<<d, t>>].name)
          BY <2>5, <4>2, NightlyImportAssumption
        <4>4. sales'[<<d, t>>].name = n \/ teams'[t].version > 1
          BY <4>1, <4>2, <4>3 DEF Known
        <4> QED
          BY <3>1, <4>4 DEF d, n
      <3> QED
        BY <2>2, <3>2, <3>3
    <2> QED
      BY <2>1, <2>4, <2>5, PromotedSales
  <1>4. BrandsShown(s)'
    <2> SUFFICES ASSUME NEW i \in Valid(staged[s].brands)
                 PROVE  brands'[staged[s].brands[i].brand].by >= s
      BY <1>1 DEF BrandsShown
    <2>1. staged[s].brands[i].brand \in Brand
      BY <1>2, BatchRows DEF BrandRow
    <2>2. brands[staged[s].brands[i].brand].by >= s
      BY <1>2 DEF BrandsShown
    <2> QED
      BY <1>1, <2>1, <2>2, PromotedFacts
  <1>5. DoctorsShown(s)'
    <2> SUFFICES ASSUME NEW i \in ValidDoctors(staged[s].doctors)
                 PROVE  doctors'[staged[s].doctors[i].doctor].by >= s
      BY <1>1 DEF DoctorsShown
    <2>1. staged[s].doctors[i].doctor \in Doctor
      BY <1>2, BatchRows DEF DoctorRow
    <2>2. doctors[staged[s].doctors[i].doctor].by >= s
      BY <1>2 DEF DoctorsShown
    <2> QED
      BY <1>1, <2>1, <2>2, PromotedFacts
  <1>6. Counted(s)'
    BY <1>1, <1>2 DEF Counted
  <1> QED
    BY <1>1, <1>2, <1>3, <1>4, <1>5, <1>6 DEF Shown

\* The run itself.
LEMMA PromotedShownNow ==
  ASSUME IInv, NEW p \in Importer, Promote(p),
         NEW r, r = imp[p].run, NEW batch, batch = imp[p].batch
  PROVE  Shown(r)'
  <1>1. /\ r \in Run /\ r \in Nat /\ batch \in Batch /\ staged'[r] = batch
        /\ runs'[r].processed = Processed(p) /\ runs'[r].rejected = Rejected(p)
        /\ ~Unreadable(batch)
    BY PromotedRun
  <1>2. \A i \in Valid(batch.sales) :
          \E t \in Team :
            /\ sales'[<<batch.sales[i].date, t>>].by >= r
            /\ sales'[<<batch.sales[i].date, t>>].name = batch.sales[i].team
                 \/ teams'[t].version > 1
    <2> SUFFICES ASSUME NEW i \in Valid(batch.sales)
                 PROVE  \E t \in Team :
                          /\ sales'[<<batch.sales[i].date, t>>].by >= r
                          /\ sales'[<<batch.sales[i].date, t>>].name = batch.sales[i].team
                               \/ teams'[t].version > 1
      OBVIOUS
    <2> DEFINE d == batch.sales[i].date
               n == batch.sales[i].team
               t == imp[p].cache[n]
    <2>1. d \in Date
      BY <1>1, BatchRows DEF SalesRow
    <2>2. n \in Name /\ t \in Team /\ (imp[p].made[t] = n \/ Known(t, n))
      BY ResolvedTeam
    <2>3. i \in SalesOf(p, <<d, t>>)
      BY DEF SalesOf
    <2> HIDE DEF d, n, t
    <2>4. /\ sales'[<<d, t>>].by = r
          /\ sales'[<<d, t>>].name \in Name
          /\ imp[p].made[t] = sales'[<<d, t>>].name \/ Known(t, sales'[<<d, t>>].name)
      BY <2>1, <2>2, <2>3, PromotedSales
    <2>5. sales'[<<d, t>>].name = n \/ teams'[t].version > 1
      <3>1. CASE imp[p].made[t] # None
        BY <2>2, <2>4, <3>1, PromotedTeams
      <3>2. CASE imp[p].made[t] = None
        <4>1. Known(t, n) /\ Known(t, sales'[<<d, t>>].name) /\ teams'[t] = teams[t]
          BY <2>2, <2>4, <3>2, PromotedTeams, NightlyImportAssumption
        <4> QED
          BY <4>1 DEF Known
      <3> QED
        BY <3>1, <3>2
    <2> QED
      <3>1. sales'[<<d, t>>].by >= r
        BY <1>1, <2>4
      <3>2. \E u \in Team : sales'[<<d, u>>].by >= r
                             /\ (sales'[<<d, u>>].name = n \/ teams'[u].version > 1)
        BY <2>2, <2>5, <3>1
      <3> QED
        BY <3>2 DEF d, n
  <1>3. \A i \in Valid(batch.brands) : brands'[batch.brands[i].brand].by >= r
    <2> SUFFICES ASSUME NEW i \in Valid(batch.brands)
                 PROVE  brands'[batch.brands[i].brand].by >= r
      OBVIOUS
    <2>1. batch.brands[i].brand \in Brand
      BY <1>1, BatchRows DEF BrandRow
    <2>2. i \in RanksOf(p, batch.brands[i].brand)
      BY DEF RanksOf
    <2> QED
      BY <1>1, <2>1, <2>2, PromotedFacts
  <1>4. \A i \in ValidDoctors(batch.doctors) : doctors'[batch.doctors[i].doctor].by >= r
    <2> SUFFICES ASSUME NEW i \in ValidDoctors(batch.doctors)
                 PROVE  doctors'[batch.doctors[i].doctor].by >= r
      OBVIOUS
    <2>1. batch.doctors[i].doctor \in Doctor
      BY <1>1, BatchRows DEF DoctorRow
    <2>2. i \in VisitsOf(p, batch.doctors[i].doctor)
      BY DEF VisitsOf
    <2> QED
      BY <1>1, <2>1, <2>2, PromotedFacts
  <1>5. Processed(p) + Rejected(p) = Len(batch.sales) + Len(batch.brands) + Len(batch.doctors)
    BY <1>1, CountsAddUp
  <1>6. SalesShown(r)'
    BY <1>1, <1>2 DEF SalesShown
  <1>7. BrandsShown(r)' /\ DoctorsShown(r)'
    BY <1>1, <1>3, <1>4 DEF BrandsShown, DoctorsShown
  <1>8. Counted(r)'
    BY <1>1, <1>5 DEF Counted
  <1> QED
    BY <1>1, <1>6, <1>7, <1>8 DEF Shown

LEMMA PromoteInv ==
  ASSUME IInv, NEW p \in Importer, Promote(p)
  PROVE  IInv'
  <1> DEFINE r == imp[p].run
  <1>1. /\ r \in Run /\ r \in Nat /\ r = begun /\ r \notin Succeeded
        /\ Succeeded' = Succeeded \cup {r}
        /\ \A s \in Succeeded : s \in Nat /\ s > 0 /\ s < r
        /\ runs' \in [Run -> RunRow] /\ imp[p].batch \in Batch
        /\ \A s \in Run \ {r} : runs'[s] = runs[s]
    BY PromotedRun
  <1>2. /\ imp[p].phase = "resolve" /\ Holder(p)
        /\ imp' = [imp EXCEPT ![p] = NoImport] /\ begun' = begun /\ adm' = adm
    BY DEF Promote, Holder
  <1>3. imp'[p] = NoImport /\ \A q \in Importer \ {p} : imp'[q] = imp[q]
    BY <1>2 DEF IInv, TypeOK
  <1>4. \A q \in Importer \ {p} : ~Holder(q) /\ (imp[q].phase # "idle" => imp[q].run # r)
    BY <1>2 DEF IInv, OneNightAtATime, Holder
  <1>5. TypeOK'
    <2>1. teams' \in [Team -> TeamRow]
      <3>1. \A t \in Team : teams'[t] \in TeamRow
        BY PromotedTeams, Typed DEF IInv
      <3>2. teams' = [t \in Team |-> teams'[t]]
        BY DEF Promote
      <3> QED
        BY <3>1, <3>2
    <2>2. staged' \in [Run -> Batch \cup {None}]
      <3>1. staged \in [Run -> Batch \cup {None}]
            /\ staged' = [staged EXCEPT ![r] = imp[p].batch]
        BY DEF Promote, IInv, TypeOK
      <3> QED
        BY <1>1, <3>1
    <2>3. imp' \in [Importer -> Import]
      BY <1>2, BlankImport DEF IInv, TypeOK
    <2>4. begun' \in 0..MaxRuns /\ adm' \in [Handler -> Edit]
      BY <1>2 DEF IInv, TypeOK
    <2> QED
      BY <1>1, <2>1, <2>2, <2>3, <2>4, PromotedFacts DEF TypeOK
  <1>6. ASSUME NEW q \in Importer
        PROVE  (Underway(q) /\ Resolved(q) /\ \A t \in Team : Reserved(q, t))'
    <2>1. CASE q = p
      BY <1>3, <2>1, BlankImport DEF Underway, Resolved, Reserved
    <2>2. CASE q # p
      <3>1. imp'[q] = imp[q] /\ imp[q] \in Import /\ Underway(q) /\ Resolved(q) /\ ~Holder(q)
        BY <1>3, <1>4, <2>2, Typed DEF IInv
      <3>2. Underway(q)'
        BY <1>1, <1>2, <1>4, <2>2, <3>1 DEF Underway, Holder
      <3>3. \A t \in Team : imp[q].made[t] = None
        BY <3>1 DEF Holder, Resolved
      <3>4. Resolved(q)'
        <4>1. ASSUME NEW n \in Name, imp[q].cache[n] # None
              PROVE  Known(imp[q].cache[n], n)'
          <5>1. imp[q].cache[n] \in Team
            BY <3>1, <4>1, ImportFields
          <5>2. Known(imp[q].cache[n], n)
            BY <3>1, <3>3, <4>1, <5>1, NightlyImportAssumption DEF Resolved
          <5>3. teams'[imp[q].cache[n]] = teams[imp[q].cache[n]]
            BY <5>1, <5>2, PromotedTeams
          <5>4. imp'[q].cache[n] = imp[q].cache[n]
            BY <3>1
          <5> QED
            BY <5>2, <5>3, <5>4 DEF Known
        <4>2. imp[q].phase # "resolve" /\ imp[q].name = None
          BY <3>1 DEF Holder, Resolved
        <4> QED
          BY <3>1, <3>3, <4>1, <4>2 DEF Resolved
      <3>5. \A t \in Team : Reserved(q, t)'
        BY <3>1, <3>3 DEF Reserved
      <3> QED
        BY <3>2, <3>4, <3>5
    <2> QED
      BY <2>1, <2>2
  <1>7. \A q, s \in Importer : q # s => OneNightAtATime(q, s)'
    BY <1>3, BlankImport DEF IInv, OneNightAtATime, Holder
  <1>8. Concluded'
    <2> SUFFICES ASSUME NEW s \in Run, runs'[s].status # "none" PROVE s <= begun'
      BY DEF Concluded
    <2>1. CASE s = r
      BY <1>1, <1>2, <2>1
    <2>2. CASE s # r
      BY <1>1, <1>2, <2>2 DEF IInv, Concluded
    <2> QED
      BY <2>1, <2>2
  <1>9. ASSUME NEW h \in Handler PROVE (Flow(h) /\ Read(h) /\ Pending(h))'
    <2>1. /\ adm'[h] = adm[h] /\ adm[h] \in Edit /\ Flow(h) /\ Read(h) /\ Pending(h)
      BY <1>2, Typed DEF IInv
    <2>2. adm[h].op # "none" => adm[h].team \in Team
      BY <2>1 DEF Flow
    <2>3. \A t \in Team : adm[h].team = t => teams'[t] = teams[t]
      <3> SUFFICES ASSUME NEW t \in Team, adm[h].team = t PROVE teams'[t] = teams[t]
        OBVIOUS
      <3>1. imp[p].made[t] = None
        BY DEF IInv, Reserved
      <3> QED
        BY <3>1, PromotedTeams
    <2>4. Flow(h)'
      BY <2>1, <2>2, <2>3, EditFields DEF Flow
    <2>5. Read(h)'
      <3> SUFFICES ASSUME adm[h].op = "rename" PROVE Read(h)'
        BY <2>1 DEF Read
      <3>1. teams'[adm[h].team] = teams[adm[h].team]
        BY <2>2, <2>3
      <3>2. ASSUME adm[h].asOf \in Succeeded \cup {0},
                   \A d \in Doctor : doctors[d].territory = adm[h].target.name =>
                     doctors[d].by > adm[h].asOf
            PROVE  /\ adm[h].asOf \in Succeeded' \cup {0}
                   /\ \A d \in Doctor : doctors'[d].territory = adm[h].target.name =>
                        doctors'[d].by > adm[h].asOf
        <4>1. r > adm[h].asOf
          BY <1>1, <3>2 DEF Run
        <4> QED
          BY <1>1, <3>2, <4>1, PromotedFacts
      <3> QED
        BY <2>1, <3>1, <3>2 DEF Read
    <2>6. Pending(h)'
      <3> SUFFICES ASSUME adm[h].phase = "commit" PROVE Pending(h)'
        BY <2>1 DEF Pending
      <3>1. /\ teams'[adm[h].team] = teams[adm[h].team]
            /\ adm[h].row = Written(teams[adm[h].team], adm[h].op, adm[h].name)
            /\ adm[h].op = "rename" => adm[h].target = teams[adm[h].team]
        BY <2>1, <2>2, <2>3 DEF Flow, Pending
      <3>2. adm[h].row.status = "active" =>
              {v \in Team : teams'[v].status = "active" /\ teams'[v].name = adm[h].row.name}
                \subseteq {adm[h].team}
        <4> SUFFICES ASSUME adm[h].row.status = "active", NEW v \in Team,
                            teams'[v].status = "active", teams'[v].name = adm[h].row.name
                     PROVE  v = adm[h].team
          OBVIOUS
        <4>1. ActiveWith(adm[h].row.name) \subseteq {adm[h].team}
          BY <2>1 DEF Pending
        <4>2. imp[p].made[v] = None
          <5>1. Reserved(p, v)
            BY DEF IInv
          <5> QED
            BY <5>1, PromotedTeams DEF Reserved
        <4>3. v \in ActiveWith(adm[h].row.name)
          BY <4>2, PromotedTeams DEF ActiveWith
        <4> QED
          BY <4>1, <4>3
      <3> QED
        BY <2>1, <3>1, <3>2 DEF Pending, Written, ActiveWith
    <2> QED
      BY <2>4, <2>5, <2>6
  <1>10. \A h, k \in Handler : h # k => Apart(h, k)'
    BY <1>2 DEF IInv, Apart
  <1>11. FactsKnown' /\ NamesUnique'
    BY PromotedFactsKnown, PromotedNames
  <1>12. ASSUME NEW s \in Run PROVE Shown(s)'
    <2>1. CASE s = r
      BY <2>1, PromotedShownNow
    <2>2. CASE s \in Succeeded
      BY <2>2, PromotedShownBefore
    <2>3. CASE s \notin Succeeded'
      BY <2>3 DEF Shown
    <2> QED
      BY <1>1, <2>1, <2>2, <2>3
  <1> QED
    BY <1>5, <1>6, <1>7, <1>8, <1>9, <1>10, <1>11, <1>12 DEF IInv

-----------------------------------------------------------------------------
(* Every step *)

LEMMA ImportInv ==
  ASSUME IInv, NEW p \in Importer, RunNightlyImport(p)
  PROVE  IInv'
  BY StartRunInv, StageAndValidateInv, InsertTeamInv, SelectTeamInv, PromoteInv, FailInv,
     RecordFailureInv DEF RunNightlyImport

LEMMA AdministerInv ==
  ASSUME IInv, NEW h \in Handler, Administer(h)
  PROVE  IInv'
  <1>1. ASSUME NEW t \in Team, NEW n \in Name, CreateTeam(h, t, n) \/ RenameTeam(h, t, n)
        PROVE  IInv'
    BY <1>1, BeginsInv
  <1>2. ASSUME NEW t \in Team, RemoveTeam(h, t) PROVE IInv'
    BY <1>2, RemoveTeamInv
  <1>3. CheckName(h) \/ CheckDoctors(h) \/ WriteTeam(h) \/ CommitEdit(h) \/ Rollback(h) => IInv'
    BY CheckNameInv, CheckDoctorsInv, WriteTeamInv, CommitEditInv, EndInv DEF Rollback
  <1> QED
    BY <1>1, <1>2, <1>3 DEF Administer

LEMMA NextInv == IInv /\ [Next]_vars => IInv'
  <1> SUFFICES ASSUME IInv, [Next]_vars PROVE IInv'
    OBVIOUS
  <1>1. CASE Next
    BY <1>1, ImportInv, AdministerInv DEF Next
  <1>2. CASE UNCHANGED vars
    <2>1. UNCHANGED <<teams, sales, brands, doctors, runs, staged, begun, imp, adm>>
      BY <1>2 DEF vars
    <2>2. TypeOK' /\ NamesUnique' /\ Concluded'
      BY <2>1 DEF IInv, TypeOK, NamesUnique, Concluded
    <2>3. \A p \in Importer : (Underway(p) /\ Resolved(p) /\ \A t \in Team : Reserved(p, t))'
      BY <2>1 DEF IInv, Underway, Holder, Resolved, Known, Reserved, ActiveWith
    <2>4. \A p, q \in Importer : p # q => OneNightAtATime(p, q)'
      BY <2>1 DEF IInv, OneNightAtATime, Holder
    <2>5. \A h \in Handler : (Flow(h) /\ Read(h) /\ Pending(h))'
      BY <2>1 DEF IInv, Flow, Read, Pending, Written, ActiveWith, Succeeded
    <2>6. \A h, k \in Handler : h # k => Apart(h, k)'
      BY <2>1 DEF IInv, Apart
    <2>7. FactsKnown'
      BY <2>1 DEF IInv, FactsKnown, Known, Succeeded
    <2>8. \A r \in Run : Shown(r)'
      <3>1. Succeeded' = Succeeded
        BY <2>1 DEF Succeeded
      <3> QED
        BY <2>1, <3>1, ShownKept DEF IInv
    <2> QED
      BY <2>2, <2>3, <2>4, <2>5, <2>6, <2>7, <2>8 DEF IInv
  <1> QED
    BY <1>1, <1>2

-----------------------------------------------------------------------------
(* Theorems *)

\* What holds at every moment between the statements of imports and edits: the
\* numbering of the runs, what an import has inserted and nobody else sees, what an
\* edit has read and written, and where the facts on record come from.
THEOREM InductiveInvariant == Spec => []IInv
  BY InitInv, NextInv, PTL DEF Spec

\* Tables, imports and edits keep their types: for any files, a commit writes only
\* amounts, ranks and territories that its files have.
THEOREM TypesHold == Spec => []TypeOK
  <1>1. IInv => TypeOK
    BY DEF IInv
  <1> QED
    BY <1>1, InductiveInvariant, PTL

\* A night is all or nothing (run_nightly_import, IngestionService.run): facts come
\* from runs on record as succeeded; such a run's rows are in every table, or newer
\* ones in their place, and its processed and rejected rows are the rows of its files.
THEOREM NightsAreWhole == Spec => []AllOrNothing
  <1>1. IInv => AllOrNothing
    <2> SUFFICES ASSUME IInv PROVE AllOrNothing
      OBVIOUS
    <2>1. FactsKnown /\ \A r \in Run : Shown(r)
      BY DEF IInv
    <2>2. \A k \in DOMAIN sales : sales[k].by \in Succeeded \cup {0}
      <3> SUFFICES ASSUME NEW k \in Date \X Team PROVE sales[k].by \in Succeeded \cup {0}
        BY DEF IInv, TypeOK
      <3>1. PICK d \in Date, t \in Team : k = <<d, t>>
        OBVIOUS
      <3> QED
        BY <2>1, <3>1 DEF FactsKnown
    <2>3. /\ \A b \in Brand : brands[b].by \in Succeeded \cup {0}
          /\ \A d \in Doctor : doctors[d].by \in Succeeded \cup {0}
      BY <2>1 DEF FactsKnown
    <2>4. ASSUME NEW r \in Succeeded
          PROVE  SalesShown(r) /\ BrandsShown(r) /\ DoctorsShown(r) /\ Counted(r)
      BY <2>1 DEF Shown, Succeeded
    <2> QED
      BY <2>2, <2>3, <2>4
      DEF AllOrNothing, SalesShown, BrandsShown, DoctorsShown, Counted, Valid, ValidDoctors
  <1> QED
    BY <1>1, InductiveInvariant, PTL

\* Concurrent imports and creations never split a name (get_or_create_by_name, under
\* the partial unique index): if two teams hold sales of one date under one name, one
\* of them has been renamed or removed since.
THEOREM EditsAloneDoubleCount == Spec => []OnlyTeamEditsDoubleCount
  <1>1. IInv => OnlyTeamEditsDoubleCount
    <2> SUFFICES ASSUME IInv, NEW d \in Date, NEW t \in Team, NEW u \in Team, t # u,
                        sales[<<d, t>>].name # None,
                        sales[<<d, t>>].name = sales[<<d, u>>].name
                 PROVE  \E e \in {t, u} : \/ teams[e].status = "inactive"
                                          \/ teams[e].name # sales[<<d, e>>].name
      BY DEF OnlyTeamEditsDoubleCount
    <2>1. teams[t] # NoTeam /\ teams[u] # NoTeam
      BY DEF IInv, FactsKnown, Known
    <2>2. teams[t].status \in {"active", "inactive"} /\ teams[u].status \in {"active", "inactive"}
      BY <2>1, Typed, Rows DEF IInv
    <2>3. NamesUnique
      BY DEF IInv
    <2> QED
      BY <2>2, <2>3 DEF NamesUnique
  <1> QED
    BY <1>1, InductiveInvariant, PTL

\* What orphans a doctor without an import is the commit of a rename that had looked
\* for doctors before the import that brought this one (RecipientDirectoryService's
\* rename, doctors.list_all): the check itself never lets one of them go.
THEOREM RenamesAloneOrphanDoctors == Spec => OnlyImportsOrphanDoctors
  <1>1. ASSUME IInv, [Next]_vars, NEW t \in Team, NEW d \in Doctor,
               d \in VisitList(t) \ VisitList(t)', UNCHANGED doctors
        PROVE  \E h \in Handler :
                 /\ adm[h].op = "rename" /\ adm[h].team = t /\ adm'[h] = NoEdit
                 /\ doctors[d].by > adm[h].asOf
    <2>1. /\ doctors[d].by > 0 /\ doctors[d].territory = teams[t].name
          /\ teams'[t].name # teams[t].name
      BY <1>1 DEF VisitList, Territory
    <2>2. teams[t] # NoTeam
      <3>1. doctors[d].territory \in Name
        BY <1>1, <2>1 DEF IInv, FactsKnown
      <3> QED
        BY <2>1, <3>1, NightlyImportAssumption DEF NoTeam
    <2>3. ASSUME NEW p \in Importer, Promote(p) PROVE FALSE
      BY <1>1, <2>1, <2>2, <2>3, PromotedTeams
    <2>4. PICK h \in Handler : CommitEdit(h)
      <3>1. ASSUME UNCHANGED teams PROVE FALSE
        BY <2>1, <3>1
      <3>2. ASSUME NEW p \in Importer, RunNightlyImport(p) PROVE FALSE
        BY <2>3, <3>1, <3>2 DEF RunNightlyImport, StartRun, StageAndValidate, InsertTeam,
           SelectTeam, Fail, RecordFailure, Crash
      <3>3. ASSUME NEW h \in Handler, Administer(h), ~CommitEdit(h) PROVE FALSE
        BY <3>1, <3>3 DEF Administer, CreateTeam, RenameTeam, RemoveTeam, Begin, End,
           CheckName, CheckDoctors, WriteTeam, Rollback
      <3> QED
        BY <1>1, <3>1, <3>2, <3>3 DEF Next, vars
    <2>5. /\ adm[h].phase = "commit" /\ teams' = [teams EXCEPT ![adm[h].team] = adm[h].row]
          /\ adm' = [adm EXCEPT ![h] = NoEdit]
      BY <2>4 DEF CommitEdit
    <2>6. adm[h].team = t /\ adm[h].row.name # teams[t].name
      BY <1>1, <2>1, <2>5 DEF IInv, TypeOK
    <2>7. adm[h] \in Edit /\ Flow(h) /\ Read(h) /\ Pending(h)
      BY <1>1, Typed DEF IInv
    <2>8. adm[h].op = "rename"
      <3>1. adm[h].op \in {"create", "rename", "remove"} /\ adm[h].op # "create"
        BY <2>2, <2>5, <2>6, <2>7, EditFields DEF Flow
      <3>2. adm[h].op = "remove" => adm[h].row.name = teams[t].name
        BY <1>1, <2>5, <2>6, <2>7, <3>1, WritesARow DEF Pending
      <3> QED
        BY <2>6, <3>1, <3>2
    <2>9. adm[h].target = teams[t] /\ adm[h].row.name = adm[h].name
      BY <1>1, <2>5, <2>6, <2>7, <2>8, WritesARow DEF Pending
    <2>10. doctors[d].by > adm[h].asOf
      BY <2>1, <2>5, <2>6, <2>7, <2>8, <2>9 DEF Read
    <2>11. adm'[h] = NoEdit
      BY <1>1, <2>5 DEF IInv, TypeOK
    <2> QED
      BY <2>6, <2>8, <2>10, <2>11
  <1>2. IInv /\ [Next]_vars =>
          [\A t \in Team, d \in Doctor :
             d \in VisitList(t) \ VisitList(t)' /\ UNCHANGED doctors
             => \E h \in Handler :
                  /\ adm[h].op = "rename" /\ adm[h].team = t /\ adm'[h] = NoEdit
                  /\ doctors[d].by > adm[h].asOf]_vars
    BY <1>1
  <1> QED
    BY <1>2, InductiveInvariant, PTL DEF OnlyImportsOrphanDoctors, Spec
=============================================================================
