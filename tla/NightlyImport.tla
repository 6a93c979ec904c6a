---------------------------- MODULE NightlyImport ----------------------------
(***************************************************************************)
(* The nightly import (domain/ingestion.py, scheduler/main.py) beside the  *)
(* Administrators who create, rename and remove the teams it resolves      *)
(* (domain/recipients.py, adapters/persistence/teams.py).  An import is    *)
(* one transaction at READ COMMITTED: its teams, staging rows and facts    *)
(* become visible together, at its commit.                                 *)
(***************************************************************************)
EXTENDS Integers, Sequences, FiniteSets

CONSTANTS
  Team,       \* teams rows, by id
  Name,       \* team names, which are also the doctors' territories
  Date,
  Brand,
  Doctor,
  Importer,   \* scheduler processes
  Handler,    \* request handlers that edit teams
  Batch,      \* contents of the three files of the Source System
  None,       \* SQL NULL, or no such row
  MaxRuns,    \* bound: imports that get the lock
  MaxVersion  \* bound: no team row is written beyond this version

\* Amounts and percentages are decimals of any precision (Numeric columns): each is
\* counted in a unit small enough for all of the data, the one in some fraction of a
\* taka, the other in some fraction of a percent.
Amount == Nat
Pct == Int

\* `valid`: the row's validator finds nothing.  `extra`: columns of a doctor's
\* row that are not expected: none, a named one, or one beyond the header.
SalesRow == [date: Date, team: Name, amount: Amount, pct: Pct,
             valid: BOOLEAN]
BrandRow == [brand: Brand, rank: Nat, growth: Pct, valid: BOOLEAN]
DoctorRow == [doctor: Doctor, territory: Name, valid: BOOLEAN,
              extra: {"none", "named", "unnamed"}]

ASSUME NightlyImportAssumption ==
  /\ None \notin Team \cup Name \cup Batch
  /\ Batch \subseteq [sales: Seq(SalesRow), brands: Seq(BrandRow),
                      doctors: Seq(DoctorRow)]
  /\ MaxRuns \in Nat /\ MaxVersion \in Nat \ {0}

Run == 1..MaxRuns

VARIABLES
  teams,    \* committed rows of teams
  sales,    \* committed rows of sales_data, by (date, team_id)
  brands,   \* committed rows of brand_performance
  doctors,  \* committed rows of doctors
  runs,     \* committed rows of import_runs
  staged,   \* committed staging rows, by run
  begun,    \* imports that got the lock; each is numbered by its start
  imp,      \* the import of each scheduler process
  adm       \* the transaction of each handler

facts == <<sales, brands, doctors>>
vars == <<teams, sales, brands, doctors, runs, staged, begun, imp, adm>>

-----------------------------------------------------------------------------
(* Types *)

NoTeam == [status |-> "absent", name |-> None, version |-> 0]

TeamRow == {NoTeam} \cup
  [status: {"active", "inactive"}, name: Name, version: 1..MaxVersion]

\* `by` is the run that wrote a fact, `name` the team's name in its file.
Fact == [amount: Amount, pct: Pct, name: Name \cup {None}, by: Run \cup {0}]
NoFact == [amount |-> 0, pct |-> 0, name |-> None, by |-> 0]

RunRow == [status: {"none", "succeeded", "failed"}, processed: Nat, rejected: Nat]
NoRun == [status |-> "none", processed |-> 0, rejected |-> 0]

\* `made`: teams this import created; `cache`: team_cache; `name`: the name that
\* has been inserted and not selected yet.
Import == [phase: {"idle", "fetch", "resolve", "failed"}, run: Run \cup {0},
           batch: Batch \cup {None}, cache: [Name -> Team \cup {None}],
           made: [Team -> Name \cup {None}], name: Name \cup {None}]

NoImport == [phase |-> "idle", run |-> 0, batch |-> None,
             cache |-> [n \in Name |-> None], made |-> [t \in Team |-> None],
             name |-> None]

\* `target` is the row as get_by_id returned it, `asOf` the last run committed
\* when the doctors were listed.
Edit == [op: {"none", "create", "rename", "remove"},
         phase: {"idle", "name", "doctors", "write", "commit"},
         team: Team \cup {None}, name: Name \cup {None}, target: TeamRow,
         row: TeamRow, asOf: Run \cup {0}]

NoEdit == [op |-> "none", phase |-> "idle", team |-> None, name |-> None,
           target |-> NoTeam, row |-> NoTeam, asOf |-> 0]

TypeOK ==
  /\ teams \in [Team -> TeamRow]
  /\ sales \in [Date \X Team -> Fact]
  /\ brands \in [Brand -> [rank: Nat, growth: Pct, by: Run \cup {0}]]
  /\ doctors \in [Doctor -> [territory: Name \cup {None}, by: Run \cup {0}]]
  /\ runs \in [Run -> RunRow]
  /\ staged \in [Run -> Batch \cup {None}]
  /\ begun \in 0..MaxRuns
  /\ imp \in [Importer -> Import]
  /\ adm \in [Handler -> Edit]

Init ==
  /\ teams = [t \in Team |-> NoTeam]
  /\ sales = [k \in Date \X Team |-> NoFact]
  /\ brands = [b \in Brand |-> [rank |-> 0, growth |-> 0, by |-> 0]]
  /\ doctors = [d \in Doctor |-> [territory |-> None, by |-> 0]]
  /\ runs = [r \in Run |-> NoRun]
  /\ staged = [r \in Run |-> None]
  /\ begun = 0
  /\ imp = [p \in Importer |-> NoImport]
  /\ adm = [h \in Handler |-> NoEdit]

-----------------------------------------------------------------------------
(* Teams: what is visible, what waits *)

\* get_by_name, and the partial unique index on teams.name.
ActiveWith(n) == {t \in Team : teams[t].status = "active" /\ teams[t].name = n}

LastOf(S) == CHOOSE i \in S : \A j \in S : j <= i

Succeeded == {r \in Run : runs[r].status = "succeeded"}

\* get_last_successful_completed_at: commits are in the order of the runs.
LastSuccess == IF Succeeded = {} THEN 0 ELSE LastOf(Succeeded)

Unused(t) ==
  /\ teams[t] = NoTeam
  /\ \A p \in Importer : imp[p].made[t] = None
  /\ \A h \in Handler : adm[h].team # t

\* h's open transaction adds or replaces the index entry of name n.
EditHolds(h, n) ==
  /\ adm[h].phase = "commit"
  /\ \/ adm[h].team \in ActiveWith(n)
     \/ adm[h].row.status = "active" /\ adm[h].row.name = n

\* resolve_territories: a removed team keeps its name and its recipients.
Territory(t) == teams[t].name

\* get_visit_list: the doctors that the Daily Report names to a team's recipients.
VisitList(t) == {d \in Doctor : doctors[d].by > 0 /\ doctors[d].territory = Territory(t)}

ImportHolds(p, n) == \E t \in Team : imp[p].made[t] = n

-----------------------------------------------------------------------------
(* The import *)

\* pg_try_advisory_xact_lock: an import that does not get it is skipped.
LockHeld == \E p \in Importer : imp[p].phase \in {"fetch", "resolve"}

\* The lock, and the RUNNING row that no other transaction will see.
StartRun(p) ==
  /\ imp[p].phase = "idle"
  /\ ~LockHeld
  /\ begun < MaxRuns
  /\ begun' = begun + 1
  /\ imp' = [imp EXCEPT ![p] = [NoImport EXCEPT !.phase = "fetch", !.run = begun + 1]]
  /\ UNCHANGED <<teams, facts, runs, staged, adm>>

\* The rows that pass, by their positions in the file.
Valid(rows) == {i \in DOMAIN rows : rows[i].valid}

ValidDoctors(rows) == {i \in Valid(rows) : rows[i].extra = "none"}

\* ", ".join over the extra columns raises on the unnamed one.
Unreadable(batch) ==
  \E i \in Valid(batch.doctors) : batch.doctors[i].extra = "unnamed"

\* fetch_batch, stage, and the validation of every staged row.
StageAndValidate(p, batch) ==
  /\ imp[p].phase = "fetch"
  /\ ~Unreadable(batch)
  /\ imp' = [imp EXCEPT ![p].phase = "resolve", ![p].batch = batch]
  /\ UNCHANGED <<teams, facts, runs, staged, begun, adm>>

\* Names of the valid sales rows that team_cache does not have yet.
Unresolved(p) ==
  LET rows == imp[p].batch.sales
  IN {n \in Name : imp[p].cache[n] = None /\ \E i \in Valid(rows) : rows[i].team = n}

BugNoTeamIndex(p, n, t) ==
  /\ imp[p].phase = "resolve"
  /\ imp[p].name = None
  /\ n \in Unresolved(p)
  /\ imp' = [imp EXCEPT ![p].name = n, ![p].made[t] = IF ActiveWith(n) = {} THEN n ELSE @]
  /\ UNCHANGED <<teams, facts, runs, staged, begun, adm>>

\* get_or_create_by_name: INSERT ... ON CONFLICT DO NOTHING, which waits for an
\* open transaction that is changing the entry.
InsertTeam(p, n, t) ==
  /\ imp[p].phase = "resolve"
  /\ imp[p].name = None
  /\ n \in Unresolved(p)
  /\ \A h \in Handler : ~EditHolds(h, n)
  /\ imp' = [imp EXCEPT ![p].name = n, ![p].made[t] = IF ActiveWith(n) = {} THEN n ELSE @]
  /\ UNCHANGED <<teams, facts, runs, staged, begun, adm>>

\* ... then a SELECT of the active team of that name, its own or a committed one.
SelectTeam(p, t) ==
  LET n == imp[p].name
  IN /\ n # None
     /\ t \in ActiveWith(n) \/ imp[p].made[t] = n
     /\ imp' = [imp EXCEPT ![p].name = None, ![p].cache[n] = t]
     /\ UNCHANGED <<teams, facts, runs, staged, begun, adm>>

\* sales_data.upsert_many, by (date, team_id): the last row with a key wins, and
\* without one the old fact stays.
SalesOf(p, k) ==
  LET rows == imp[p].batch.sales
  IN {i \in Valid(rows) : rows[i].date = k[1] /\ imp[p].cache[rows[i].team] = k[2]}

UpsertedSales(p) ==
  [k \in Date \X Team |->
     LET row == imp[p].batch.sales[LastOf(SalesOf(p, k))]
     IN IF SalesOf(p, k) = {} THEN sales[k]
        ELSE [amount |-> row.amount, pct |-> row.pct, name |-> row.team,
              by |-> imp[p].run]]

\* brand_performance.upsert_many, by external_brand_id.
RanksOf(p, b) ==
  LET rows == imp[p].batch.brands IN {i \in Valid(rows) : rows[i].brand = b}

UpsertedBrands(p) ==
  [b \in Brand |->
     LET row == imp[p].batch.brands[LastOf(RanksOf(p, b))]
     IN IF RanksOf(p, b) = {} THEN brands[b]
        ELSE [rank |-> row.rank, growth |-> row.growth, by |-> imp[p].run]]

\* doctors.upsert_many, by external_doctor_id.
VisitsOf(p, d) ==
  LET rows == imp[p].batch.doctors IN {i \in ValidDoctors(rows) : rows[i].doctor = d}

UpsertedDoctors(p) ==
  [d \in Doctor |->
     LET row == imp[p].batch.doctors[LastOf(VisitsOf(p, d))]
     IN IF VisitsOf(p, d) = {} THEN doctors[d]
        ELSE [territory |-> row.territory, by |-> imp[p].run]]

\* Every row counts, also those that repeat a key and are dropped by an upsert.
Processed(p) ==
  LET batch == imp[p].batch
  IN Cardinality(Valid(batch.sales)) + Cardinality(Valid(batch.brands))
       + Cardinality(ValidDoctors(batch.doctors))

Rejected(p) ==
  LET batch == imp[p].batch
      Bad(rows) == Cardinality(DOMAIN rows \ Valid(rows))
      named == {i \in Valid(batch.doctors) : batch.doctors[i].extra = "named"}
  IN Bad(batch.sales) + Bad(batch.brands) + Bad(batch.doctors) + Cardinality(named)

\* The upserts, mark_succeeded and the job's commit: they write rows that the lock
\* keeps other imports away from, and take effect together.
Promote(p) ==
  /\ imp[p].phase = "resolve"
  /\ imp[p].name = None
  /\ Unresolved(p) = {}
  /\ sales' = UpsertedSales(p)
  /\ brands' = UpsertedBrands(p)
  /\ doctors' = UpsertedDoctors(p)
  /\ teams' = [t \in Team |->
       IF imp[p].made[t] = None THEN teams[t]
       ELSE [status |-> "active", name |-> imp[p].made[t], version |-> 1]]
  /\ staged' = [staged EXCEPT ![imp[p].run] = imp[p].batch]
  /\ runs' = [runs EXCEPT ![imp[p].run] =
       [status |-> "succeeded", processed |-> Processed(p), rejected |-> Rejected(p)]]
  /\ imp' = [imp EXCEPT ![p] = NoImport]
  /\ UNCHANGED <<begun, adm>>

BugKeepsTheTransaction(p) ==
  /\ imp[p].phase \in {"fetch", "resolve"}
  /\ sales' = IF imp[p].phase = "resolve" /\ Unresolved(p) = {}
              THEN UpsertedSales(p) ELSE sales
  /\ imp' = [imp EXCEPT ![p] = [NoImport EXCEPT !.phase = "failed", !.run = imp[p].run]]
  /\ UNCHANGED <<teams, brands, doctors, runs, staged, begun, adm>>

\* Any statement or conversion raises; mark_failed rolls everything back.
Fail(p) ==
  /\ imp[p].phase \in {"fetch", "resolve"}
  /\ imp' = [imp EXCEPT ![p] = [NoImport EXCEPT !.phase = "failed", !.run = imp[p].run]]
  /\ UNCHANGED <<teams, facts, runs, staged, begun, adm>>

\* ... and commits the FAILED row in a transaction of its own, without the lock.
RecordFailure(p) ==
  /\ imp[p].phase = "failed"
  /\ runs' = [runs EXCEPT ![imp[p].run].status = "failed"]
  /\ imp' = [imp EXCEPT ![p] = NoImport]
  /\ UNCHANGED <<teams, facts, staged, begun, adm>>

\* The scheduler's process is lost, and with it the open transaction.
Crash(p) ==
  /\ imp[p].phase # "idle"
  /\ imp' = [imp EXCEPT ![p] = NoImport]
  /\ UNCHANGED <<teams, facts, runs, staged, begun, adm>>

-----------------------------------------------------------------------------
(* Administrators edit teams *)

Begin(h, edit) ==
  /\ adm[h].phase = "idle"
  /\ adm' = [adm EXCEPT ![h] = edit]
  /\ UNCHANGED <<teams, facts, runs, staged, begun, imp>>

End(h) ==
  /\ adm' = [adm EXCEPT ![h] = NoEdit]
  /\ UNCHANGED <<teams, facts, runs, staged, begun, imp>>

CreateTeam(h, t, n) ==
  /\ Unused(t)
  /\ Begin(h, [NoEdit EXCEPT !.op = "create", !.phase = "name", !.team = t, !.name = n])

\* A form older than the row ends here, with VersionConflict.
RenameTeam(h, t, n) ==
  /\ teams[t].status # "absent"
  /\ Begin(h, [NoEdit EXCEPT !.op = "rename", !.phase = "name", !.team = t,
                             !.name = n, !.target = teams[t]])

RemoveTeam(h, t) ==
  /\ teams[t].status # "absent"
  /\ Begin(h, [NoEdit EXCEPT !.op = "remove", !.phase = "write", !.team = t,
                             !.target = teams[t]])

\* get_by_name: TeamNameTaken.
CheckName(h) ==
  /\ adm[h].phase = "name"
  /\ \/ /\ ActiveWith(adm[h].name) \subseteq {adm[h].team}
        /\ adm' = [adm EXCEPT ![h].phase =
             IF adm[h].op = "rename" /\ adm[h].name # adm[h].target.name
             THEN "doctors" ELSE "write"]
        /\ UNCHANGED <<teams, facts, runs, staged, begun, imp>>
     \/ ~(ActiveWith(adm[h].name) \subseteq {adm[h].team}) /\ End(h)

BugChecksTheNewName(h) ==
  /\ adm[h].phase = "doctors"
  /\ \/ /\ \A d \in Doctor : doctors[d].territory # adm[h].name
        /\ adm' = [adm EXCEPT ![h].phase = "write", ![h].asOf = LastSuccess]
        /\ UNCHANGED <<teams, facts, runs, staged, begun, imp>>
     \/ /\ \E d \in Doctor : doctors[d].territory = adm[h].name
        /\ End(h)

\* TeamRenameBreaksTerritoryMapping, if a doctor has the old name as territory.
CheckDoctors(h) ==
  /\ adm[h].phase = "doctors"
  /\ \/ /\ \A d \in Doctor : doctors[d].territory # adm[h].target.name
        /\ adm' = [adm EXCEPT ![h].phase = "write", ![h].asOf = LastSuccess]
        /\ UNCHANGED <<teams, facts, runs, staged, begun, imp>>
     \/ /\ \E d \in Doctor : doctors[d].territory = adm[h].target.name
        /\ End(h)

BugCreatesVersionZero(row, op, n) ==
  CASE op = "create" -> [NoTeam EXCEPT !.status = "active", !.name = n]
    [] op = "rename" -> [row EXCEPT !.name = n, !.version = @ + 1]
    [] op = "remove" -> [row EXCEPT !.status = "inactive", !.version = @ + 1]

Written(row, op, n) ==
  CASE op = "create" -> [status |-> "active", name |-> n, version |-> 1]
    [] op = "rename" -> [row EXCEPT !.name = n, !.version = @ + 1]
    [] op = "remove" -> [row EXCEPT !.status = "inactive", !.version = @ + 1]

\* Another's open transaction wrote this row.
RowIsFree(h) ==
  \A k \in Handler \ {h} : ~(adm[k].phase = "commit" /\ adm[k].team = adm[h].team)

\* INSERT, or UPDATE ... WHERE id = t [AND version = v], once the row and the
\* index entry are free; a duplicate name rolls the transaction back.
WriteTeam(h) ==
  LET edit == adm[h]
      row == Written(teams[edit.team], edit.op, edit.name)
      stale == edit.op = "rename" /\ teams[edit.team].version # edit.target.version
      taken == /\ row.status = "active"
               /\ ~(ActiveWith(row.name) \subseteq {edit.team})
  IN /\ edit.phase = "write"
     /\ RowIsFree(h)
     /\ row.status = "active" =>
          /\ \A k \in Handler \ {h} : ~EditHolds(k, row.name)
          /\ \A p \in Importer : ~ImportHolds(p, row.name)
     /\ \/ (stale \/ taken) /\ End(h)
        \/ /\ ~stale /\ ~taken
           /\ row.version <= MaxVersion
           /\ adm' = [adm EXCEPT ![h].phase = "commit", ![h].row = row]
           /\ UNCHANGED <<teams, facts, runs, staged, begun, imp>>

CommitEdit(h) ==
  /\ adm[h].phase = "commit"
  /\ teams' = [teams EXCEPT ![adm[h].team] = adm[h].row]
  /\ adm' = [adm EXCEPT ![h] = NoEdit]
  /\ UNCHANGED <<facts, runs, staged, begun, imp>>

Rollback(h) == adm[h].phase # "idle" /\ End(h)

-----------------------------------------------------------------------------

RunNightlyImport(p) ==
  \/ StartRun(p)
  \/ \E batch \in Batch : StageAndValidate(p, batch)
  \/ \E n \in Name, t \in Team :
       (ActiveWith(n) = {} => Unused(t)) /\ InsertTeam(p, n, t)
  \/ \E t \in Team : SelectTeam(p, t)
  \/ Promote(p)
  \/ Fail(p)
  \/ RecordFailure(p)
  \/ Crash(p)

Administer(h) ==
  \/ \E t \in Team, n \in Name : CreateTeam(h, t, n) \/ RenameTeam(h, t, n)
  \/ \E t \in Team : RemoveTeam(h, t)
  \/ CheckName(h)
  \/ CheckDoctors(h)
  \/ WriteTeam(h)
  \/ CommitEdit(h)
  \/ Rollback(h)

Next == (\E p \in Importer : RunNightlyImport(p)) \/ (\E h \in Handler : Administer(h))

Spec == Init /\ [][Next]_vars

-----------------------------------------------------------------------------
(* Properties *)

\* A night is all or nothing: a run on record as succeeded has its facts in every
\* table, or newer ones in their place, and counts each row of its files once; no
\* other run has left a fact.
AllOrNothing ==
  /\ \A k \in DOMAIN sales : sales[k].by \in Succeeded \cup {0}
  /\ \A b \in Brand : brands[b].by \in Succeeded \cup {0}
  /\ \A d \in Doctor : doctors[d].by \in Succeeded \cup {0}
  /\ \A r \in Succeeded :
       LET batch == staged[r]
       IN /\ \A i \in DOMAIN batch.sales :
               batch.sales[i].valid =>
                 \E t \in Team :
                   LET fact == sales[<<batch.sales[i].date, t>>]
                   IN /\ fact.by >= r
                      /\ fact.name = batch.sales[i].team \/ teams[t].version > 1
          /\ \A i \in DOMAIN batch.brands :
               batch.brands[i].valid => brands[batch.brands[i].brand].by >= r
          /\ \A i \in DOMAIN batch.doctors :
               batch.doctors[i].valid /\ batch.doctors[i].extra = "none"
                 => doctors[batch.doctors[i].doctor].by >= r
          /\ runs[r].processed + runs[r].rejected =
               Len(batch.sales) + Len(batch.brands) + Len(batch.doctors)

\* "a re-run of the same night's import (or a corrected re-import) must refresh
\* values" (sales_data.py): what the source says of a date and a name is there once,
\* however often it is imported, unless one of the two teams that hold it has been
\* renamed or removed: concurrent imports and creations never split a name.
OnlyTeamEditsDoubleCount ==
  \A d \in Date : \A t, u \in Team :
    /\ t # u
    /\ sales[<<d, t>>].name # None
    /\ sales[<<d, t>>].name = sales[<<d, u>>].name
    => \E e \in {t, u} : teams[e].status = "inactive" \/ teams[e].name # sales[<<d, e>>].name

\* A doctor drops out of a team's visit list, without an import, only when a rename
\* commits that had listed the doctors before the import which brought this one.
OnlyImportsOrphanDoctors ==
  [][\A t \in Team, d \in Doctor :
       d \in VisitList(t) \ VisitList(t)' /\ UNCHANGED doctors
       => \E h \in Handler :
            /\ adm[h].op = "rename" /\ adm[h].team = t /\ adm'[h] = NoEdit
            /\ doctors[d].by > adm[h].asOf]_vars
=============================================================================
