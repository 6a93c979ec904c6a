--------------------------- MODULE DashboardProofs ---------------------------
(***************************************************************************)
(* Proofs about Dashboard, for any imports, amounts and dates: the sums    *)
(* and the latest rows of a summary are what the source says, the headline *)
(* is a mean of the teams' percentages, and the "Data as of" badge names   *)
(* the last import that a figure comes from, or a later one; and for any   *)
(* brands: the three lists are what classify_brands promises.              *)
(***************************************************************************)
EXTENDS Dashboard, NightlyImportProofs, TotalsProofs

-----------------------------------------------------------------------------
(* The inductive invariant *)

\* What a summary has read comes from runs that succeeded; the badge is read last.
Stamped ==
  /\ board.newest \in Succeeded \cup {0}
  /\ board.phase = "done" => board.newest <= board.asOf

\* The valid rows of a sales file for date d and name n.
RowsFor(d, n, rows) == {i \in Valid(rows) : rows[i].date = d /\ rows[i].team = n}

\* A fact is the last of a file's rows for its date and its name.
IsLastRow(fact, d, rows) ==
  /\ fact.name \in Name
  /\ RowsFor(d, fact.name, rows) # {}
  /\ fact.amount = rows[LastOf(RowsFor(d, fact.name, rows))].amount
  /\ fact.pct = rows[LastOf(RowsFor(d, fact.name, rows))].pct

SourcedFact(d, t) ==
  sales[<<d, t>>].by > 0 => IsLastRow(sales[<<d, t>>], d, staged[sales[<<d, t>>].by].sales)

Sourced == \A d \in Date, t \in Team : SourcedFact(d, t)

\* A team at its first version has been created and not removed.
CreatedActive == \A t \in Team : teams[t].version = 1 => teams[t].status = "active"

\* The headline is computed from the rows read with it.
Headed == IsFiniteSet(board.rows) /\ board.headline = AggregateCompanyWide(board.rows)

\* A reading that no import has overtaken has the sums and the latest rows that the
\* facts still have.
Fresh ==
  /\ board.since \in Succeeded \cup {0}
  /\ board.since = LastSuccess =>
       /\ board.phase # "idle" => board.today = SumAmountInRange(Today, Today)
       /\ board.phase \in {"mtd", "latest", "asOf", "done"} =>
            board.ytd = SumAmountInRange(YearStart, Today)
       /\ board.phase \in {"latest", "asOf", "done"} =>
            board.mtd = SumAmountInRange(MonthStart, Today)
       /\ board.phase \in {"asOf", "done"} => board.rows = LatestRows

BoardInv ==
  /\ IInv
  /\ BoardTypeOK
  /\ Stamped
  /\ Sourced
  /\ CreatedActive
  /\ Headed
  /\ Fresh

-----------------------------------------------------------------------------
(* Who commits, and what *)

\* Who commits facts, and who commits teams.
LEMMA Writers ==
  ASSUME [Next]_vars
  PROVE  /\ \/ UNCHANGED <<sales, staged, runs>>
            \/ UNCHANGED <<sales, staged>> /\ \E p \in Importer : RecordFailure(p)
            \/ \E p \in Importer : Promote(p)
         /\ \/ UNCHANGED teams
            \/ \E p \in Importer : Promote(p)
            \/ \E h \in Handler : CommitEdit(h)
  <1>1. ASSUME NEW p \in Importer, RunNightlyImport(p)
        PROVE  \/ UNCHANGED <<sales, staged, runs, teams>>
               \/ UNCHANGED <<sales, staged, teams>> /\ RecordFailure(p)
               \/ Promote(p)
    BY <1>1 DEF RunNightlyImport, StartRun, StageAndValidate, InsertTeam, SelectTeam, Fail,
       RecordFailure, Crash, facts
  <1>2. ASSUME NEW h \in Handler, Administer(h)
        PROVE  UNCHANGED <<sales, staged, runs>> /\ (UNCHANGED teams \/ CommitEdit(h))
    <2>1. ASSUME NEW t \in Team, NEW n \in Name, CreateTeam(h, t, n) \/ RenameTeam(h, t, n)
          PROVE  UNCHANGED <<sales, staged, runs, teams>>
      BY <2>1 DEF CreateTeam, RenameTeam, Begin, facts
    <2>2. ASSUME NEW t \in Team, RemoveTeam(h, t) PROVE UNCHANGED <<sales, staged, runs, teams>>
      BY <2>2 DEF RemoveTeam, Begin, facts
    <2>3. CheckName(h) \/ CheckDoctors(h) => UNCHANGED <<sales, staged, runs, teams>>
      BY DEF CheckName, CheckDoctors, End, facts
    <2>4. WriteTeam(h) \/ Rollback(h) => UNCHANGED <<sales, staged, runs, teams>>
      BY DEF WriteTeam, Rollback, End, facts
    <2>5. CommitEdit(h) => UNCHANGED <<sales, staged, runs>>
      BY DEF CommitEdit, facts
    <2> QED
      BY <1>2, <2>1, <2>2, <2>3, <2>4, <2>5 DEF Administer
  <1>3. UNCHANGED vars => UNCHANGED <<sales, staged, runs, teams>>
    BY DEF vars
  <1> QED
    BY <1>1, <1>2, <1>3 DEF Next

\* The fact that an import puts on record is the last row of its date and name: rows of
\* the same name are resolved to the same team.
LEMMA PromotedSource ==
  ASSUME IInv, NEW p \in Importer, Promote(p), NEW d \in Date, NEW t \in Team,
         SourcedFact(d, t)
  PROVE  SourcedFact(d, t)'
  <1> DEFINE r == imp[p].run
             batch == imp[p].batch
             S == SalesOf(p, <<d, t>>)
  <1>1. /\ batch \in Batch /\ r \in Nat /\ r > 0 /\ staged'[r] = batch
        /\ \A s \in Run \ {r} : staged'[s] = staged[s]
        /\ r \notin Succeeded
    BY PromotedRun DEF Run
  <1>2. sales[<<d, t>>].by \in Succeeded \cup {0}
    BY DEF IInv, FactsKnown
  <1>3. CASE S = {}
    <2>1. sales'[<<d, t>>] = sales[<<d, t>>]
      BY <1>3 DEF Promote, UpsertedSales
    <2> SUFFICES ASSUME sales[<<d, t>>].by > 0 PROVE SourcedFact(d, t)'
      BY <2>1 DEF SourcedFact
    <2>2. staged'[sales[<<d, t>>].by] = staged[sales[<<d, t>>].by]
      BY <1>1, <1>2 DEF Succeeded
    <2> QED
      BY <2>1, <2>2 DEF SourcedFact
  <1>4. CASE S # {}
    <2> DEFINE rows == batch.sales
               i == LastOf(S)
               n == rows[i].team
    <2>1. rows \in Seq(SalesRow) /\ S \subseteq Valid(rows) /\ S \subseteq DOMAIN rows
      BY <1>1, BatchRows DEF SalesOf, Valid
    <2>2. i \in S /\ \A j \in S : j <= i
      <3>1. S \subseteq 1..Len(rows) /\ Len(rows) \in Nat
        BY <2>1
      <3> HIDE DEF S, rows
      <3> QED
        BY <1>4, <3>1, LastIs
    <2>3. sales'[<<d, t>>] = [amount |-> rows[i].amount, pct |-> rows[i].pct, name |-> n, by |-> r]
      BY <1>4 DEF Promote, UpsertedSales
    <2>4. S = {j \in Valid(rows) : rows[j].date = d /\ imp[p].cache[rows[j].team] = t}
      BY DEF SalesOf
    <2> DEFINE T == RowsFor(d, n, rows)
    <2> HIDE DEF S, rows, i
    <2>5. n \in Name
      <3>1. rows[i] \in SalesRow
        BY <2>1, <2>2
      <3> QED
        BY <3>1 DEF SalesRow
    <2>6. i \in T /\ T \subseteq S
      BY <2>2, <2>4 DEF RowsFor
    <2>7. LastOf(T) = i
      <3>1. \A j \in T : j \in Int /\ j <= i
        BY <2>1, <2>2, <2>6
      <3>2. \A k : k \in T /\ (\A j \in T : j <= k) => k = i
        BY <2>6, <3>1
      <3> HIDE DEF T
      <3> QED
        BY <2>6, <3>1, <3>2 DEF LastOf
    <2> DEFINE fact == [amount |-> rows[i].amount, pct |-> rows[i].pct, name |-> n, by |-> r]
    <2>8. /\ fact.by = r /\ fact.name = n
          /\ fact.amount = rows[i].amount /\ fact.pct = rows[i].pct
      OBVIOUS
    <2>9. sales'[<<d, t>>] = fact /\ staged'[fact.by].sales = rows
      BY <1>1, <2>3, <2>8 DEF rows
    <2> HIDE DEF n, fact
    <2>10. IsLastRow(fact, d, rows)
      BY <2>5, <2>6, <2>7, <2>8 DEF IsLastRow
    <2> QED
      BY <2>9, <2>10 DEF SourcedFact
  <1> QED
    BY <1>3, <1>4

\* Every step keeps the facts on record the last rows of their files.
LEMMA SourcedInv == ASSUME IInv, Sourced, [Next]_vars PROVE Sourced'
  <1>1. CASE UNCHANGED <<sales, staged>>
    BY <1>1 DEF Sourced, SourcedFact
  <1>2. CASE \E p \in Importer : Promote(p)
    BY <1>2, PromotedSource DEF Sourced
  <1> QED
    BY <1>1, <1>2, Writers

\* Imports and Administrators create teams active; every other write raises the version.
LEMMA CreatedActiveInv == ASSUME IInv, CreatedActive, [Next]_vars PROVE CreatedActive'
  <1>1. CASE UNCHANGED teams
    BY <1>1 DEF CreatedActive
  <1>2. ASSUME NEW p \in Importer, Promote(p) PROVE CreatedActive'
    <2>1. ASSUME NEW t \in Team, imp[p].made[t] # None PROVE teams'[t].status = "active"
      BY <1>2, <2>1, PromotedTeams
    <2>2. ASSUME NEW t \in Team, imp[p].made[t] = None PROVE teams'[t] = teams[t]
      BY <1>2, <2>2, PromotedTeams
    <2> QED
      BY <2>1, <2>2 DEF CreatedActive
  <1>3. ASSUME NEW h \in Handler, CommitEdit(h) PROVE CreatedActive'
    <2>1. /\ adm[h].phase = "commit" /\ teams' = [teams EXCEPT ![adm[h].team] = adm[h].row]
      BY <1>3 DEF CommitEdit
    <2>2. /\ Flow(h) /\ Pending(h) /\ adm[h] \in Edit /\ adm[h].op # "none"
      BY <2>1, Typed DEF IInv, Flow
    <2>3. adm[h].row = Written(teams[adm[h].team], adm[h].op, adm[h].name)
      BY <2>1, <2>2 DEF Pending
    <2>4. adm[h].team \in Team /\ (adm[h].op # "create" => adm[h].row.version > 1)
      BY <2>2, <2>3, WritesARow
    <2>5. adm[h].op = "create" => adm[h].row.status = "active"
      <3>1. adm[h].op = "create" => adm[h].name \in Name /\ teams[adm[h].team] \in TeamRow
        BY <2>2, <2>4, Typed DEF Flow, IInv
      <3> QED
        BY <2>3, <3>1, CreatedIs
    <2>6. adm[h].row.version = 1 => adm[h].row.status = "active"
      BY <2>4, <2>5
    <2>7. teams'[adm[h].team] = adm[h].row
          /\ \A t \in Team \ {adm[h].team} : teams'[t] = teams[t]
      BY <2>1, <2>4 DEF IInv, TypeOK
    <2> QED
      BY <2>6, <2>7 DEF CreatedActive
  <1> QED
    BY <1>1, <1>2, <1>3, Writers

-----------------------------------------------------------------------------
(* The latest of the runs that figures come from *)

\* Of run numbers, and 0, one is the greatest.
LEMMA MaxIs ==
  ASSUME NEW n \in Nat, NEW S, S \subseteq 0..n, S # {}
  PROVE  Max(S) \in S
  <1> DEFINE T == S \ {0}
  <1>1. CASE T = {}
    <2>1. S = {0}
      BY <1>1
    <2> QED
      BY <2>1 DEF Max
  <1>2. CASE T # {}
    <2>1. T \subseteq 1..n /\ T \subseteq S /\ \A y \in S : y \in T \/ y = 0
      OBVIOUS
    <2> HIDE DEF T
    <2>2. LastOf(T) \in T /\ \A j \in T : j <= LastOf(T)
      BY <1>2, <2>1, LastIs
    <2>3. LastOf(T) \in 1..n
      BY <2>1, <2>2
    <2>4. LastOf(T) \in S /\ \A y \in S : LastOf(T) >= y
      BY <2>1, <2>2, <2>3
    <2> QED
      BY <2>4 DEF Max
  <1> QED
    BY <1>1, <1>2

\* Runs of a set of facts, and 0: the latest is one of them.
LEMMA LatestRun ==
  ASSUME IInv, NEW keys, keys \subseteq DOMAIN sales, NEW m \in Succeeded \cup {0}
  PROVE  Max({m} \cup {sales[k].by : k \in keys}) \in Succeeded \cup {0}
  <1> DEFINE S == {m} \cup {sales[k].by : k \in keys}
  <1>1. Succeeded \subseteq 1..MaxRuns /\ MaxRuns \in Nat
    BY NightlyImportAssumption DEF Succeeded, Run
  <1>2. \A k \in DOMAIN sales : sales[k].by \in Succeeded \cup {0}
    <2>1. DOMAIN sales = Date \X Team
      BY DEF IInv, TypeOK
    <2>2. \A d \in Date, t \in Team : sales[<<d, t>>].by \in Succeeded \cup {0}
      BY DEF IInv, FactsKnown
    <2> SUFFICES ASSUME NEW k \in Date \X Team PROVE sales[k].by \in Succeeded \cup {0}
      BY <2>1
    <2>3. PICK d \in Date, t \in Team : k = <<d, t>>
      OBVIOUS
    <2> QED
      BY <2>2, <2>3
  <1>3. S \subseteq Succeeded \cup {0}
    BY <1>2
  <1>4. S # {}
    OBVIOUS
  <1>5. Succeeded \cup {0} \subseteq 0..MaxRuns
    BY <1>1
  <1> HIDE DEF S
  <1>6. S \subseteq 0..MaxRuns
    BY <1>3, <1>5
  <1>7. Max(S) \in S
    BY <1>1, <1>4, <1>6, MaxIs
  <1> QED
    BY <1>3, <1>7 DEF S

\* get_last_successful_completed_at is not before any successful run.
LEMMA StampIsLast ==
  ASSUME NEW S, S \subseteq Run, NEW r \in S \cup {0},
         NEW last, last = IF S = {} THEN 0 ELSE LastOf(S)
  PROVE  r <= last /\ last \in S \cup {0} /\ last \in 0..MaxRuns
  <1>1. S \subseteq 1..MaxRuns /\ MaxRuns \in Nat
    BY NightlyImportAssumption DEF Run
  <1>2. CASE S = {}
    BY <1>1, <1>2
  <1>3. CASE S # {}
    <2>1. LastOf(S) \in S /\ \A j \in S : j <= LastOf(S)
      BY <1>1, <1>3, LastIs
    <2>2. LastOf(S) \in 1..MaxRuns
      BY <1>1, <2>1
    <2>3. r <= LastOf(S)
      BY <2>1, <2>2
    <2> QED
      BY <1>1, <1>3, <2>1, <2>2, <2>3
  <1> QED
    BY <1>2, <1>3

\* A run that has succeeded stays so: a failure is recorded for a run of its own.
LEMMA SuccessStays ==
  ASSUME IInv, [Next]_vars
  PROVE  Succeeded \subseteq Succeeded'
  <1>1. ASSUME NEW p \in Importer, Promote(p) \/ RecordFailure(p)
        PROVE  Succeeded \subseteq Succeeded'
    <2>1. imp[p].phase # "idle"
      BY <1>1 DEF Promote, RecordFailure
    <2>2. runs[imp[p].run].status = "none"
      BY <2>1 DEF IInv, Underway
    <2>3. ASSUME NEW r \in Run, r # imp[p].run PROVE runs'[r] = runs[r]
      <3>1. runs \in [Run -> RunRow]
        BY DEF IInv, TypeOK
      <3>2. ASSUME NEW row, runs' = [runs EXCEPT ![imp[p].run] = row] PROVE runs'[r] = runs[r]
        BY <2>3, <3>1, <3>2
      <3>3. CASE Promote(p)
        BY <3>2, <3>3 DEF Promote
      <3>4. CASE RecordFailure(p)
        BY <2>3, <3>1, <3>4 DEF RecordFailure
      <3> QED
        BY <1>1, <3>3, <3>4
    <2>4. "succeeded" # "none"
      OBVIOUS
    <2> QED
      BY <2>2, <2>3, <2>4 DEF Succeeded
  <1>2. ASSUME UNCHANGED runs PROVE Succeeded \subseteq Succeeded'
    BY <1>2 DEF Succeeded
  <1>3. ASSUME NEW p \in Importer, RunNightlyImport(p), ~Promote(p), ~RecordFailure(p)
        PROVE  UNCHANGED runs
    BY <1>3 DEF RunNightlyImport, StartRun, StageAndValidate, InsertTeam, SelectTeam, Fail, Crash
  <1>4. ASSUME NEW h \in Handler, Administer(h) PROVE UNCHANGED runs
    <2>1. ASSUME NEW t \in Team, NEW n \in Name, CreateTeam(h, t, n) \/ RenameTeam(h, t, n)
          PROVE  UNCHANGED runs
      BY <2>1 DEF CreateTeam, RenameTeam, Begin
    <2>2. ASSUME NEW t \in Team, RemoveTeam(h, t) PROVE UNCHANGED runs
      BY <2>2 DEF RemoveTeam, Begin
    <2>3. CheckName(h) \/ CheckDoctors(h) => UNCHANGED runs
      BY DEF CheckName, CheckDoctors, End
    <2>4. WriteTeam(h) \/ CommitEdit(h) \/ Rollback(h) => UNCHANGED runs
      BY DEF WriteTeam, CommitEdit, Rollback, End
    <2> QED
      BY <1>4, <2>1, <2>2, <2>3, <2>4 DEF Administer
  <1> QED
    BY <1>1, <1>2, <1>3, <1>4 DEF Next, vars

-----------------------------------------------------------------------------
(* What the statements return *)

\* The facts of a range of dates: finitely many, of natural amounts.
LEMMA FactsAre ==
  ASSUME IInv, NEW first, NEW last
  PROVE  /\ Facts(first, last) \subseteq Date \X Team /\ IsFiniteSet(Facts(first, last))
         /\ \A k \in Date \X Team : sales[k].amount \in Nat /\ sales[k].pct \in Int
  <1>1. sales \in [Date \X Team -> Fact]
    BY DEF IInv, TypeOK
  <1>2. IsFiniteSet(Date \X Team)
    BY DashboardAssumption, FS_Product
  <1>3. Facts(first, last) \subseteq Date \X Team
    BY <1>1 DEF Facts
  <1>4. IsFiniteSet(Facts(first, last))
    BY <1>2, <1>3, FS_Subset
  <1>5. \A k \in Date \X Team : sales[k] \in Fact
    BY <1>1
  <1> QED
    BY <1>3, <1>4, <1>5 DEF Fact, Amount, Pct

\* sum_amount_in_range never returns a negative figure.
LEMMA SumIsNat ==
  ASSUME IInv, NEW first, NEW last
  PROVE  SumAmountInRange(first, last) \in Nat
  <1> DEFINE due == Facts(first, last)
             w == [k \in due |-> sales[k].amount]
  <1>1. IsFiniteSet(due) /\ Terms(w, due, Nat)
    BY FactsAre DEF Terms
  <1>2. SumAmountInRange(first, last) = Total(w, due)
    BY DEF SumAmountInRange
  <1> HIDE DEF w, due
  <1> QED
    BY <1>1, <1>2, TotalNat

\* No sum changes while the facts stay.
LEMMA SumStays ==
  ASSUME UNCHANGED sales, NEW CONSTANT first, NEW CONSTANT last
  PROVE  SumAmountInRange(first, last)' = SumAmountInRange(first, last)
  <1>1. Facts(first, last)' = Facts(first, last)
    BY DEF Facts
  <1>2. [k \in Facts(first, last)' |-> sales'[k].amount]
          = [k \in Facts(first, last) |-> sales[k].amount]
    BY <1>1
  <1>3. SumAmountInRange(first, last)'
          = Total([k \in Facts(first, last)' |-> sales'[k].amount], Facts(first, last)')
    BY DEF SumAmountInRange
  <1>4. SumAmountInRange(first, last)
          = Total([k \in Facts(first, last) |-> sales[k].amount], Facts(first, last))
    BY DEF SumAmountInRange
  <1> QED
    BY <1>1, <1>2, <1>3, <1>4

BoardRow == [date: Date, amount: Amount, pct: Pct, team: Team]

\* latest_per_team returns finitely many rows.
LEMMA RowsAre ==
  ASSUME IInv
  PROVE  LatestRows \subseteq BoardRow /\ IsFiniteSet(LatestRows)
  <1> DEFINE row(k) == [date |-> k[1], team |-> k[2], amount |-> sales[k].amount,
                        pct |-> sales[k].pct]
  <1>1. LatestPerTeam \subseteq Date \X Team /\ IsFiniteSet(LatestPerTeam)
    <2>1. LatestPerTeam \subseteq Facts(0, Max(Date))
      BY DEF LatestPerTeam
    <2> QED
      BY <2>1, FactsAre, FS_Subset
  <1>2. LatestRows = {row(k) : k \in LatestPerTeam}
    BY DEF LatestRows
  <1>3. ASSUME NEW k \in LatestPerTeam PROVE row(k) \in BoardRow
    <2>1. k[1] \in Date /\ k[2] \in Team /\ sales[k].amount \in Amount /\ sales[k].pct \in Pct
      BY <1>1, FactsAre DEF Amount, Pct
    <2> QED
      BY <2>1 DEF BoardRow
  <1> HIDE DEF row
  <1>4. LatestRows \subseteq BoardRow
    BY <1>2, <1>3
  <1>5. [k \in LatestPerTeam |-> row(k)] \in Surjection(LatestPerTeam, LatestRows)
    BY <1>2 DEF Surjection
  <1> QED
    BY <1>1, <1>4, <1>5, FS_Surjection

\* No row of the latest dates changes while the facts stay.
LEMMA RowsStay == UNCHANGED sales => LatestRows' = LatestRows
  <1> SUFFICES ASSUME UNCHANGED sales PROVE LatestRows' = LatestRows
    OBVIOUS
  <1>1. Facts(0, Max(Date))' = Facts(0, Max(Date))
    BY DEF Facts
  <1>2. LatestPerTeam' = LatestPerTeam
    BY <1>1 DEF LatestPerTeam
  <1> QED
    BY <1>2 DEF LatestRows

\* The weights of the headline are not negative.
LEMMA HeadlineIs ==
  ASSUME NEW rows, rows \subseteq BoardRow, IsFiniteSet(rows)
  PROVE  AggregateCompanyWide(rows) \in [sum: Int, weight: Nat]
  <1> DEFINE current == CurrentRows(rows)
             w == [row \in current |-> row.pct * row.amount]
             v == [row \in current |-> row.amount]
  <1>1. current \subseteq rows /\ IsFiniteSet(current)
    BY FS_Subset DEF CurrentRows
  <1>2. \A row \in current : row.pct \in Int /\ row.amount \in Nat
    BY <1>1 DEF BoardRow, Amount, Pct
  <1> HIDE DEF current
  <1>3. Terms(w, current, Int) /\ Terms(v, current, Nat)
    BY <1>2 DEF Terms
  <1>4. AggregateCompanyWide(rows) = [sum |-> Total(w, current), weight |-> Total(v, current)]
    BY DEF AggregateCompanyWide, current
  <1> HIDE DEF w, v
  <1>5. Total(w, current) \in Int /\ Total(v, current) \in Nat
    BY <1>1, <1>3, TotalInt, TotalNat
  <1> QED
    BY <1>4, <1>5

\* A request that has read nothing.
LEMMA BlankBoard ==
  ASSUME Succeeded \subseteq Run, TypeOK, board = NoBoard
  PROVE  BoardTypeOK /\ Headed
  <1>1. /\ board.phase = "idle" /\ board.today = 0 /\ board.ytd = 0 /\ board.mtd = 0
        /\ board.headline = [sum |-> 0, weight |-> 0] /\ board.rows = {}
        /\ board.asOf = 0 /\ board.since = 0 /\ board.newest = 0
    BY DEF NoBoard
  <1>2. BoardTypeOK
    BY NightlyImportAssumption DEF BoardTypeOK, NoBoard
  <1>3. CurrentRows({}) = {}
    BY DEF CurrentRows
  <1>4. AggregateCompanyWide({}) = [sum |-> 0, weight |-> 0]
    BY <1>3, TotalEmpty DEF AggregateCompanyWide
  <1> QED
    BY <1>1, <1>2, <1>4, FS_EmptySet DEF Headed

-----------------------------------------------------------------------------
(* Every statement of a summary *)

\* A statement of a summary, on the tables as they are.
LEMMA ReadingInv ==
  ASSUME BoardInv, GetSummary, UNCHANGED vars
  PROVE  BoardTypeOK' /\ Stamped' /\ Headed' /\ Fresh'
  <1>1. Succeeded' = Succeeded /\ LastSuccess' = LastSuccess /\ sales' = sales /\ TypeOK'
    <2>1. runs' = runs /\ sales' = sales
      BY DEF vars
    <2>2. TypeOK'
      BY DEF BoardInv, IInv, TypeOK, vars
    <2> QED
      BY <2>1, <2>2 DEF Succeeded, LastSuccess
  <1>2. /\ SumAmountInRange(Today, Today)' = SumAmountInRange(Today, Today)
        /\ SumAmountInRange(YearStart, Today)' = SumAmountInRange(YearStart, Today)
        /\ SumAmountInRange(MonthStart, Today)' = SumAmountInRange(MonthStart, Today)
    BY <1>1, SumStays
  <1>14. LatestRows' = LatestRows
    BY <1>1, RowsStay
  <1> DEFINE today == SumAmountInRange(Today, Today)
             ytd == SumAmountInRange(YearStart, Today)
             mtd == SumAmountInRange(MonthStart, Today)
             last == LastSuccess
  <1>3. today \in Nat /\ ytd \in Nat /\ mtd \in Nat
    BY SumIsNat DEF BoardInv
  <1>4. /\ last \in Succeeded \cup {0} /\ Succeeded \cup {0} \subseteq 0..MaxRuns
        /\ \A r \in Succeeded \cup {0} : r <= last
    <2>1. Succeeded \subseteq Run /\ Succeeded \cup {0} \subseteq 0..MaxRuns
      BY NightlyImportAssumption DEF Succeeded, Run
    <2>2. last = IF Succeeded = {} THEN 0 ELSE LastOf(Succeeded)
      BY DEF LastSuccess
    <2> HIDE DEF last
    <2>3. last \in Succeeded \cup {0}
      BY <2>1, <2>2, StampIsLast
    <2> QED
      BY <2>1, <2>2, <2>3, StampIsLast
  <1>5. \A keys : keys \subseteq Date \X Team => NewestOf(keys) \in Succeeded \cup {0}
    <2>1. DOMAIN sales = Date \X Team
      BY DEF BoardInv, IInv, TypeOK
    <2> QED
      BY <2>1, LatestRun DEF NewestOf, BoardInv, Stamped
  <1>6. IsFiniteSet(board.rows) /\ board.headline = AggregateCompanyWide(board.rows)
    BY DEF BoardInv, Headed
  <1>7. \A first, upto : Facts(first, upto) \subseteq Date \X Team
    BY FactsAre DEF BoardInv
  <1> DEFINE B == board
  <1>8. BoardTypeOK /\ Stamped /\ Fresh
    BY DEF BoardInv
  <1> HIDE DEF today, ytd, mtd, last
  <1>9. CASE ReadToday
    <2> DEFINE m == Max({0} \cup {sales[k].by : k \in Facts(Today, Today)})
    <2>1. m \in Succeeded \cup {0}
      <3>1. DOMAIN sales = Date \X Team
        BY DEF BoardInv, IInv, TypeOK
      <3> QED
        BY <1>7, <3>1, LatestRun DEF BoardInv
    <2>2. board' = [NoBoard EXCEPT !.phase = "ytd", !.since = last, !.today = today, !.newest = m]
      BY <1>9 DEF ReadToday, today, last
    <2> HIDE DEF m
    <2>3. board' = [phase |-> "ytd", today |-> today, ytd |-> 0, mtd |-> 0,
                    headline |-> [sum |-> 0, weight |-> 0], rows |-> {},
                    asOf |-> 0, since |-> last, newest |-> m]
      BY <2>2 DEF NoBoard
    <2>6. BoardTypeOK'
      <3>1. today \in Nat /\ last \in 0..MaxRuns /\ m \in 0..MaxRuns /\ 0 \in 0..MaxRuns
        BY <1>3, <1>4, <2>1
      <3> QED
        BY <1>1, <2>3, <3>1 DEF BoardTypeOK
    <2>4. AggregateCompanyWide({}) = [sum |-> 0, weight |-> 0]
      <3>1. CurrentRows({}) = {}
        BY DEF CurrentRows
      <3> QED
        BY <3>1, TotalEmpty DEF AggregateCompanyWide
    <2>5. Headed'
      BY <2>3, <2>4, FS_EmptySet DEF Headed
    <2> QED
      BY <1>1, <1>2, <1>4, <2>1, <2>3, <2>5, <2>6 DEF Stamped, Fresh, today, last
  <1>10. CASE ReadYtd
    <2> DEFINE m == NewestOf(Facts(YearStart, Today))
    <2>1. m \in Succeeded \cup {0} /\ m \in 0..MaxRuns
      BY <1>4, <1>5, <1>7
    <2>2. board' = [board EXCEPT !.phase = "mtd", !.newest = m, !.ytd = ytd] /\ board.phase = "ytd"
      BY <1>10 DEF ReadYtd, ytd
    <2> HIDE DEF m
    <2>3. BoardTypeOK'
      BY <1>1, <1>3, <1>8, <2>1, <2>2 DEF BoardTypeOK
    <2>4. /\ board'.phase = "mtd" /\ board'.today = board.today /\ board'.ytd = ytd
          /\ board'.since = board.since /\ board'.newest = m
          /\ board'.rows = board.rows /\ board'.headline = board.headline
      BY <1>8, <2>2 DEF BoardTypeOK
    <2> QED
      BY <1>1, <1>2, <1>6, <1>8, <2>1, <2>2, <2>3, <2>4 DEF Stamped, Headed, Fresh, ytd
  <1>11. CASE ReadMtd
    <2> DEFINE m == NewestOf(Facts(MonthStart, Today))
    <2>1. m \in Succeeded \cup {0} /\ m \in 0..MaxRuns
      BY <1>4, <1>5, <1>7
    <2>2. board' = [board EXCEPT !.phase = "latest", !.newest = m, !.mtd = mtd]
          /\ board.phase = "mtd"
      BY <1>11 DEF ReadMtd, mtd
    <2> HIDE DEF m
    <2>3. BoardTypeOK'
      BY <1>1, <1>3, <1>8, <2>1, <2>2 DEF BoardTypeOK
    <2>4. /\ board'.phase = "latest" /\ board'.today = board.today /\ board'.ytd = board.ytd
          /\ board'.mtd = mtd /\ board'.since = board.since /\ board'.newest = m
          /\ board'.rows = board.rows /\ board'.headline = board.headline
      BY <1>8, <2>2 DEF BoardTypeOK
    <2> QED
      BY <1>1, <1>2, <1>6, <1>8, <2>1, <2>2, <2>3, <2>4 DEF Stamped, Headed, Fresh, mtd
  <1>12. CASE ReadLatest
    <2> DEFINE m == NewestOf(LatestPerTeam)
               rows == LatestRows
               headline == AggregateCompanyWide(rows)
    <2>1. m \in Succeeded \cup {0} /\ m \in 0..MaxRuns
      <3>1. LatestPerTeam \subseteq Date \X Team
        BY <1>7 DEF LatestPerTeam
      <3> QED
        BY <1>4, <1>5, <3>1
    <2>2. rows \subseteq BoardRow /\ IsFiniteSet(rows)
      BY RowsAre DEF BoardInv
    <2>3. board' = [board EXCEPT !.phase = "asOf", !.rows = rows, !.newest = m,
                                 !.headline = headline] /\ board.phase = "latest"
      BY <1>12 DEF ReadLatest
    <2>7. rows = LatestRows
      OBVIOUS
    <2> HIDE DEF m, rows
    <2>4. headline \in [sum: Int, weight: Nat] /\ headline = AggregateCompanyWide(rows)
      BY <2>2, HeadlineIs
    <2> HIDE DEF headline
    <2>5. BoardTypeOK'
      BY <1>1, <1>8, <2>1, <2>2, <2>3, <2>4 DEF BoardTypeOK, BoardRow
    <2>6. /\ board'.phase = "asOf" /\ board'.today = board.today /\ board'.ytd = board.ytd
          /\ board'.mtd = board.mtd /\ board'.since = board.since /\ board'.newest = m
          /\ board'.rows = rows /\ board'.headline = headline
      BY <1>8, <2>3 DEF BoardTypeOK
    <2> QED
      BY <1>1, <1>2, <1>8, <1>14, <2>1, <2>2, <2>3, <2>4, <2>5, <2>6, <2>7
      DEF Stamped, Headed, Fresh
  <1>13. CASE ReadDataAsOf
    <2>1. board' = [board EXCEPT !.phase = "done", !.asOf = last] /\ board.phase = "asOf"
      BY <1>13 DEF ReadDataAsOf, last
    <2>2. BoardTypeOK'
      BY <1>1, <1>4, <1>8, <2>1 DEF BoardTypeOK
    <2>3. /\ board'.phase = "done" /\ board'.today = board.today /\ board'.ytd = board.ytd
          /\ board'.mtd = board.mtd /\ board'.since = board.since
          /\ board'.newest = board.newest /\ board'.asOf = last
          /\ board'.rows = board.rows /\ board'.headline = board.headline
      BY <1>8, <2>1 DEF BoardTypeOK
    <2> QED
      BY <1>1, <1>2, <1>4, <1>6, <1>8, <1>14, <2>1, <2>2, <2>3 DEF Stamped, Headed, Fresh
  <1> QED
    BY <1>9, <1>10, <1>11, <1>12, <1>13 DEF GetSummary

\* A commit between two statements: what has been read stays, and a new night makes the
\* reading an older one.
LEMMA CommitInv ==
  ASSUME BoardInv, [Next]_vars, UNCHANGED board
  PROVE  BoardTypeOK' /\ Stamped' /\ Headed' /\ Fresh'
  <1>1. IInv' /\ Succeeded \subseteq Succeeded'
    BY NextInv, SuccessStays DEF BoardInv
  <1>2. BoardTypeOK' /\ Stamped' /\ Headed'
    <2>1. TypeOK'
      BY <1>1 DEF IInv
    <2> QED
      BY <1>1, <2>1 DEF BoardInv, BoardTypeOK, Stamped, Headed
  <1>3. board.since \in Succeeded \cup {0}
    BY DEF BoardInv, Fresh
  <1> DEFINE last == LastSuccess
             next == LastSuccess'
  <1>4. /\ last \in Succeeded \cup {0} /\ board.since <= last
        /\ \A r \in Succeeded' \cup {0} : r <= next
        /\ next \in 0..MaxRuns /\ last \in 0..MaxRuns /\ board.since \in 0..MaxRuns
    <2>1. /\ Succeeded \subseteq Run /\ Succeeded' \subseteq Run
          /\ Succeeded \cup {0} \subseteq 0..MaxRuns
      BY NightlyImportAssumption DEF Succeeded, Run
    <2>2. /\ last = IF Succeeded = {} THEN 0 ELSE LastOf(Succeeded)
          /\ next = IF Succeeded' = {} THEN 0 ELSE LastOf(Succeeded')
      BY DEF LastSuccess
    <2> HIDE DEF last, next
    <2>3. last \in Succeeded \cup {0} /\ board.since <= last
      BY <1>3, <2>1, <2>2, StampIsLast
    <2>4. \A r \in Succeeded' \cup {0} : r <= next /\ next \in 0..MaxRuns
      BY <2>1, <2>2, StampIsLast
    <2> QED
      BY <1>3, <2>1, <2>3, <2>4
  <1> HIDE DEF last, next
  <1>5. ASSUME NEW p \in Importer, Promote(p) PROVE board.since # next
    <2> DEFINE r == imp[p].run
    <2>1. /\ r \in Run /\ r \in Nat /\ Succeeded' = Succeeded \cup {r}
          /\ \A s \in Succeeded : s \in Nat /\ s > 0 /\ s < r
      BY <1>5, PromotedRun DEF BoardInv
    <2> HIDE DEF r
    <2>2. board.since < r
      BY <1>3, <2>1 DEF Run
    <2> QED
      BY <1>4, <2>1, <2>2
  <1>6. CASE UNCHANGED sales
    <2>1. board.since = next => board.since = last
      BY <1>1, <1>4
    <2>2. /\ SumAmountInRange(Today, Today)' = SumAmountInRange(Today, Today)
          /\ SumAmountInRange(YearStart, Today)' = SumAmountInRange(YearStart, Today)
          /\ SumAmountInRange(MonthStart, Today)' = SumAmountInRange(MonthStart, Today)
      BY <1>6, SumStays
    <2>3. Fresh /\ LatestRows' = LatestRows
      BY <1>6, RowsStay DEF BoardInv
    <2> QED
      BY <1>1, <1>2, <2>1, <2>2, <2>3 DEF Fresh, last, next
  <1>7. CASE \E p \in Importer : Promote(p)
    BY <1>1, <1>2, <1>3, <1>5, <1>7 DEF Fresh, next
  <1> QED
    BY <1>6, <1>7, Writers

\* The invariant through every statement and every commit.
LEMMA BoardNextInv == BoardInv /\ [BoardNext]_allVars => BoardInv'
  <1> SUFFICES ASSUME BoardInv, [BoardNext]_allVars PROVE BoardInv'
    OBVIOUS
  <1>1. [Next]_vars
    BY DEF BoardNext, allVars, vars
  <1>2. IInv' /\ Sourced' /\ CreatedActive'
    BY <1>1, NextInv, SourcedInv, CreatedActiveInv DEF BoardInv
  <1>3. CASE GetSummary /\ UNCHANGED vars
    BY <1>2, <1>3, ReadingInv DEF BoardInv
  <1>4. CASE UNCHANGED board
    BY <1>1, <1>2, <1>4, CommitInv DEF BoardInv
  <1> QED
    BY <1>3, <1>4 DEF BoardNext, allVars

\* It holds at first.
LEMMA BoardInitInv == BoardInit => BoardInv
  <1> SUFFICES ASSUME BoardInit PROVE BoardInv
    OBVIOUS
  <1>1. IInv /\ Succeeded = {} /\ board = NoBoard
    BY InitInv DEF BoardInit, Init, Succeeded, NoRun
  <1>2. BoardTypeOK /\ Headed
    BY <1>1, BlankBoard DEF IInv
  <1>3. Stamped /\ Fresh
    BY <1>1 DEF NoBoard, Stamped, Fresh
  <1>4. Sourced
    <2>1. \A d \in Date, t \in Team : sales[<<d, t>>].by = 0
      BY DEF BoardInit, Init, NoFact
    <2> QED
      BY <2>1 DEF Sourced, SourcedFact
  <1>5. CreatedActive
    BY BlankRow DEF BoardInit, Init, CreatedActive
  <1> QED
    BY <1>1, <1>2, <1>3, <1>4, <1>5 DEF BoardInv

-----------------------------------------------------------------------------
(* The headline *)

\* A finite set with a strict total order has a last element.
LEMMA LastElement ==
  ASSUME NEW S, IsFiniteSet(S), S # {}, NEW R,
         \A x \in S : <<x, x>> \notin R,
         \A x, y, z \in S : <<x, y>> \in R /\ <<y, z>> \in R => <<x, z>> \in R,
         \A x, y \in S : x # y => <<x, y>> \in R \/ <<y, x>> \in R
  PROVE  \E m \in S : \A x \in S \ {m} : <<x, m>> \in R
  <1> DEFINE After(x) == {y \in S : <<x, y>> \in R}
             Tails == {After(x) : x \in S}
  <1>1. Tails \subseteq FiniteSubsetsOf(S)
    BY FS_Subset DEF FiniteSubsetsOf
  <1>2. Tails # {}
    <2>1. PICK x \in S : TRUE
      OBVIOUS
    <2>2. After(x) \in Tails
      OBVIOUS
    <2> QED
      BY <2>2
  <1>3. PICK T \in Tails : \A U \in Tails : <<U, T>> \notin StrictSubsetOrdering(S)
    <2> HIDE DEF Tails
    <2> QED
      BY <1>1, <1>2, WFMin, FS_StrictSubsetOrderingWellFounded
  <1>4. PICK m \in S : T = After(m)
    OBVIOUS
  <1>5. ASSUME NEW x \in S \ {m}, <<x, m>> \notin R PROVE FALSE
    <2>1. x \in After(m) /\ x \notin After(x)
      BY <1>5
    <2>2. After(x) \subseteq After(m)
      BY <2>1
    <2>3. <<After(x), After(m)>> \in StrictSubsetOrdering(S)
      BY <2>1, <2>2 DEF StrictSubsetOrdering
    <2> QED
      BY <1>3, <1>4, <2>3
  <1> QED
    BY <1>5

\* A finite set of integers has a least and a greatest element.
LEMMA Extremes ==
  ASSUME NEW S, IsFiniteSet(S), S # {}, S \subseteq Int
  PROVE  /\ Min(S) \in S /\ \A x \in S : Min(S) <= x
         /\ Max(S) \in S /\ \A x \in S : x <= Max(S)
  <1> DEFINE Up == {p \in S \X S : p[1] < p[2]}
             Down == {p \in S \X S : p[1] > p[2]}
  <1>1. \A x, y \in S : (<<x, y>> \in Up <=> x < y) /\ (<<x, y>> \in Down <=> x > y)
    OBVIOUS
  <1> HIDE DEF Up, Down
  <1>2. PICK m \in S : \A x \in S \ {m} : <<x, m>> \in Up
    <2>1. /\ \A x \in S : <<x, x>> \notin Up
          /\ \A x, y, z \in S : <<x, y>> \in Up /\ <<y, z>> \in Up => <<x, z>> \in Up
          /\ \A x, y \in S : x # y => <<x, y>> \in Up \/ <<y, x>> \in Up
      BY <1>1
    <2> QED
      BY <2>1, LastElement
  <1>3. PICK n \in S : \A x \in S \ {n} : <<x, n>> \in Down
    <2>1. /\ \A x \in S : <<x, x>> \notin Down
          /\ \A x, y, z \in S : <<x, y>> \in Down /\ <<y, z>> \in Down => <<x, z>> \in Down
          /\ \A x, y \in S : x # y => <<x, y>> \in Down \/ <<y, x>> \in Down
      BY <1>1
    <2> QED
      BY <2>1, LastElement
  <1>4. ASSUME NEW x \in S PROVE x <= m /\ n <= x
    <2>1. x = m \/ x < m
      BY <1>1, <1>2
    <2>2. x = n \/ x > n
      BY <1>1, <1>3
    <2> QED
      BY <2>1, <2>2
  <1>5. Max(S) \in S /\ \A x \in S : Max(S) >= x
    BY <1>4 DEF Max
  <1>6. Min(S) \in S /\ \A x \in S : Min(S) <= x
    BY <1>4 DEF Min
  <1> QED
    BY <1>5, <1>6

\* Amounts keep the order of what they multiply.
LEMMA Scaled ==
  ASSUME NEW p \in Int, NEW q \in Int, NEW a \in Nat, p <= q
  PROVE  p * a <= q * a
  <1>1. PICK c \in Nat : q = p + c
    <2>1. q - p \in Nat /\ q = p + (q - p)
      OBVIOUS
    <2> QED
      BY <2>1
  <1>2. (p + c) * a = p * a + c * a /\ c * a \in Nat /\ p * a \in Int
    OBVIOUS
  <1> QED
    BY <1>1, <1>2

\* A mean weighted by amounts lies between the least and the greatest of its terms.
LEMMA WeightedMean ==
  ASSUME NEW current, IsFiniteSet(current), current # {},
         \A row \in current : row.pct \in Int /\ row.amount \in Nat,
         NEW sum, sum = Total([row \in current |-> row.pct * row.amount], current),
         NEW weight, weight = Total([row \in current |-> row.amount], current),
         NEW pcts, pcts = {row.pct : row \in current}
  PROVE  /\ sum \in Int /\ weight \in Nat /\ Min(pcts) \in Int /\ Max(pcts) \in Int
         /\ Min(pcts) * weight <= sum /\ sum <= Max(pcts) * weight
  <1> DEFINE w == [row \in current |-> row.pct * row.amount]
             v == [row \in current |-> row.amount]
             lo == Min(pcts)
             hi == Max(pcts)
  <1>1. /\ \A row \in current : w[row] = row.pct * row.amount /\ v[row] = row.amount
        /\ Terms(w, current, Int) /\ Terms(v, current, Nat) /\ Terms(v, current, Int)
    BY DEF Terms
  <1>2. sum = Total(w, current) /\ weight = Total(v, current)
    OBVIOUS
  <1> HIDE DEF w, v
  <1>3. IsFiniteSet(pcts) /\ pcts # {} /\ pcts \subseteq Int
    <2>1. pcts # {} /\ pcts \subseteq Int
      OBVIOUS
    <2>2. IsFiniteSet(pcts)
      <3> DEFINE P(row) == row.pct
      <3>1. pcts = {P(row) : row \in current}
        OBVIOUS
      <3>2. [row \in current |-> P(row)] \in Surjection(current, pcts)
        BY <3>1 DEF Surjection
      <3> HIDE DEF P
      <3> QED
        BY <3>2, FS_Surjection
    <2> QED
      BY <2>1, <2>2
  <1>4. lo \in Int /\ hi \in Int /\ \A x \in pcts : lo <= x /\ x <= hi
    BY <1>3, Extremes
  <1> HIDE DEF lo, hi
  <1>5. ASSUME NEW row \in current PROVE lo * v[row] <= w[row] /\ w[row] <= hi * v[row]
    <2>1. row.pct \in pcts /\ row.pct \in Int /\ row.amount \in Nat
      OBVIOUS
    <2>2. lo <= row.pct /\ row.pct <= hi
      BY <1>4, <2>1
    <2>4. lo * row.amount <= row.pct * row.amount /\ row.pct * row.amount <= hi * row.amount
      BY <1>4, <2>1, <2>2, Scaled
    <2> QED
      BY <1>1, <2>4
  <1>6. lo * Total(v, current) <= Total(w, current) /\ Total(w, current) <= hi * Total(v, current)
    BY <1>1, <1>4, <1>5, TotalWithin
  <1>7. Total(w, current) \in Int /\ Total(v, current) \in Nat
    BY <1>1, TotalInt, TotalNat
  <1> QED
    BY <1>2, <1>4, <1>6, <1>7 DEF lo, hi

\* Division rounds down, of negative numbers too.
LEMMA Floor ==
  ASSUME NEW a \in Int, NEW b \in Nat, b > 0, NEW q, q = a \div b
  PROVE  q \in Int /\ q * b <= a /\ a < q * b + b
  OBVIOUS

\* The integer nearest to sum / whole, the greater one on a tie.
LEMMA Nearest ==
  ASSUME NEW sum \in Int, NEW whole \in Nat, whole > 0,
         NEW q, q = (2 * sum + whole) \div (2 * whole)
  PROVE  /\ q \in Int
         /\ (2 * q - 1) * whole <= 2 * sum
         /\ 2 * sum < (2 * q + 1) * whole
  <1> DEFINE qw == q * whole
  <1>1. q \in Int /\ q * (2 * whole) <= 2 * sum + whole
        /\ 2 * sum + whole < q * (2 * whole) + 2 * whole
    <2> DEFINE a == 2 * sum + whole
               b == 2 * whole
    <2>1. a \in Int /\ b \in Nat /\ b > 0 /\ q = a \div b
      OBVIOUS
    <2> HIDE DEF a, b
    <2>2. q \in Int /\ q * b <= a /\ a < q * b + b
      BY <2>1, Floor
    <2> QED
      BY <2>2 DEF a, b
  <1>2. /\ q * (2 * whole) = 2 * qw /\ qw \in Int
        /\ (2 * q - 1) * whole = 2 * qw - whole
        /\ (2 * q + 1) * whole = 2 * qw + whole
    BY <1>1
  <1> HIDE DEF qw
  <1> QED
    BY <1>1, <1>2

\* Integers whose half-open units meet are in order.
LEMMA UnitsInOrder ==
  ASSUME NEW m \in Int, NEW q \in Int, NEW whole \in Nat, whole > 0,
         (2 * m - 1) * whole < (2 * q + 1) * whole
  PROVE  m <= q
  <1> SUFFICES ASSUME q < m PROVE FALSE
    OBVIOUS
  <1>1. 2 * q + 1 <= 2 * m - 1 /\ 2 * q + 1 \in Int /\ 2 * m - 1 \in Int
    OBVIOUS
  <1> DEFINE a == 2 * q + 1
             b == 2 * m - 1
  <1>2. a \in Int /\ b \in Int /\ a <= b /\ b * whole < a * whole
    BY <1>1
  <1> HIDE DEF a, b
  <1>3. a * whole <= b * whole /\ a * whole \in Int /\ b * whole \in Int
    BY <1>2, Scaled
  <1> QED
    BY <1>2, <1>3

\* Rounding keeps a mean between what it is a mean of, rounded alike.
LEMMA RoundedBetween ==
  ASSUME NEW sum \in Int, NEW weight \in Nat, weight > 0, NEW one \in Nat, one > 0,
         NEW lo \in Int, NEW hi \in Int, lo * weight <= sum, sum <= hi * weight,
         NEW q, q = (2 * sum + weight * one) \div (2 * (weight * one)),
         NEW l, l = (2 * lo + 1 * one) \div (2 * (1 * one)),
         NEW h, h = (2 * hi + 1 * one) \div (2 * (1 * one))
  PROVE  /\ l <= q /\ q <= h
         /\ (2 * q - 1) * (weight * one) <= 2 * sum
         /\ 2 * sum < (2 * q + 1) * (weight * one)
  <1> DEFINE whole == weight * one
  <1>1. whole \in Nat /\ whole > 0 /\ q = (2 * sum + whole) \div (2 * whole)
    <2>1. weight * one \in Nat /\ weight * one > 0
      <3>1. 1 * one <= weight * one
        BY Scaled
      <3> QED
        BY <3>1
    <2> QED
      BY <2>1
  <1> HIDE DEF whole
  <1>2. q \in Int /\ (2 * q - 1) * whole <= 2 * sum /\ 2 * sum < (2 * q + 1) * whole
    BY <1>1, Nearest
  <1>3. l = (2 * lo + one) \div (2 * one) /\ h = (2 * hi + one) \div (2 * one)
    OBVIOUS
  <1>4. l \in Int /\ (2 * l - 1) * one <= 2 * lo
    BY <1>3, Nearest
  <1>5. h \in Int /\ 2 * hi < (2 * h + 1) * one
    BY <1>3, Nearest
  <1>6. (2 * l - 1) * whole <= 2 * (lo * weight)
    <2> DEFINE a == 2 * l - 1
    <2>1. a \in Int /\ a * one \in Int /\ a * one <= 2 * lo /\ 2 * lo \in Int
      BY <1>4
    <2> HIDE DEF a
    <2>2. (a * one) * weight <= (2 * lo) * weight
      BY <2>1, Scaled
    <2>3. (a * one) * weight = a * whole /\ (2 * lo) * weight = 2 * (lo * weight)
      BY <2>1 DEF whole
    <2>4. a * whole <= 2 * (lo * weight)
      BY <2>2, <2>3
    <2> QED
      BY <2>4 DEF a
  <1>7. 2 * (hi * weight) < (2 * h + 1) * whole
    <2> DEFINE a == 2 * h + 1
    <2>1. a \in Int /\ a * one \in Int /\ 2 * hi + 1 <= a * one /\ 2 * hi + 1 \in Int
      BY <1>5
    <2> HIDE DEF a
    <2>2. (2 * hi + 1) * weight <= (a * one) * weight
      BY <2>1, Scaled
    <2>3. /\ (a * one) * weight = a * whole /\ (2 * hi + 1) * weight = 2 * (hi * weight) + weight
          /\ hi * weight \in Int /\ a * whole \in Int
      BY <1>1, <2>1 DEF whole
    <2>4. 2 * (hi * weight) < a * whole
      BY <2>2, <2>3
    <2> QED
      BY <2>4 DEF a
  <1> DEFINE least == lo * weight
             most == hi * weight
  <1>8. least \in Int /\ most \in Int /\ least <= sum /\ sum <= most
    OBVIOUS
  <1> DEFINE ql == (2 * q - 1) * whole
             qh == (2 * q + 1) * whole
             ll == (2 * l - 1) * whole
             hh == (2 * h + 1) * whole
  <1>9. /\ ql \in Int /\ qh \in Int /\ ll \in Int /\ hh \in Int
        /\ ql <= 2 * sum /\ 2 * sum < qh /\ ll <= 2 * least /\ 2 * most < hh
    BY <1>1, <1>2, <1>4, <1>5, <1>6, <1>7
  <1> HIDE DEF least, most, ql, qh, ll, hh
  <1>10. ll < qh /\ ql < hh
    BY <1>8, <1>9
  <1>11. l <= q
    BY <1>1, <1>2, <1>4, <1>10, UnitsInOrder DEF ll, qh
  <1>12. q <= h
    BY <1>1, <1>2, <1>5, <1>10, UnitsInOrder DEF ql, hh
  <1> QED
    BY <1>2, <1>11, <1>12 DEF whole

-----------------------------------------------------------------------------
(* The source *)

\* latest_per_team considers every fact on record.
LEMMA OnDate ==
  ASSUME IInv, NEW d \in Date, NEW t \in Team
  PROVE  <<d, t>> \in Facts(0, Max(Date)) <=> sales[<<d, t>>].by > 0
  <1>1. DOMAIN sales = Date \X Team
    BY DEF IInv, TypeOK
  <1>2. IsFiniteSet(Date) /\ Date # {} /\ Date \subseteq Int /\ 0 <= d
    BY DashboardAssumption
  <1>3. d <= Max(Date)
    BY <1>2, Extremes
  <1> QED
    BY <1>1, <1>2, <1>3 DEF Facts

\* A fact that the source has told of, of a team that is as it was created.
LEMMA FactIs ==
  ASSUME IInv, Sourced, CreatedActive, TeamsAsCreated, NEW d \in Date, NEW t \in Team,
         sales[<<d, t>>].by > 0
  PROVE  /\ sales[<<d, t>>].name \in Name /\ teams[t].name = sales[<<d, t>>].name
         /\ teams[t].status = "active"
  <1>1. sales[<<d, t>>].name \in Name
    BY DEF Sourced, SourcedFact, IsLastRow
  <1>2. Known(t, sales[<<d, t>>].name)
    BY <1>1, NightlyImportAssumption DEF IInv, FactsKnown
  <1>3. teams[t] \in TeamRow /\ teams[t].version <= 1
    BY Typed DEF IInv, TeamsAsCreated
  <1>4. teams[t].version \in Nat /\ teams[t].version # 0
    BY <1>2, <1>3, Rows DEF Known
  <1> QED
    BY <1>1, <1>2, <1>3, <1>4 DEF CreatedActive, Known

\* No two of them have the same name and the same date.
LEMMA OneFactPerName ==
  ASSUME IInv, Sourced, CreatedActive, TeamsAsCreated, NEW d \in Date, NEW t \in Team,
         NEW u \in Team, sales[<<d, t>>].by > 0, sales[<<d, u>>].by > 0,
         sales[<<d, t>>].name = sales[<<d, u>>].name
  PROVE  t = u
  <1>1. /\ teams[t].name = sales[<<d, t>>].name /\ teams[t].status = "active"
        /\ teams[u].name = sales[<<d, u>>].name /\ teams[u].status = "active"
    BY FactIs
  <1> QED
    BY <1>1 DEF IInv, NamesUnique

\* What a run's file says of a date and a name is on record, or newer words on it.
LEMMA ToldIsShown ==
  ASSUME IInv, Sourced, CreatedActive, TeamsAsCreated, NEW d \in Date, NEW n \in Name,
         NEW r \in Succeeded, RowsFor(d, n, staged[r].sales) # {}
  PROVE  /\ r \in 1..MaxRuns
         /\ \E t \in Team : sales[<<d, t>>].by >= r /\ sales[<<d, t>>].by > 0
                            /\ sales[<<d, t>>].name = n
  <1>1. r \in 1..MaxRuns /\ SalesShown(r)
    BY DEF IInv, Shown, Succeeded, Run
  <1>2. PICK i \in Valid(staged[r].sales) :
          staged[r].sales[i].date = d /\ staged[r].sales[i].team = n
    BY DEF RowsFor
  <1>3. PICK t \in Team : sales[<<d, t>>].by >= r
                          /\ (sales[<<d, t>>].name = n \/ teams[t].version > 1)
    BY <1>1, <1>2 DEF SalesShown
  <1>4. sales[<<d, t>>].by > 0
    <2> DEFINE by == sales[<<d, t>>].by
    <2>1. by \in Succeeded \cup {0} /\ Succeeded \subseteq 1..MaxRuns /\ by >= r
      BY <1>3 DEF IInv, FactsKnown, Succeeded, Run
    <2>2. MaxRuns \in Nat
      BY NightlyImportAssumption
    <2> HIDE DEF by
    <2>3. by > 0
      BY <1>1, <2>1, <2>2
    <2> QED
      BY <2>3 DEF by
  <1>5. teams[t].version <= 1 /\ teams[t].version \in Nat
    BY Typed, Rows DEF IInv, TeamsAsCreated
  <1> QED
    BY <1>1, <1>3, <1>4, <1>5

\* Tellers and SourceRow in terms of the rows for a date and a name.
LEMMA SourceRowIs ==
  ASSUME NEW d, NEW n
  PROVE  /\ Tellers(d, n) = {r \in Succeeded : RowsFor(d, n, staged[r].sales) # {}}
         /\ SourceRow(d, n)
              = staged[Max(Tellers(d, n))].sales[
                  Max(RowsFor(d, n, staged[Max(Tellers(d, n))].sales))]
  <1>1. Tellers(d, n) = {r \in Succeeded : RowsFor(d, n, staged[r].sales) # {}}
    BY DEF Tellers, RowsFor
  <1> DEFINE rows == staged[Max(Tellers(d, n))].sales
             of == {i \in Valid(rows) : rows[i].date = d /\ rows[i].team = n}
  <1>2. SourceRow(d, n) = rows[Max(of)]
    BY DEF SourceRow
  <1>3. of = RowsFor(d, n, rows)
    BY DEF RowsFor
  <1> HIDE DEF of
  <1> QED
    BY <1>1, <1>2, <1>3

\* The greatest of a set of numbers, by either name.
LEMMA GreatestIs ==
  ASSUME NEW S, S \subseteq Int, NEW m \in S, \A x \in S : x <= m
  PROVE  Max(S) = m /\ LastOf(S) = m
  <1>1. \A k : k \in S /\ (\A x \in S : k >= x) => k = m
    OBVIOUS
  <1>2. \A k : k \in S /\ (\A x \in S : x <= k) => k = m
    OBVIOUS
  <1>3. \A x \in S : m >= x
    OBVIOUS
  <1>4. Max(S) = m
    BY <1>1, <1>3 DEF Max
  <1> QED
    BY <1>2, <1>4 DEF LastOf

\* A fact as the source would write it.
FactRow(d, t) ==
  [date |-> d, team |-> sales[<<d, t>>].name, amount |-> sales[<<d, t>>].amount,
   pct |-> sales[<<d, t>>].pct, valid |-> TRUE]

\* The fact of a date and a name is what the last run that tells of them says.
LEMMA SourceOfFact ==
  ASSUME IInv, Sourced, CreatedActive, TeamsAsCreated, NEW d \in Date, NEW t \in Team,
         sales[<<d, t>>].by > 0, NEW n, n = sales[<<d, t>>].name
  PROVE  Tellers(d, n) # {} /\ n \in Name /\ SourceRow(d, n) = FactRow(d, t)
  <1> DEFINE row == SourceRow(d, n)
             by == sales[<<d, t>>].by
             rows == staged[by].sales
  <1>1. n \in Name /\ RowsFor(d, n, rows) # {}
        /\ sales[<<d, t>>].amount = rows[LastOf(RowsFor(d, n, rows))].amount
        /\ sales[<<d, t>>].pct = rows[LastOf(RowsFor(d, n, rows))].pct
    BY DEF Sourced, SourcedFact, IsLastRow
  <1>2. by \in Succeeded /\ Succeeded \subseteq 1..MaxRuns /\ by \in Run
    BY DEF IInv, FactsKnown, Succeeded, Run
  <1>3. by \in Tellers(d, n)
    BY <1>1, <1>2, SourceRowIs
  <1>4. ASSUME NEW r \in Tellers(d, n) PROVE r <= by
    <2>1. r \in Succeeded /\ RowsFor(d, n, staged[r].sales) # {}
      BY SourceRowIs
    <2>2. PICK u \in Team : sales[<<d, u>>].by >= r /\ sales[<<d, u>>].by > 0
                            /\ sales[<<d, u>>].name = n
      BY <1>1, <2>1, ToldIsShown
    <2>3. u = t
      BY <2>2, OneFactPerName
    <2>4. by >= r
      BY <2>2, <2>3
    <2> QED
      BY <1>2, <2>1, <2>4, NightlyImportAssumption
  <1>5. Max(Tellers(d, n)) = by
    <2>1. Tellers(d, n) \subseteq Int
      <3>1. Tellers(d, n) \subseteq Succeeded
        BY DEF Tellers
      <3>2. 1..MaxRuns \subseteq Int
        BY NightlyImportAssumption
      <3> QED
        BY <1>2, <3>1, <3>2
    <2> HIDE DEF by
    <2> QED
      BY <1>3, <1>4, <2>1, GreatestIs
  <1>6. /\ Max(RowsFor(d, n, rows)) = LastOf(RowsFor(d, n, rows))
        /\ LastOf(RowsFor(d, n, rows)) \in RowsFor(d, n, rows)
        /\ rows[LastOf(RowsFor(d, n, rows))] \in SalesRow
    <2> DEFINE S == RowsFor(d, n, rows)
    <2>1. staged[by] \in Batch
      BY <1>2 DEF IInv, Shown
    <2>2. rows \in Seq(SalesRow) /\ S \subseteq DOMAIN rows
      BY <2>1, BatchRows DEF RowsFor, Valid
    <2>8. S # {}
      BY <1>1
    <2> HIDE DEF S, rows
    <2>3. S \subseteq 1..Len(rows) /\ Len(rows) \in Nat /\ S # {}
      BY <2>2, <2>8
    <2>4. LastOf(S) \in S /\ \A j \in S : j <= LastOf(S)
      BY <2>3, LastIs
    <2>5. S \subseteq Int
      BY <2>3
    <2>6. Max(S) = LastOf(S)
      BY <2>4, <2>5, GreatestIs
    <2>7. rows[LastOf(S)] \in SalesRow
      BY <2>2, <2>4
    <2> QED
      BY <2>4, <2>6, <2>7 DEF S
  <1>7. row = rows[LastOf(RowsFor(d, n, rows))]
    BY <1>5, <1>6, SourceRowIs
  <1>8. row.date = d /\ row.team = n /\ row.valid = TRUE
    <2> DEFINE i == LastOf(RowsFor(d, n, rows))
    <2>1. i \in Valid(rows) /\ rows[i].date = d /\ rows[i].team = n
      BY <1>6 DEF RowsFor
    <2>2. rows[i].valid /\ rows[i].valid \in BOOLEAN
      BY <1>6, <2>1 DEF Valid, SalesRow
    <2> QED
      BY <1>7, <2>1, <2>2
  <1>9. row = FactRow(d, t)
    <2>1. row \in SalesRow /\ row.amount = sales[<<d, t>>].amount
          /\ row.pct = sales[<<d, t>>].pct
      BY <1>1, <1>6, <1>7
    <2> HIDE DEF row
    <2>2. row = [date |-> row.date, team |-> row.team, amount |-> row.amount,
                 pct |-> row.pct, valid |-> row.valid]
      BY <2>1 DEF SalesRow
    <2> QED
      BY <1>8, <2>1, <2>2 DEF FactRow
  <1> QED
    BY <1>1, <1>3, <1>9

\* The source says nothing that is not on record.
LEMMA SourceIsOnRecord ==
  ASSUME IInv, Sourced, CreatedActive, TeamsAsCreated, NEW d \in Date, NEW n \in Name,
         Tellers(d, n) # {}
  PROVE  \E t \in Team : sales[<<d, t>>].by > 0 /\ sales[<<d, t>>].name = n
  <1>1. PICK r \in Succeeded : RowsFor(d, n, staged[r].sales) # {}
    BY SourceRowIs
  <1> QED
    BY <1>1, ToldIsShown

\* Facts by team and the source's rows by name are the same terms under other keys.
LEMMA SumIsSourceTotal ==
  ASSUME IInv, Sourced, CreatedActive, TeamsAsCreated, NEW first, NEW last
  PROVE  SumAmountInRange(first, last) = SourceTotal(first, last)
  <1> DEFINE S == Facts(first, last)
             T == {k \in Date \X Name : first <= k[1] /\ k[1] <= last}
             w == [k \in S |-> sales[k].amount]
             v == [k \in T |-> SourceAmount(k[1], k[2])]
             key == [k \in S |-> <<k[1], sales[k].name>>]
  <1>1. SumAmountInRange(first, last) = Total(w, S) /\ SourceTotal(first, last) = Total(v, T)
    BY DEF SumAmountInRange, SourceTotal
  <1>2. IsFiniteSet(S) /\ IsFiniteSet(T)
    <2>1. IsFiniteSet(Date \X Name)
      BY DashboardAssumption, FS_Product
    <2>2. T \subseteq Date \X Name
      OBVIOUS
    <2> HIDE DEF T
    <2> QED
      BY <2>1, <2>2, FactsAre, FS_Subset
  <1>3. ASSUME NEW k \in S
        PROVE  \E d \in Date, t \in Team :
                 k = <<d, t>> /\ sales[<<d, t>>].by > 0 /\ first <= d /\ d <= last
    <2>1. k \in Date \X Team /\ sales[k].by > 0 /\ first <= k[1] /\ k[1] <= last
      BY FactsAre DEF Facts
    <2> QED
      BY <2>1
  <1>4. ASSUME NEW k \in S
        PROVE  key[k] \in T /\ w[k] = v[key[k]]
    <2>1. PICK d \in Date, t \in Team :
            k = <<d, t>> /\ sales[<<d, t>>].by > 0 /\ first <= d /\ d <= last
      BY <1>3
    <2>2. sales[<<d, t>>].name \in Name
      BY <2>1, FactIs
    <2>3. SourceAmount(d, sales[<<d, t>>].name) = sales[<<d, t>>].amount
      <3> PICK n : n = sales[<<d, t>>].name
        OBVIOUS
      <3>1. Tellers(d, n) # {} /\ SourceRow(d, n) = FactRow(d, t)
        BY <2>1, SourceOfFact
      <3> QED
        BY <3>1 DEF SourceAmount, FactRow
    <2>4. key[k] = <<d, sales[<<d, t>>].name>> /\ w[k] = sales[<<d, t>>].amount
      BY <2>1
    <2>5. <<d, sales[<<d, t>>].name>> \in T
      BY <2>1, <2>2
    <2>6. v[<<d, sales[<<d, t>>].name>>] = SourceAmount(d, sales[<<d, t>>].name)
      BY <2>5
    <2> QED
      BY <2>3, <2>4, <2>5, <2>6
  <1>5. ASSUME NEW k \in S, NEW l \in S, key[k] = key[l] PROVE k = l
    <2>1. PICK d \in Date, t \in Team : k = <<d, t>> /\ sales[<<d, t>>].by > 0
      BY <1>3
    <2>2. PICK e \in Date, u \in Team : l = <<e, u>> /\ sales[<<e, u>>].by > 0
      BY <1>3
    <2>3. d = e /\ sales[<<d, t>>].name = sales[<<e, u>>].name
      BY <1>5, <2>1, <2>2
    <2>4. t = u
      BY <2>1, <2>2, <2>3, OneFactPerName
    <2> QED
      BY <2>1, <2>2, <2>3, <2>4
  <1>6. ASSUME NEW y \in T, v[y] # 0 PROVE \E x \in S : y = key[x]
    <2>1. PICK d \in Date, n \in Name : y = <<d, n>> /\ first <= d /\ d <= last
      OBVIOUS
    <2>2. Tellers(d, n) # {}
      BY <1>6, <2>1 DEF SourceAmount
    <2>3. PICK t \in Team : sales[<<d, t>>].by > 0 /\ sales[<<d, t>>].name = n
      BY <2>2, SourceIsOnRecord
    <2>4. <<d, t>> \in S
      <3>1. DOMAIN sales = Date \X Team
        BY DEF IInv, TypeOK
      <3> QED
        BY <2>1, <2>3, <3>1 DEF Facts
    <2>5. key[<<d, t>>] = <<d, n>>
      BY <2>3, <2>4
    <2> QED
      BY <2>1, <2>4, <2>5
  <1>7. Terms(v, T, Int)
    <2>1. ASSUME NEW y \in T, v[y] # 0 PROVE v[y] \in Int
      <3>1. PICK x \in S : y = key[x]
        BY <1>6, <2>1
      <3>2. v[y] = w[x]
        BY <1>4, <3>1
      <3>3. w[x] = sales[x].amount /\ x \in Date \X Team
        BY FactsAre
      <3> QED
        BY <3>2, <3>3, FactsAre
    <2>2. 0 \in Int
      OBVIOUS
    <2> HIDE DEF v, T
    <2> QED
      BY <2>1, <2>2 DEF Terms
  <1>8. key \in [S -> T]
    BY <1>4
  <1> HIDE DEF S, T, w, v, key
  <1>9. Total(w, S) = Total(v, T)
    BY <1>2, <1>4, <1>5, <1>6, <1>7, <1>8, TotalRekeyed
  <1> QED
    BY <1>1, <1>9

\* A team that is as it was created has its name in all of its facts.
LEMMA OneNamePerTeam ==
  ASSUME IInv, Sourced, CreatedActive, TeamsAsCreated, NEW d \in Date, NEW e \in Date,
         NEW t \in Team, NEW u \in Team, sales[<<d, t>>].by > 0, sales[<<e, u>>].by > 0
  PROVE  t = u <=> sales[<<d, t>>].name = sales[<<e, u>>].name
  <1>1. /\ teams[t].name = sales[<<d, t>>].name /\ teams[t].status = "active"
        /\ teams[u].name = sales[<<e, u>>].name /\ teams[u].status = "active"
    BY FactIs
  <1> QED
    BY <1>1 DEF IInv, NamesUnique

\* The latest row of a team is the source's row of the latest date that the source
\* tells of the team's name.
LEMMA LatestOf ==
  ASSUME IInv, Sourced, CreatedActive, TeamsAsCreated, NEW d \in Date, NEW t \in Team,
         sales[<<d, t>>].by > 0, NEW n, n = sales[<<d, t>>].name
  PROVE  <<d, t>> \in LatestPerTeam <=> d = Max(ToldDates(n))
  <1>1. n \in Name /\ d \in ToldDates(n)
    BY SourceOfFact DEF ToldDates
  <1>2. ToldDates(n) \subseteq Int
    <2>1. ToldDates(n) \subseteq Date
      BY DEF ToldDates
    <2>2. Date \subseteq Int
      BY DashboardAssumption
    <2> QED
      BY <2>1, <2>2, Zenon
  <1>3. \A e \in Date : <<e, t>> \in Facts(0, Max(Date)) <=> sales[<<e, t>>].by > 0
    BY OnDate
  <1>4. ASSUME NEW e \in Date PROVE e \in ToldDates(n) <=> sales[<<e, t>>].by > 0
    <2>1. ASSUME e \in ToldDates(n) PROVE sales[<<e, t>>].by > 0
      <3>1. PICK u \in Team : sales[<<e, u>>].by > 0 /\ sales[<<e, u>>].name = n
        BY <1>1, <2>1, SourceIsOnRecord DEF ToldDates
      <3> QED
        BY <3>1, OneNamePerTeam
    <2>2. ASSUME sales[<<e, t>>].by > 0 PROVE e \in ToldDates(n)
      <3>1. sales[<<e, t>>].name = n
        BY <2>2, OneNamePerTeam
      <3> QED
        BY <2>2, <3>1, SourceOfFact DEF ToldDates
    <2> QED
      BY <2>1, <2>2
  <1>5. <<d, t>> \in LatestPerTeam <=> \A e \in ToldDates(n) : e <= d
    <2>1. \A e \in ToldDates(n) : e \in Date
      BY DEF ToldDates
    <2>2. <<d, t>> \in LatestPerTeam
            <=> \A e \in Date : <<e, t>> \in Facts(0, Max(Date)) => e <= d
      BY <1>3 DEF LatestPerTeam
    <2> QED
      BY <1>3, <1>4, <2>1, <2>2
  <1>6. (\A e \in ToldDates(n) : e <= d) => d = Max(ToldDates(n))
    BY <1>1, <1>2, GreatestIs
  <1>7. \A e \in ToldDates(n) : e <= Max(ToldDates(n))
    <2> DEFINE S == ToldDates(n)
    <2>1. IsFiniteSet(S) /\ S # {}
      BY <1>1, DashboardAssumption, FS_Subset DEF ToldDates
    <2> HIDE DEF S
    <2>2. S \subseteq Int => \A e \in S : e <= Max(S)
      BY <2>1, Extremes
    <2> QED
      BY <1>2, <2>2 DEF S
  <1> QED
    BY <1>5, <1>6, <1>7

\* The latest rows are, name by name, the source's.
LEMMA RowsAreSourceLatest ==
  ASSUME IInv, Sourced, CreatedActive, TeamsAsCreated
  PROVE  {AsSource(row) : row \in LatestRows} = SourceLatest
  <1> DEFINE Row(k) == [date |-> k[1], team |-> k[2], amount |-> sales[k].amount,
                        pct |-> sales[k].pct]
             Told == {n \in Name : ToldDates(n) # {}}
             Latest(n) == SourceRow(Max(ToldDates(n)), n)
  <1>1. LatestRows = {Row(k) : k \in LatestPerTeam} /\ SourceLatest = {Latest(n) : n \in Told}
    BY DEF LatestRows, SourceLatest
  <1>2. ASSUME NEW d \in Date, NEW t \in Team, sales[<<d, t>>].by > 0
        PROVE  AsSource(Row(<<d, t>>)) = SourceRow(d, sales[<<d, t>>].name)
    <2> PICK n : n = sales[<<d, t>>].name
      OBVIOUS
    <2>1. SourceRow(d, n) = FactRow(d, t)
      BY <1>2, SourceOfFact
    <2>2. teams[t].name = n
      BY <1>2, FactIs
    <2>3. AsSource(Row(<<d, t>>)) = FactRow(d, t)
      BY <2>2 DEF AsSource, FactRow
    <2> QED
      BY <2>1, <2>3
  <1>3. ASSUME NEW k \in LatestPerTeam PROVE AsSource(Row(k)) \in SourceLatest
    <2>1. k \in Date \X Team /\ sales[k].by > 0
      BY FactsAre DEF LatestPerTeam, Facts
    <2>2. PICK d \in Date, t \in Team : k = <<d, t>>
      BY <2>1
    <2> DEFINE n == sales[<<d, t>>].name
    <2>3. n \in Told
      <3>1. n \in Name /\ Tellers(d, n) # {}
        BY <2>1, <2>2, SourceOfFact
      <3> QED
        BY <3>1 DEF ToldDates
    <2>4. d = Max(ToldDates(n))
      BY <2>1, <2>2, LatestOf
    <2>5. AsSource(Row(k)) = Latest(n)
      BY <1>2, <2>1, <2>2, <2>4
    <2> HIDE DEF n, Told, Latest, Row
    <2> QED
      BY <1>1, <2>3, <2>5
  <1>4. ASSUME NEW n \in Told PROVE \E k \in LatestPerTeam : AsSource(Row(k)) = Latest(n)
    <2> DEFINE d == Max(ToldDates(n))
    <2>1. d \in ToldDates(n)
      <3> DEFINE S == ToldDates(n)
      <3>1. IsFiniteSet(S) /\ S # {} /\ S \subseteq Int
        <4>1. S \subseteq Date /\ S # {}
          BY DEF ToldDates
        <4>2. IsFiniteSet(Date) /\ Date \subseteq Int
          BY DashboardAssumption
        <4> HIDE DEF S
        <4>3. IsFiniteSet(S)
          BY <4>1, <4>2, FS_Subset
        <4> QED
          BY <4>1, <4>2, <4>3, Zenon
      <3> HIDE DEF S
      <3>2. Max(S) \in S
        BY <3>1, Extremes
      <3> QED
        BY <3>2 DEF S
    <2> HIDE DEF d
    <2>2. d \in Date /\ Tellers(d, n) # {}
      BY <2>1 DEF ToldDates
    <2>3. PICK t \in Team : sales[<<d, t>>].by > 0 /\ sales[<<d, t>>].name = n
      BY <2>2, SourceIsOnRecord
    <2>4. <<d, t>> \in LatestPerTeam
      BY <2>2, <2>3, LatestOf DEF d
    <2>5. AsSource(Row(<<d, t>>)) = SourceRow(d, n)
      BY <1>2, <2>2, <2>3
    <2>6. SourceRow(d, n) = Latest(n)
      BY DEF d
    <2> HIDE DEF Row, Latest
    <2> QED
      BY <2>4, <2>5, <2>6
  <1> HIDE DEF Row, Told, Latest
  <1>5. {AsSource(row) : row \in LatestRows} \subseteq SourceLatest
    BY <1>1, <1>3
  <1>6. SourceLatest \subseteq {AsSource(row) : row \in LatestRows}
    BY <1>1, <1>4
  <1> QED
    BY <1>5, <1>6

-----------------------------------------------------------------------------
(* The brand lists *)

\* The elements of S that fewer than n others of S are before.
Firsts(n, S, R) == {r \in S : Cardinality({s \in S : <<s, r>> \in R}) < n}

\* Of a strictly ordered finite set, the first n, or all of it, before all others: a
\* smallest set for which it fails would lose its last element.
LEMMA FirstsCount ==
  ASSUME NEW S, IsFiniteSet(S), NEW R, NEW n \in Nat,
         \A x \in S : <<x, x>> \notin R,
         \A x, y, z \in S : <<x, y>> \in R /\ <<y, z>> \in R => <<x, z>> \in R,
         \A x, y \in S : x # y => <<x, y>> \in R \/ <<y, x>> \in R
  PROVE  /\ Cardinality(Firsts(n, S, R)) = IF n <= Cardinality(S) THEN n ELSE Cardinality(S)
         /\ \A r \in Firsts(n, S, R), s \in S \ Firsts(n, S, R) : <<r, s>> \in R
  <1> DEFINE Right(U) ==
        /\ Cardinality(Firsts(n, U, R)) = IF n <= Cardinality(U) THEN n ELSE Cardinality(U)
        /\ \A r \in Firsts(n, U, R), s \in U \ Firsts(n, U, R) : <<r, s>> \in R
             Wrong == {U \in SUBSET S : ~Right(U)}
  <1>1. SUFFICES ASSUME Wrong # {} PROVE FALSE
    OBVIOUS
  <1>2. Wrong \subseteq FiniteSubsetsOf(S)
    BY FS_Subset DEF FiniteSubsetsOf
  <1>3. PICK U \in Wrong : \A V \in Wrong : <<V, U>> \notin StrictSubsetOrdering(S)
    <2> HIDE DEF Wrong
    <2> QED
      BY <1>1, <1>2, WFMin, FS_StrictSubsetOrderingWellFounded
  <1>4. U \subseteq S /\ IsFiniteSet(U) /\ ~Right(U)
    BY <1>3, FS_Subset
  <1>5. CASE U = {}
    <2>1. Firsts(n, U, R) = {} /\ Cardinality(U) = 0
      BY <1>5, FS_EmptySet DEF Firsts
    <2> QED
      BY <1>4, <1>5, <2>1
  <1>6. CASE U # {}
    <2>1. PICK m \in U : \A x \in U \ {m} : <<x, m>> \in R
      BY <1>4, <1>6, LastElement
    <2> DEFINE V == U \ {m}
    <2>2. Right(V)
      <3>1. <<V, U>> \in StrictSubsetOrdering(S)
        BY <1>4 DEF StrictSubsetOrdering
      <3>2. V \notin Wrong
        BY <1>3, <3>1
      <3> QED
        BY <1>4, <3>2
    <2>3. /\ IsFiniteSet(V) /\ Cardinality(V) \in Nat /\ Cardinality(U) = Cardinality(V) + 1
      <3>1. IsFiniteSet(V) /\ Cardinality(V) = Cardinality(U) - 1
        BY <1>4, FS_RemoveElement
      <3>2. Cardinality(V) \in Nat /\ Cardinality(U) \in Nat
        BY <1>4, <3>1, FS_CardinalityType
      <3> QED
        BY <3>1, <3>2
    <2>4. ASSUME NEW r \in V PROVE {s \in U : <<s, r>> \in R} = {s \in V : <<s, r>> \in R}
      <3>1. <<m, r>> \notin R
        BY <1>4, <2>1, <2>4
      <3> QED
        BY <3>1
    <2>5. {s \in U : <<s, m>> \in R} = V
      BY <1>4, <2>1
    <2>6. \A r \in V : r \in Firsts(n, U, R) <=> r \in Firsts(n, V, R)
      BY <2>4 DEF Firsts
    <2>7. m \in Firsts(n, U, R) <=> Cardinality(V) < n
      BY <2>5 DEF Firsts
    <2>8. Firsts(n, V, R) \subseteq V /\ Firsts(n, U, R) \subseteq U
      BY DEF Firsts
    <2>9. IsFiniteSet(Firsts(n, V, R))
      BY <2>3, <2>8, FS_Subset
    <2>10. CASE Cardinality(V) < n
      <3>1. Cardinality(Firsts(n, V, R)) = Cardinality(V)
        BY <2>2, <2>3, <2>10
      <3>2. Firsts(n, V, R) = V
        <4> DEFINE F == Firsts(n, V, R)
        <4>1. F \in SUBSET V /\ Cardinality(V) = Cardinality(F)
          BY <2>8, <3>1
        <4> HIDE DEF F, V
        <4> QED
          BY <2>3, <4>1, FS_Subset DEF F
      <3>3. Firsts(n, U, R) = U
        BY <2>6, <2>7, <2>8, <2>10, <3>2
      <3>4. Right(U)
        BY <2>3, <2>10, <3>3
      <3> QED
        BY <1>4, <3>4
    <2>11. CASE ~(Cardinality(V) < n)
      <3>1. Firsts(n, U, R) = Firsts(n, V, R)
        BY <2>6, <2>7, <2>8, <2>11
      <3>2. Cardinality(Firsts(n, U, R)) = n
        BY <2>2, <2>3, <2>11, <3>1
      <3>3. \A r \in Firsts(n, U, R), s \in U \ Firsts(n, U, R) : <<r, s>> \in R
        BY <2>1, <2>2, <2>8, <3>1
      <3>4. n <= Cardinality(U)
        BY <2>3, <2>11
      <3> QED
        BY <1>4, <3>2, <3>3, <3>4
    <2> QED
      BY <2>10, <2>11
  <1> QED
    BY <1>5, <1>6

\* The three orders of a list of brands: from the best rank, from the worst, by decline;
\* equal ones by name, those of one name by their place.
Named(r, s) == r.name < s.name \/ (r.name = s.name /\ r.place < s.place)

Better(rows) ==
  {p \in rows \X rows :
     p[1].rank < p[2].rank \/ (p[1].rank = p[2].rank /\ Named(p[1], p[2]))}
Worse(rows) ==
  {p \in rows \X rows :
     p[1].rank > p[2].rank \/ (p[1].rank = p[2].rank /\ Named(p[1], p[2]))}
Falling(rows) ==
  {p \in rows \X rows :
     p[1].growth < p[2].growth \/ (p[1].growth = p[2].growth /\ Named(p[1], p[2]))}

\* What any list of brands is: places are unique.
Brands(rows) ==
  /\ IsFiniteSet(rows)
  /\ \A r \in rows : r.rank \in Int /\ r.name \in Int /\ r.growth \in Int
                       /\ r.place \in Int
  /\ \A r, s \in rows : r.place = s.place => r = s

TopOf(rows, topN) == Firsts(topN, rows, Better(rows))
LowOf(rows, topN, lowN) == Firsts(lowN, rows \ TopOf(rows, topN), Worse(rows))
DecliningOf(rows, topN, lowN) ==
  {r \in rows \ (TopOf(rows, topN) \cup LowOf(rows, topN, lowN)) : r.growth < 0}
FocusOf(rows, topN, lowN, focusN) ==
  Firsts(focusN, DecliningOf(rows, topN, lowN), Falling(rows))

\* ClassifyBrands in terms of Firsts.
LEMMA Lists ==
  ASSUME NEW rows, NEW topN \in Nat, NEW lowN \in Nat, NEW focusN \in Nat
  PROVE  ClassifyBrands(rows, topN, lowN, focusN)
           = [top |-> TopOf(rows, topN), low |-> LowOf(rows, topN, lowN),
              focus |-> FocusOf(rows, topN, lowN, focusN)]
  <1> DEFINE top == {r \in rows :
               Cardinality({s \in rows :
                 s.rank < r.rank \/ (s.rank = r.rank /\ Named(s, r))}) < topN}
             low == {r \in rows \ top :
               Cardinality({s \in rows \ top :
                 s.rank > r.rank \/ (s.rank = r.rank /\ Named(s, r))}) < lowN}
             declining == {r \in rows \ (top \cup low) : r.growth < 0}
             focus == {r \in declining :
               Cardinality({s \in declining :
                 s.growth < r.growth \/ (s.growth = r.growth /\ Named(s, r))}) < focusN}
  <1>1. ClassifyBrands(rows, topN, lowN, focusN) = [top |-> top, low |-> low, focus |-> focus]
    BY DEF ClassifyBrands, Classified, Named
  <1>2. top = Firsts(topN, rows, Better(rows))
    BY DEF Firsts, Better
  <1> HIDE DEF top
  <1>3. low = Firsts(lowN, rows \ top, Worse(rows))
    BY DEF Firsts, Worse
  <1> HIDE DEF low
  <1>4. focus = Firsts(focusN, declining, Falling(rows))
    BY DEF Firsts, Falling
  <1>5. declining = {r \in rows \ (top \cup low) : r.growth < 0}
    OBVIOUS
  <1> HIDE DEF focus, declining
  <1> QED
    BY <1>1, <1>2, <1>3, <1>4, <1>5 DEF TopOf, LowOf, DecliningOf, FocusOf

\* Each list is the first so many of what it is taken from, in its own order.
LEMMA BrandOrders ==
  ASSUME NEW rows, Brands(rows), NEW S, S \subseteq rows, NEW R,
         R \in {Better(rows), Worse(rows), Falling(rows)}, NEW n \in Nat
  PROVE  /\ Cardinality(Firsts(n, S, R)) = IF n <= Cardinality(S) THEN n ELSE Cardinality(S)
         /\ \A r \in Firsts(n, S, R), s \in S \ Firsts(n, S, R) : <<r, s>> \in R
  <1>1. IsFiniteSet(S)
    BY FS_Subset DEF Brands
  <1>2. /\ \A x \in S : <<x, x>> \notin R
        /\ \A x, y, z \in S : <<x, y>> \in R /\ <<y, z>> \in R => <<x, z>> \in R
        /\ \A x, y \in S : x # y => <<x, y>> \in R \/ <<y, x>> \in R
    <2>1. CASE R = Better(rows)
      BY <2>1 DEF Better, Brands, Named
    <2>2. CASE R = Worse(rows)
      BY <2>2 DEF Worse, Brands, Named
    <2>3. CASE R = Falling(rows)
      BY <2>3 DEF Falling, Brands, Named
    <2> QED
      BY <2>1, <2>2, <2>3
  <1> QED
    BY <1>1, <1>2, FirstsCount

\* Orders of brands, as their ranks tell.
LEMMA BetterRanks ==
  ASSUME NEW rows, Brands(rows), NEW r, NEW s, <<r, s>> \in Better(rows)
  PROVE  r.rank <= s.rank
  <1>1. r \in rows /\ s \in rows /\ (r.rank < s.rank \/ r.rank = s.rank)
    BY DEF Better
  <1> QED
    BY <1>1 DEF Brands

LEMMA WorseRanks ==
  ASSUME NEW rows, Brands(rows), NEW r, NEW s, <<r, s>> \in Worse(rows)
  PROVE  r.rank >= s.rank
  <1>1. r \in rows /\ s \in rows /\ (r.rank > s.rank \/ r.rank = s.rank)
    BY DEF Worse
  <1> QED
    BY <1>1 DEF Brands

LEMMA Smaller ==
  ASSUME NEW a \in Nat, NEW b \in Nat
  PROVE  Min({a, b}) = IF a <= b THEN a ELSE b
  BY DEF Min

\* What BrandsClassified asks of lists.
Respects(rows, topN, lowN, focusN, lists) ==
  LET rest == rows \ (lists.top \cup lists.low)
      n == Cardinality(rows)
  IN /\ lists.top \cap lists.low = {}
     /\ lists.focus \subseteq rest
     /\ Cardinality(lists.top) = Min({topN, n})
     /\ Cardinality(lists.low) = Min({lowN, n - Cardinality(lists.top)})
     /\ \A r \in lists.top, s \in rows \ lists.top : r.rank <= s.rank
     /\ \A r \in lists.low, s \in rest : r.rank >= s.rank
     /\ Cardinality(lists.focus)
          = Min({focusN, Cardinality({r \in rest : r.growth < 0})})

\* For any brands, whatever their number and the limits.
LEMMA Classifies ==
  ASSUME NEW rows, Brands(rows), NEW topN \in Nat, NEW lowN \in Nat, NEW focusN \in Nat
  PROVE  Respects(rows, topN, lowN, focusN, ClassifyBrands(rows, topN, lowN, focusN))
  <1> DEFINE lists == ClassifyBrands(rows, topN, lowN, focusN)
             rest == rows \ (lists.top \cup lists.low)
             n == Cardinality(rows)
  <1> DEFINE top == TopOf(rows, topN)
             low == LowOf(rows, topN, lowN)
             declining == DecliningOf(rows, topN, lowN)
             focus == FocusOf(rows, topN, lowN, focusN)
  <1>1. /\ top = Firsts(topN, rows, Better(rows))
        /\ low = Firsts(lowN, rows \ top, Worse(rows))
        /\ declining = {r \in rows \ (top \cup low) : r.growth < 0}
        /\ focus = Firsts(focusN, declining, Falling(rows))
        /\ lists = [top |-> top, low |-> low, focus |-> focus]
    BY Lists DEF TopOf, LowOf, DecliningOf, FocusOf
  <1> HIDE DEF top, low, declining, focus, lists
  <1>2. lists.top = top /\ lists.low = low /\ lists.focus = focus
    BY <1>1
  <1>3. top \subseteq rows /\ low \subseteq rows \ top /\ focus \subseteq declining
    BY <1>1 DEF Firsts
  <1>4. declining = {r \in rest : r.growth < 0} /\ declining \subseteq rest /\ rest \subseteq rows
        /\ rest = (rows \ top) \ low
    BY <1>1, <1>2
  <1>5. IsFiniteSet(rows) /\ n \in Nat
    BY FS_CardinalityType DEF Brands
  <1>6. /\ Cardinality(top) = IF topN <= n THEN topN ELSE n
        /\ \A r \in top, s \in rows \ top : <<r, s>> \in Better(rows)
    BY <1>1, BrandOrders
  <1>7. Cardinality(rows \ top) = n - Cardinality(top) /\ Cardinality(rows \ top) \in Nat
        /\ Cardinality(top) \in Nat
    <2>1. IsFiniteSet(top) /\ IsFiniteSet(rows \ top)
      BY <1>3, <1>5, FS_Subset
    <2>2. rows \cap top = top
      BY <1>3
    <2>3. Cardinality(rows \ top) = Cardinality(rows) - Cardinality(rows \cap top)
      BY <1>5, FS_Difference
    <2> QED
      BY <2>1, <2>2, <2>3, FS_CardinalityType
  <1>8. /\ Cardinality(low) = IF lowN <= Cardinality(rows \ top) THEN lowN
                              ELSE Cardinality(rows \ top)
        /\ \A r \in low, s \in (rows \ top) \ low : <<r, s>> \in Worse(rows)
    <2> DEFINE after == rows \ top
    <2>1. after \subseteq rows /\ low = Firsts(lowN, after, Worse(rows))
      BY <1>1
    <2> HIDE DEF after
    <2>2. /\ Cardinality(low) = IF lowN <= Cardinality(after) THEN lowN
                                ELSE Cardinality(after)
          /\ \A r \in low, s \in after \ low : <<r, s>> \in Worse(rows)
      BY <2>1, BrandOrders
    <2> QED
      BY <2>2 DEF after
  <1>9. Cardinality(focus) = IF focusN <= Cardinality(declining) THEN focusN
                             ELSE Cardinality(declining)
    <2>1. declining \subseteq rows
      BY <1>4
    <2> QED
      BY <1>1, <2>1, BrandOrders
  <1>10. Cardinality(declining) \in Nat
    BY <1>4, <1>5, FS_Subset, FS_CardinalityType
  <1>11. \A r \in top, s \in rows \ top : r.rank <= s.rank
    BY <1>6, BetterRanks
  <1>12. \A r \in low, s \in rest : r.rank >= s.rank
    BY <1>4, <1>8, WorseRanks
  <1>13. Cardinality(lists.top) = Min({topN, n})
    BY <1>2, <1>5, <1>6, Smaller
  <1>14. Cardinality(lists.low) = Min({lowN, n - Cardinality(lists.top)})
    BY <1>2, <1>7, <1>8, Smaller
  <1>15. Cardinality(lists.focus) = Min({focusN, Cardinality({r \in rest : r.growth < 0})})
    BY <1>2, <1>4, <1>9, <1>10, Smaller
  <1> QED
    BY <1>2, <1>3, <1>4, <1>11, <1>12, <1>13, <1>14, <1>15 DEF Respects, lists

\* The inputs that the run enumerates are such lists of brands.
LEMMA BrandsAreFinite ==
  ASSUME NEW rows \in BrandInputs
  PROVE  Brands(rows)
  <1> DEFINE key == [r \in rows |-> r.place]
  <1>1. /\ \A r \in rows : /\ r.place \in 1..3 /\ r.name \in Int
                           /\ r.rank \in Int /\ r.growth \in Int
        /\ \A r, s \in rows : r.place = s.place => r = s
    <2>1. PICK f \in BrandRows :
            rows = {[place |-> i, name |-> f[i].name, rank |-> f[i].rank,
                     growth |-> f[i].growth] : i \in DOMAIN f}
      BY DEF BrandInputs
    <2>2. PICK n \in 0..3 : f \in [1..n -> [name: 1..2, rank: 1..MaxBrandRank, growth: -1..1]]
      BY DEF BrandRows
    <2>3. MaxBrandRank \in Nat
      BY DashboardAssumption
    <2>4. \A i \in DOMAIN f : /\ i \in 1..3 /\ f[i].name \in Int
                              /\ f[i].rank \in Int /\ f[i].growth \in Int
      BY <2>2, <2>3
    <2> QED
      BY <2>1, <2>4
  <1>2. key \in Injection(rows, 1..3)
    BY <1>1 DEF Injection, IsInjective
  <1>3. IsFiniteSet(1..3)
    <2>1. 1 \in Int /\ 3 \in Int
      OBVIOUS
    <2> QED
      BY <2>1, FS_Interval, Zenon
  <1>4. IsFiniteSet(rows)
    <2> HIDE DEF key
    <2> QED
      BY <1>2, <1>3, FS_Injection
  <1> QED
    BY <1>1, <1>4 DEF Brands

-----------------------------------------------------------------------------
(* Theorems *)

\* What holds between the statements of a summary, of imports and of edits: every fact
\* on record is the last row of its run's file for its date and name, and a summary that
\* no import has overtaken has the sums and the latest rows of the facts on record.
THEOREM BoardInvariant == BoardSpec => []BoardInv
  BY BoardInitInv, BoardNextInv, PTL DEF BoardSpec

\* What get_summary returns has its types whatever is imported: sums of amounts are
\* natural numbers, and rows are of dates and teams that exist.
THEOREM FiguresAreTyped == BoardSpec => []BoardTypeOK
  <1>1. BoardInv => BoardTypeOK
    BY DEF BoardInv
  <1> QED
    BY <1>1, BoardInvariant, PTL

\* No figure of a summary comes from a run later than the one that "Data as of"
\* names (get_summary reads get_last_successful_completed_at last), however many
\* imports commit between its statements.
THEOREM StampCovers == BoardSpec => []StampCoversFigures
  <1>1. BoardInv => StampCoversFigures
    BY DEF BoardInv, Stamped, StampCoversFigures
  <1> QED
    BY <1>1, BoardInvariant, PTL

\* Through every re-import, repeated row and failed night, a summary that no import has
\* overtaken sums what the last files to tell of a date and a name say of them, each once
\* (sales_data.upsert_many, sum_amount_in_range), and has for every name just the row of
\* the latest date that the files tell of it (latest_per_team), while no team has been
\* renamed or removed.
THEOREM SummariesShowTheSource == BoardSpec => []SummaryShowsTheSource
  <1>1. BoardInv => SummaryShowsTheSource
    <2> SUFFICES ASSUME BoardInv, board.phase = "done", board.since = LastSuccess,
                        TeamsAsCreated
                 PROVE  /\ board.today = SourceTotal(Today, Today)
                        /\ board.ytd = SourceTotal(YearStart, Today)
                        /\ board.mtd = SourceTotal(MonthStart, Today)
                        /\ {AsSource(row) : row \in board.rows} = SourceLatest
      BY DEF SummaryShowsTheSource
    <2>1. /\ board.today = SumAmountInRange(Today, Today)
          /\ board.ytd = SumAmountInRange(YearStart, Today)
          /\ board.mtd = SumAmountInRange(MonthStart, Today)
          /\ board.rows = LatestRows
      BY DEF BoardInv, Fresh
    <2>2. \A first, last : SumAmountInRange(first, last) = SourceTotal(first, last)
      BY SumIsSourceTotal DEF BoardInv
    <2>3. {AsSource(row) : row \in LatestRows} = SourceLatest
      BY RowsAreSourceLatest DEF BoardInv
    <2> QED
      BY <2>1, <2>2, <2>3
  <1> QED
    BY <1>1, BoardInvariant, PTL

\* The company-wide percentage (aggregate_company_wide, format_percent), for any decimal
\* amounts and percentages: it is a mean of the teams' percentages of the latest date, and
\* is shown as the whole percent nearest to it, the greater one on a tie, which lies
\* between the least and the greatest of theirs as they are shown.
THEOREM HeadlineIsMean == BoardSpec => []HeadlineIsAMean
  <1>1. BoardInv => HeadlineIsAMean
    <2> DEFINE current == CurrentRows(board.rows)
               pcts == {r.pct : r \in current}
               sum == board.headline.sum
               weight == board.headline.weight
               whole == weight * OnePercent
               q == FormatPercent(board.headline)
               l == FormatPercent([sum |-> Min(pcts), weight |-> 1])
               h == FormatPercent([sum |-> Max(pcts), weight |-> 1])
    <2> SUFFICES ASSUME BoardInv, weight > 0
                 PROVE  /\ Min(pcts) * weight <= sum /\ sum <= Max(pcts) * weight
                        /\ (2 * q - 1) * whole <= 2 * sum
                        /\ 2 * sum < (2 * q + 1) * whole
                        /\ l <= q /\ q <= h
      BY DEF HeadlineIsAMean, CurrentRows
    <2>1. /\ IsFiniteSet(board.rows) /\ board.rows \subseteq BoardRow
          /\ board.headline = AggregateCompanyWide(board.rows)
      BY DEF BoardInv, Headed, BoardTypeOK, BoardRow
    <2>2. /\ sum = Total([row \in current |-> row.pct * row.amount], current)
          /\ weight = Total([row \in current |-> row.amount], current)
      BY <2>1 DEF AggregateCompanyWide
    <2>3. current \subseteq board.rows /\ IsFiniteSet(current)
      BY <2>1, FS_Subset DEF CurrentRows
    <2>4. \A row \in current : row.pct \in Int /\ row.amount \in Nat
      BY <2>1, <2>3 DEF BoardRow, Amount, Pct
    <2>5. /\ q = (2 * sum + weight * OnePercent) \div (2 * (weight * OnePercent))
          /\ l = (2 * Min(pcts) + 1 * OnePercent) \div (2 * (1 * OnePercent))
          /\ h = (2 * Max(pcts) + 1 * OnePercent) \div (2 * (1 * OnePercent))
      BY DEF FormatPercent
    <2> HIDE DEF current, sum, weight, q, l, h
    <2>6. current # {}
      BY <2>2, TotalEmpty
    <2> DEFINE bounds == pcts
    <2>7. bounds = {row.pct : row \in current}
      OBVIOUS
    <2> HIDE DEF bounds
    <2>8. /\ sum \in Int /\ weight \in Nat /\ Min(bounds) \in Int /\ Max(bounds) \in Int
          /\ Min(bounds) * weight <= sum /\ sum <= Max(bounds) * weight
      BY <2>2, <2>3, <2>4, <2>6, <2>7, WeightedMean
    <2>9. OnePercent \in Nat /\ OnePercent > 0
      BY DashboardAssumption
    <2>10. /\ q = (2 * sum + weight * OnePercent) \div (2 * (weight * OnePercent))
           /\ l = (2 * Min(bounds) + 1 * OnePercent) \div (2 * (1 * OnePercent))
           /\ h = (2 * Max(bounds) + 1 * OnePercent) \div (2 * (1 * OnePercent))
      BY <2>5 DEF bounds
    <2>11. /\ l <= q /\ q <= h
           /\ (2 * q - 1) * (weight * OnePercent) <= 2 * sum
           /\ 2 * sum < (2 * q + 1) * (weight * OnePercent)
      BY <2>8, <2>9, <2>10, RoundedBetween
    <2> QED
      BY <2>8, <2>11 DEF bounds
  <1> QED
    BY <1>1, BoardInvariant, PTL

\* The three brand lists (classify_brands) share no brand, are as long as their limits
\* and the brands allow, and leave out only what ranks no better (top), no worse (low) or
\* finds no room (focus). Classifies says it of any finite set of brands and any limits.
THEOREM BrandsAreClassified == BoardSpec => []BrandsClassified
  <1>1. BrandsClassified
    <2>1. ASSUME NEW rows \in BrandInputs, NEW topN \in 0..2, NEW lowN \in 0..2,
                 NEW focusN \in 0..2
          PROVE  Respects(rows, topN, lowN, focusN, ClassifyBrands(rows, topN, lowN, focusN))
      <3>1. Brands(rows)
        BY BrandsAreFinite
      <3>2. topN \in Nat /\ lowN \in Nat /\ focusN \in Nat
        OBVIOUS
      <3> QED
        BY <3>1, <3>2, Classifies
    <2> QED
      BY <2>1, Zenon DEF BrandsClassified, Respects
  <1> QED
    BY <1>1, PTL
=============================================================================
