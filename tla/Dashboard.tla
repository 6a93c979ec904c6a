------------------------------ MODULE Dashboard ------------------------------
(***************************************************************************)
(* What the Dashboard and the Daily Report compute from the imported facts *)
(* (domain/metrics.py, api/dashboard/routes.py).  A summary is read by one *)
(* request in separate statements, between any two of which an import may  *)
(* commit; the classification of the brands and the rounding are pure.     *)
(***************************************************************************)
EXTENDS NightlyImport, Totals

CONSTANTS
  YearStart, MonthStart, Today,  \* the dates that the ranges are made of
  OnePercent,                    \* the units of Pct that are one percent
  MaxBrandRank                   \* bound of the classification's inputs

\* Dates, ids and names have a fixed width in the database.
ASSUME DashboardAssumption ==
  /\ {YearStart, MonthStart, Today} \subseteq Date
  /\ Date \subseteq Nat
  /\ YearStart <= MonthStart /\ MonthStart <= Today
  /\ OnePercent \in Nat \ {0}
  /\ MaxBrandRank \in Nat
  /\ IsFiniteSet(Date) /\ IsFiniteSet(Team) /\ IsFiniteSet(Name)

VARIABLE board  \* the request that reads a summary

allVars == <<vars, board>>

NoBoard == [phase |-> "idle", today |-> 0, ytd |-> 0, mtd |-> 0,
            headline |-> [sum |-> 0, weight |-> 0], rows |-> {},
            asOf |-> 0, since |-> 0, newest |-> 0]

\* `rows`: what latest_per_team returned.  `since`: history, the last successful
\* run when the reading began; `newest`: history, the latest run read from.
BoardTypeOK ==
  /\ TypeOK
  /\ board \in [phase: {"idle", "ytd", "mtd", "latest", "asOf", "done"},
                today: Nat, ytd: Nat, mtd: Nat,
                headline: [sum: Int, weight: Nat],
                rows: SUBSET [date: Date, amount: Amount, pct: Pct, team: Team],
                asOf: 0..MaxRuns, since: 0..MaxRuns, newest: 0..MaxRuns]

-----------------------------------------------------------------------------
(* Statements *)

Facts(first, last) ==
  {k \in DOMAIN sales : sales[k].by > 0 /\ first <= k[1] /\ k[1] <= last}

SumAmountInRange(first, last) ==
  LET due == Facts(first, last) IN Total([k \in due |-> sales[k].amount], due)

NewestOf(keys) == Max({board.newest} \cup {sales[k].by : k \in keys})

\* DISTINCT ON (team_id) ... ORDER BY date DESC, removed teams included.
LatestPerTeam ==
  {k \in Facts(0, Max(Date)) : \A d \in Date : <<d, k[2]>> \in Facts(0, Max(Date)) => d <= k[1]}

LatestRows ==
  {[date |-> k[1], team |-> k[2], amount |-> sales[k].amount, pct |-> sales[k].pct] :
     k \in LatestPerTeam}

\* Only rows of the latest date count in the headline.
CurrentRows(rows) == {row \in rows : \A other \in rows : other.date <= row.date}

\* The sales-weighted mean of the percentages, as a fraction; weight 0 is None.
AggregateCompanyWide(rows) ==
  LET current == CurrentRows(rows)
  IN [sum |-> Total([row \in current |-> row.pct * row.amount], current),
      weight |-> Total([row \in current |-> row.amount], current)]

\* Python's round(), as Decimal's default: a tie towards the even neighbour.
BugTiesToEven(headline) ==
  LET whole == headline.weight * OnePercent
      up == (2 * headline.sum + whole) \div (2 * whole)
      tie == (2 * headline.sum + whole) % (2 * whole) = 0
  IN IF tie /\ up % 2 = 1 THEN up - 1 ELSE up

\* _round_ties_up and format_percent: the nearest whole percent, a tie towards plus
\* infinity (\div is the floor, as ROUND_FLOOR is).
FormatPercent(headline) ==
  LET whole == headline.weight * OnePercent
  IN (2 * headline.sum + whole) \div (2 * whole)

ReadToday ==
  /\ board.phase \in {"idle", "done"}
  /\ board' = [NoBoard EXCEPT !.phase = "ytd", !.since = LastSuccess,
       !.today = SumAmountInRange(Today, Today),
       !.newest = Max({0} \cup {sales[k].by : k \in Facts(Today, Today)})]

ReadYtd ==
  /\ board.phase = "ytd"
  /\ board' = [board EXCEPT !.phase = "mtd", !.newest = NewestOf(Facts(YearStart, Today)),
       !.ytd = SumAmountInRange(YearStart, Today)]

BugSumsTheYear ==
  /\ board.phase = "mtd"
  /\ board' = [board EXCEPT !.phase = "latest", !.newest = NewestOf(Facts(MonthStart, Today)),
       !.mtd = SumAmountInRange(YearStart, Today)]

ReadMtd ==
  /\ board.phase = "mtd"
  /\ board' = [board EXCEPT !.phase = "latest", !.newest = NewestOf(Facts(MonthStart, Today)),
       !.mtd = SumAmountInRange(MonthStart, Today)]

ReadLatest ==
  /\ board.phase = "latest"
  /\ board' = [board EXCEPT !.phase = "asOf", !.rows = LatestRows,
       !.newest = NewestOf(LatestPerTeam), !.headline = AggregateCompanyWide(LatestRows)]

BugStampsWithTheStart ==
  /\ board.phase = "asOf"
  /\ board' = [board EXCEPT !.phase = "done", !.asOf = board.since]

\* get_last_successful_completed_at, the last statement of get_summary.
ReadDataAsOf ==
  /\ board.phase = "asOf"
  /\ board' = [board EXCEPT !.phase = "done", !.asOf = LastSuccess]

GetSummary == ReadToday \/ ReadYtd \/ ReadMtd \/ ReadLatest \/ ReadDataAsOf

BoardInit == Init /\ board = NoBoard

BoardNext == (GetSummary /\ UNCHANGED vars) \/ (Next /\ UNCHANGED board)

BoardSpec == BoardInit /\ [][BoardNext]_allVars

-----------------------------------------------------------------------------
(* Pure parts *)

BugFocusKeepsLow(top, low) == top

Classified(top, low) == top \cup low

\* _classify_brands: each list is the first n, in its own order, of what the ones
\* before it left; what ties in rank or growth is ordered by name, and what has the
\* same name too stays in the order that list_all returned it in.
ClassifyBrands(rows, topN, lowN, focusN) ==
  LET Named(r, s) == r.name < s.name \/ (r.name = s.name /\ r.place < s.place)
      Better(r, s) == r.rank < s.rank \/ (r.rank = s.rank /\ Named(r, s))
      Worse(r, s) == r.rank > s.rank \/ (r.rank = s.rank /\ Named(r, s))
      Falling(r, s) == r.growth < s.growth \/ (r.growth = s.growth /\ Named(r, s))
      First(n, from, Less(_, _)) ==
        {r \in from : Cardinality({s \in from : Less(s, r)}) < n}
      top == First(topN, rows, Better)
      low == First(lowN, rows \ top, Worse)
      declining == {r \in rows \ Classified(top, low) : r.growth < 0}
  IN [top |-> top, low |-> low, focus |-> First(focusN, declining, Falling)]

-----------------------------------------------------------------------------
(* Properties *)

\* The brands in the order of list_all, from the best rank; names may repeat.
BrandRows ==
  {rows \in UNION {[1..n -> [name: 1..2, rank: 1..MaxBrandRank, growth: -1..1]] : n \in 0..3} :
     \A i, j \in DOMAIN rows : i < j => rows[i].rank <= rows[j].rank}

BrandInputs ==
  {{[place |-> i, name |-> rows[i].name, rank |-> rows[i].rank, growth |-> rows[i].growth] :
      i \in DOMAIN rows} : rows \in BrandRows}

\* No variable of the system is in it: TLC evaluates it in the initial state.
\* A brand is in one list at most; the lists are as long as their limits and
\* the brands allow; nothing left out of top ranks before it, nothing left over
\* ranks behind low, and a declining brand is left out only for want of room.
BrandsClassified ==
  BoardInit => \A rows \in BrandInputs, topN, lowN, focusN \in 0..2 :
    LET lists == ClassifyBrands(rows, topN, lowN, focusN)
        rest == rows \ (lists.top \cup lists.low)
        n == Cardinality(rows)
    IN /\ lists.top \cap lists.low = {}
       /\ lists.focus \subseteq rest
       /\ Cardinality(lists.top) = Min({topN, n})
       /\ Cardinality(lists.low) = Min({lowN, n - Cardinality(lists.top)})
       /\ \A r \in lists.top, s \in rows \ lists.top : r.rank <= s.rank
       /\ \A r \in lists.low, s \in rest : r.rank >= s.rank
       /\ Cardinality(lists.focus)
            = Min({focusN, Cardinality({r \in rest : r.growth < 0})})

\* The company-wide percentage is a mean of the teams' percentages of the latest
\* date, whatever older rows the other teams still have. It is shown as the whole
\* percent nearest to it, the greater one on a tie, between the least and the
\* greatest of theirs as they are shown.
HeadlineIsAMean ==
  LET current == {r \in board.rows : \A s \in board.rows : s.date <= r.date}
      pcts == {r.pct : r \in current}
      mean == board.headline
      whole == mean.weight * OnePercent
      shown == FormatPercent(mean)
      Shown(pct) == FormatPercent([sum |-> pct, weight |-> 1])
  IN mean.weight > 0 =>
       /\ Min(pcts) * mean.weight <= mean.sum /\ mean.sum <= Max(pcts) * mean.weight
       /\ (2 * shown - 1) * whole <= 2 * mean.sum
       /\ 2 * mean.sum < (2 * shown + 1) * whole
       /\ Shown(Min(pcts)) <= shown /\ shown <= Shown(Max(pcts))

\* "Data as of" is read last: no figure comes from a run later than the one the
\* badge names, though figures may miss what it brought.
StampCoversFigures == board.phase = "done" => board.newest <= board.asOf

\* The successful runs whose files tell what name n sold on date d.
Tellers(d, n) ==
  {r \in Succeeded :
     \E i \in Valid(staged[r].sales) :
       staged[r].sales[i].date = d /\ staged[r].sales[i].team = n}

\* What the source says of them: the last valid row of the last of these runs.
SourceRow(d, n) ==
  LET rows == staged[Max(Tellers(d, n))].sales
  IN rows[Max({i \in Valid(rows) : rows[i].date = d /\ rows[i].team = n})]

SourceAmount(d, n) == IF Tellers(d, n) = {} THEN 0 ELSE SourceRow(d, n).amount

SourceTotal(first, last) ==
  LET keys == {k \in Date \X Name : first <= k[1] /\ k[1] <= last}
  IN Total([k \in keys |-> SourceAmount(k[1], k[2])], keys)

\* The row of the latest date that the source tells of, of every name.
ToldDates(n) == {d \in Date : Tellers(d, n) # {}}

SourceLatest ==
  {SourceRow(Max(ToldDates(n)), n) : n \in {m \in Name : ToldDates(m) # {}}}

\* A row that was read, as the source would write it.
AsSource(row) ==
  [date |-> row.date, team |-> teams[row.team].name, amount |-> row.amount,
   pct |-> row.pct, valid |-> TRUE]

\* No team has been renamed or removed: either raises the row's version.
TeamsAsCreated == \A t \in Team : teams[t].version <= 1

\* A summary shows the source's sums, and for every team the source's latest row of
\* its name, through every re-import, repeated row and failed night, unless an import
\* committed while it was read or a team has been renamed or removed.
SummaryShowsTheSource ==
  board.phase = "done" /\ board.since = LastSuccess /\ TeamsAsCreated
    => /\ board.today = SourceTotal(Today, Today)
       /\ board.ytd = SourceTotal(YearStart, Today)
       /\ board.mtd = SourceTotal(MonthStart, Today)
       /\ {AsSource(row) : row \in board.rows} = SourceLatest
=============================================================================
