---------------------------- MODULE MCDashboard ----------------------------
(* Instances of NightlyImport and Dashboard for TLC. *)
EXTENDS Dashboard, TLC

CONSTANTS n1, n2, x1, b1

Sale(d, n, a, p, ok) == [date |-> d, team |-> n, amount |-> a, pct |-> p, valid |-> ok]
Rank(r, g, ok) == [brand |-> b1, rank |-> r, growth |-> g, valid |-> ok]
Visit(n, ok, more) == [doctor |-> x1, territory |-> n, valid |-> ok, extra |-> more]

\* Percentages are in halves: the headline is -9.5 or 0.5, which are ties, or, of both
\* files, a fraction between -3 and -2.
\* A first night; a corrected one with a repeated key, a rejected row and a doctor
\* that moved; a file with a malformed doctor.
Files == {
  [sales |-> <<Sale(1, n1, 1, 2, TRUE), Sale(3, n2, 1, -19, TRUE)>>,
   brands |-> <<Rank(1, 0, TRUE)>>,
   doctors |-> <<Visit(n1, TRUE, "none")>>],
  [sales |-> <<Sale(3, n1, 3, 1, FALSE), Sale(3, n1, 1, 1, TRUE), Sale(3, n1, 2, 1, TRUE)>>,
   brands |-> <<Rank(2, -1, TRUE), Rank(0, 0, FALSE)>>,
   doctors |-> <<Visit(n2, TRUE, "none"), Visit(n1, TRUE, "named")>>],
  [sales |-> <<Sale(2, n2, 2, 0, TRUE)>>, brands |-> <<>>,
   doctors |-> <<Visit(n1, TRUE, "unnamed")>>]}

Symmetry == Permutations(Team) \cup Permutations(Importer) \cup Permutations(Handler)
=============================================================================
