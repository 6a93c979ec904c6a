------------------------------- MODULE Totals -------------------------------
(***************************************************************************)
(* Sums over finite sets, as SQL's SUM and Python's sum() compute them.    *)
(***************************************************************************)
EXTENDS FiniteSetsExt

\* The sum of w[x] over the x in S; 0 if there is none.
Total(w, S) == MapThenSumSet(LAMBDA x : w[x], S)
=============================================================================
