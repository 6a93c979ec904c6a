---------------------------- MODULE MCDailyReport ----------------------------
(* Instances of DailyReport for TLC. *)
EXTENDS DailyReport, TLC

\* Recipients and scheduler processes are interchangeable; safety runs only.
Symmetry == Permutations(Recipient) \cup Permutations(Scheduler)
=============================================================================
