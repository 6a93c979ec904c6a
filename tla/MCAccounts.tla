----------------------------- MODULE MCAccounts -----------------------------
(* Instances of Accounts for TLC. *)
EXTENDS Accounts, TLC

\* Administrators and handlers are interchangeable.
Symmetry == Permutations(Admin) \cup Permutations(Request)
=============================================================================
