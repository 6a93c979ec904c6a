---------------------------- MODULE MCDirectory ----------------------------
(* Instances of Directory for TLC. *)
EXTENDS Directory, TLC

\* Users, numbers and handlers are interchangeable.
Symmetry ==
  Permutations(User) \cup Permutations(Mobile) \cup Permutations(Request)
=============================================================================
