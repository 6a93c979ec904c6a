----------------------------- MODULE MCAudience -----------------------------
(* Instances of Audience for TLC. *)
EXTENDS Audience, TLC

CONSTANTS l1, u1, u2, m1, m2, m3, g1, g2, s1, s2, a, b

Mobiles == u1 :> m1 @@ u2 :> m2
Teams == u1 :> g1 @@ u2 :> g1
\* A grant and an edit that overlapped have left u1 a consent for another number.
SplitConsents == u1 :> m3 @@ u2 :> None
OwnConsents == u1 :> m1 @@ u2 :> None
\* Overlaps: u1 is picked and on the list or in the team.
Picks == {[users |-> {u1}, team |-> None, list |-> l1], [users |-> {u1}, team |-> g1, list |-> None]}
Rosters == {{u1}, {u1, u2}}
Contents == {[sid |-> s1, slots |-> <<a, b>>], [sid |-> s2, slots |-> <<b, a>>]}

Symmetry == Permutations(Handler)
=============================================================================
