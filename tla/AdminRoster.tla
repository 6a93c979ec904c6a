---------------------------- MODULE AdminRoster ----------------------------
(***************************************************************************)
(* What Accounts promises about who administers the system: the roster is  *)
(* founded once, by one Administrator, and only shrinks after that, never  *)
(* to nobody.  There are no requests, reads or locks here.                 *)
(***************************************************************************)
CONSTANT Admin

VARIABLES
  present, \* Administrators there is a row of
  active   \* those who may log in

roster == <<present, active>>

Init == active \in SUBSET Admin /\ present = active

Found(u) ==
  /\ present = {}
  /\ present' = {u}
  /\ active' = {u}

Retire(u) ==
  /\ u \in active
  /\ active # {u}
  /\ active' = active \ {u}
  /\ UNCHANGED present

Next == \E u \in Admin : Found(u) \/ Retire(u)

Spec == Init /\ [][Next]_roster
=============================================================================
