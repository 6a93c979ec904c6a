--------------------------- MODULE AttemptLedger ---------------------------
(***************************************************************************)
(* What claim_for_dispatch, update_after_send and the transaction around   *)
(* them promise together: a delivery is in the hands of one dispatcher at  *)
(* a time, and a dispatcher that does not lose its transaction leaves      *)
(* exactly one more attempt on the record of everything it held.           *)
(***************************************************************************)
EXTENDS Naturals

CONSTANTS Delivery, Holder, None

VARIABLES
  attempts,  \* attempts on the record of a delivery
  holder     \* who holds it, or None

ledger == <<attempts, holder>>

Held(p) == {d \in Delivery : holder[d] = p}

Init ==
  /\ attempts = [d \in Delivery |-> 0]
  /\ holder = [d \in Delivery |-> None]

Take(p, taken) ==
  /\ Held(p) = {}
  /\ \A d \in taken : holder[d] = None
  /\ holder' = [d \in Delivery |-> IF d \in taken THEN p ELSE holder[d]]
  /\ UNCHANGED attempts

LetGo(p) == holder' = [d \in Delivery |-> IF holder[d] = p THEN None ELSE holder[d]]

Record(p) ==
  /\ attempts' = [d \in Delivery |->
                    IF holder[d] = p THEN attempts[d] + 1 ELSE attempts[d]]
  /\ LetGo(p)

Lose(p) ==
  /\ LetGo(p)
  /\ UNCHANGED attempts

Next ==
  \E p \in Holder :
    \/ \E taken \in SUBSET Delivery : Take(p, taken)
    \/ Record(p)
    \/ Lose(p)

Spec == Init /\ [][Next]_ledger
=============================================================================
