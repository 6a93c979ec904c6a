----------------------------- MODULE DailyLedger -----------------------------
(***************************************************************************)
(* What the advisory lock, the unique index and the one transaction of a   *)
(* daily_report run promise together: reports are sent one at a time, each  *)
(* to recipients without one for that day; every recipient is dealt with    *)
(* once before the report is on file; and what is lost was not filed.      *)
(***************************************************************************)
EXTENDS Naturals

CONSTANTS Day, Recipient

VARIABLES
  filed,     \* reports on file: their day and their rows
  open,      \* the report being sent, if any, and the rows still to do
  messages,  \* messages sent, per day and recipient
  lost       \* senders lost

ledger == <<filed, open, messages, lost>>

Init ==
  /\ filed = {}
  /\ open = {}
  /\ messages = [d \in Day |-> [r \in Recipient |-> 0]]
  /\ lost = 0

Open(d, rows) ==
  /\ open = {}
  /\ rows # {}
  /\ \A f \in filed : f.day = d => f.rows \cap rows = {}
  /\ open' = {[day |-> d, rows |-> rows, todo |-> rows]}
  /\ UNCHANGED <<filed, messages, lost>>

Send(o, r) ==
  /\ open' = {[day |-> o.day, rows |-> o.rows, todo |-> o.todo \ {r}]}
  /\ messages' \in {messages, [messages EXCEPT ![o.day][r] = @ + 1]}
  /\ UNCHANGED <<filed, lost>>

File(o) ==
  /\ o.todo = {}
  /\ filed' = filed \cup {[day |-> o.day, rows |-> o.rows]}
  /\ open' = {}
  /\ UNCHANGED <<messages, lost>>

\* A sender is lost: the one that was sending, or one that was not yet.
Lose ==
  /\ lost' = lost + 1
  /\ open' \in {{}, open}
  /\ UNCHANGED <<filed, messages>>

Next ==
  \/ \E d \in Day, rows \in SUBSET Recipient : Open(d, rows)
  \/ \E o \in open : (\E r \in o.todo : Send(o, r)) \/ File(o)
  \/ Lose

Spec == Init /\ [][Next]_ledger
=============================================================================
