---------------------------- MODULE MCDeliveries ----------------------------
(* Instances of Deliveries for TLC. *)
EXTENDS Deliveries, TLC

CONSTANT anEvent

\* Every row belongs to one Send Event.
OneEvent == [d \in Delivery |-> anEvent]

\* Rows and handlers are interchangeable; used without liveness only.
Symmetry == Permutations(Delivery) \cup Permutations(Hook)
=============================================================================
