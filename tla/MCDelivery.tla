----------------------------- MODULE MCDelivery -----------------------------
(* Instances of Delivery for TLC: one agent. *)
EXTENDS Delivery, TLC

CONSTANTS a1, c1, c2, r1, r2

OneAgent == [c \in Conns |-> a1]

=============================================================================
