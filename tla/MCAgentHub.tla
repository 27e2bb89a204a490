----------------------------- MODULE MCAgentHub -----------------------------
(* Instances of AgentHub for TLC: which agent each connection belongs to.   *)
EXTENDS AgentHub, TLC

CONSTANTS a1, a2, c1, c2, c3, r1, r2

(* All connections are dialled with one agent ID. *)
OneAgent == [c \in Conns |-> a1]

(* Two connections of a1, one of a2. *)
TwoAgents == [c \in Conns |-> IF c = c3 THEN a2 ELSE a1]

(* Connections of one agent are interchangeable, and so are requests. *)
ConnsOfA1 == {c \in Conns : AgentOf[c] = a1}
Symmetry == Permutations(ConnsOfA1) \cup Permutations(Requests)
=============================================================================
