------------------------------ MODULE MCStore ------------------------------
(* An instance of the store for TLC. *)
EXTENDS Store

CONSTANTS a1, t1    \* agent IDs, task IDs
=============================================================================
