--------------------------- MODULE StoreContract ---------------------------
(***************************************************************************)
(* What the server relies on its store for: each call takes effect at once *)
(* and on one task, or on agents alone; the data file holds the contents   *)
(* as they were after some call, never a part of one; a restart begins     *)
(* with what the file holds, or, if it cannot be read, with nothing.       *)
(***************************************************************************)
CONSTANTS Nothing   \* the contents of an empty store

VARIABLES current,  \* the contents that the calls act on: [agents, tasks]
          saved,    \* the contents of the data file
          running   \* the server is up

Init == current = Nothing /\ saved = Nothing /\ running = TRUE

(* A write to disk may fail, after which the call returns all the same. *)
Call == running /\ running' /\ saved' \in {saved, current'}

(* A call on a task changes it or adds it, and no call removes one. *)
ChangeTask(t) ==
    /\ current' = [current EXCEPT !.tasks[t] = current'.tasks[t]]
    /\ current'.tasks[t] # Nothing.tasks[t]
    /\ Call

ChangeAgents ==
    /\ current' = [current EXCEPT !.agents = current'.agents]
    /\ Call

(* What the file holds afterwards is not the store's to say: the power may  *)
(* have failed.                                                             *)
Stop == running /\ ~running' /\ UNCHANGED current

Start == ~running /\ running' /\ current' \in {saved, Nothing} /\ UNCHANGED saved

Next == (\E t \in DOMAIN current.tasks : ChangeTask(t)) \/ ChangeAgents \/ Stop \/ Start

Spec == Init /\ [][Next]_<<current, saved, running>>
=============================================================================
