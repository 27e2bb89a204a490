----------------------------- MODULE AgentClient -----------------------------
(***************************************************************************)
(* The agent process: the loop that connects again and again               *)
(* (cmd/agent/main.go) and the goroutines of one Connect call              *)
(* (internal/agent/client.go): the reader, which fills taskCh; the         *)
(* executor, which runs scripts and reports on them; the writer, which     *)
(* empties send. Connect closes taskCh and the socket when it returns, but *)
(* waits for neither goroutine: an executor outlives its connection.       *)
(*                                                                         *)
(* The other side is not in this module. Receive, Drop, Rejected,          *)
(* Disconnected and what the writer does are the agent's halves of steps   *)
(* that Delivery takes together with the hub.                              *)
(***************************************************************************)
EXTENDS Naturals, Sequences, FiniteSets

CONSTANTS
    Conns,          \* connections, one per call of Connect
    NoConn,         \* "not connected": not an element of Conns
    Tasks,          \* the tasks a frame may carry
    NoTask,         \* "no task in hand": not an element of Tasks
    Outcomes,       \* the final statuses of a task
    SendCap,        \* capacity of send (32 in the code)
    AgentQueueCap   \* capacity of taskCh (8 in the code)

VARIABLES
    main,      \* the process: its loop dials or reads, or it has ended
    live,      \* the connection that Connect is reading from
    taskCh,    \* the tasks received and not yet taken by the executor
    executor,  \* the goroutine that runs the scripts of a connection
    hand,      \* the task it has in hand
    send,      \* the reports waiting to be written
    sender,    \* the goroutine that writes them
    \* History, read by no guard.
    starts     \* how often the executor of a connection began with a task

clientVars == <<main, live, taskCh, executor, hand, send, sender, starts>>

Reports == Tasks \X ({"running"} \cup Outcomes)

ClientTypeOK ==
    /\ main \in {"dial", "read", "exited", "stopped"}
    /\ live \in Conns \cup {NoConn}
    /\ taskCh \in [Conns -> Seq(Tasks)]
    /\ executor \in [Conns -> {"none", "wait", "announce", "run", "report", "gone"}]
    /\ hand \in [Conns -> Tasks \cup {NoTask}]
    /\ send \in [Conns -> Seq(Reports)]
    /\ sender \in [Conns -> {"none", "run", "stopped"}]
    /\ starts \in [Conns -> [Tasks -> Nat]]

Init ==
    /\ main = "dial"
    /\ live = NoConn
    /\ taskCh = [c \in Conns |-> <<>>]
    /\ executor = [c \in Conns |-> "none"]
    /\ hand = [c \in Conns |-> NoTask]
    /\ send = [c \in Conns |-> <<>>]
    /\ sender = [c \in Conns |-> "none"]
    /\ starts = [c \in Conns |-> [t \in Tasks |-> 0]]

-----------------------------------------------------------------------------
(* The loop and the reader. *)

(* Connect dials, queues its hello and starts its goroutines. *)
Dial(c) ==
    /\ main = "dial"
    /\ executor[c] = "none"
    /\ main' = "read"
    /\ live' = c
    /\ executor' = [executor EXCEPT ![c] = "wait"]
    /\ sender' = [sender EXCEPT ![c] = "run"]
    /\ UNCHANGED <<taskCh, hand, send, starts>>

Receive(c, t) ==
    /\ live = c
    /\ Len(taskCh[c]) < AgentQueueCap
    /\ taskCh' = [taskCh EXCEPT ![c] = Append(@, t)]
    /\ UNCHANGED <<main, live, executor, hand, send, sender, starts>>

(* The queue is full: the task is logged and forgotten. *)
Drop(c, t) ==
    /\ live = c
    /\ Len(taskCh[c]) >= AgentQueueCap
    /\ UNCHANGED clientVars

(* A read fails: Connect closes taskCh and returns, the loop backs off and  *)
(* dials again.                                                             *)
Disconnected(c) ==
    /\ live = c
    /\ main' = "dial"
    /\ live' = NoConn
    /\ UNCHANGED <<taskCh, executor, hand, send, sender, starts>>

(* The end of the process ends every goroutine. *)
ProcessEnds ==
    /\ live' = NoConn
    /\ executor' = [c \in Conns |-> IF executor[c] = "none" THEN "none" ELSE "gone"]
    /\ taskCh' = [c \in Conns |-> <<>>]
    /\ hand' = [c \in Conns |-> NoTask]
    /\ send' = [c \in Conns |-> <<>>]
    /\ sender' = [c \in Conns |-> IF sender[c] = "none" THEN "none" ELSE "stopped"]
    /\ UNCHANGED starts

(* An error frame is fatal: run returns the error and does not retry. *)
Rejected(c) ==
    /\ live = c
    /\ main' = "exited"
    /\ ProcessEnds

(* SIGTERM cancels the context, which ends the loop; nothing waits for a    *)
(* script that is running.                                                  *)
Terminate ==
    /\ main \in {"dial", "read"}
    /\ main' = "stopped"
    /\ ProcessEnds

(* systemd restarts the service after a failure. *)
ServiceRestart ==
    /\ main = "exited"
    /\ main' = "dial"
    /\ UNCHANGED <<live, taskCh, executor, hand, send, sender, starts>>

-----------------------------------------------------------------------------
(* The executor: for task := range taskCh. *)

(* Mutant of Take: the task stays in the queue while it is run. *)
TakeKeepsTask(c) ==
    /\ executor[c] = "wait"
    /\ taskCh[c] # <<>>
    /\ hand' = [hand EXCEPT ![c] = Head(taskCh[c])]
    /\ executor' = [executor EXCEPT ![c] = "announce"]
    /\ UNCHANGED <<main, live, taskCh, send, sender, starts>>

Take(c) ==
    /\ executor[c] = "wait"
    /\ taskCh[c] # <<>>
    /\ hand' = [hand EXCEPT ![c] = Head(taskCh[c])]
    /\ taskCh' = [taskCh EXCEPT ![c] = Tail(@)]
    /\ executor' = [executor EXCEPT ![c] = "announce"]
    /\ UNCHANGED <<main, live, send, sender, starts>>

(* sendMsg waits while send is full. The script starts after the report. *)
Announce(c) ==
    /\ executor[c] = "announce"
    /\ Len(send[c]) < SendCap
    /\ send' = [send EXCEPT ![c] = Append(@, <<hand[c], "running">>)]
    /\ starts' = [starts EXCEPT ![c][hand[c]] = @ + 1]
    /\ executor' = [executor EXCEPT ![c] = "run"]
    /\ UNCHANGED <<main, live, taskCh, hand, sender>>

ScriptEnds(c) ==
    /\ executor[c] = "run"
    /\ executor' = [executor EXCEPT ![c] = "report"]
    /\ UNCHANGED <<main, live, taskCh, hand, send, sender, starts>>

(* Mutant of Report: a full channel drops the report. *)
ReportOrDrop(c, s) ==
    /\ executor[c] = "report"
    /\ send' = IF Len(send[c]) < SendCap
               THEN [send EXCEPT ![c] = Append(@, <<hand[c], s>>)] ELSE send
    /\ hand' = [hand EXCEPT ![c] = NoTask]
    /\ executor' = [executor EXCEPT ![c] = "wait"]
    /\ UNCHANGED <<main, live, taskCh, sender, starts>>

Report(c, s) ==
    /\ executor[c] = "report"
    /\ Len(send[c]) < SendCap
    /\ send' = [send EXCEPT ![c] = Append(@, <<hand[c], s>>)]
    /\ hand' = [hand EXCEPT ![c] = NoTask]
    /\ executor' = [executor EXCEPT ![c] = "wait"]
    /\ UNCHANGED <<main, live, taskCh, sender, starts>>

(* A closed taskCh is drained before the range loop ends. *)
ExecutorEnds(c) ==
    /\ executor[c] = "wait"
    /\ live # c
    /\ taskCh[c] = <<>>
    /\ executor' = [executor EXCEPT ![c] = "gone"]
    /\ UNCHANGED <<main, live, taskCh, hand, send, sender, starts>>

Execute(c) == Take(c) \/ Announce(c) \/ ScriptEnds(c) \/ ExecutorEnds(c)
              \/ \E s \in Outcomes : Report(c, s)

(* The writer: a report leaves for the server ... *)
Transmit(c) ==
    /\ live = c
    /\ sender[c] = "run"
    /\ send[c] # <<>>
    /\ send' = [send EXCEPT ![c] = Tail(@)]
    /\ UNCHANGED <<main, live, taskCh, executor, hand, sender, starts>>

(* ... or goes nowhere. The write fails, or the kernel still buffers it     *)
(* unless Connect has closed the socket. Nobody tells the writer that       *)
(* Connect has returned.                                                    *)
TransmitIntoVoid(c) ==
    /\ sender[c] = "run"
    /\ send[c] # <<>>
    /\ send' = [send EXCEPT ![c] = Tail(@)]
    /\ \/ live = c /\ UNCHANGED sender
       \/ sender' = [sender EXCEPT ![c] = "stopped"]
    /\ UNCHANGED <<main, live, taskCh, executor, hand, starts>>

PingFails(c) ==
    /\ sender[c] = "run"
    /\ sender' = [sender EXCEPT ![c] = "stopped"]
    /\ UNCHANGED <<main, live, taskCh, executor, hand, send, starts>>

-----------------------------------------------------------------------------
(* What the server still has to hear of. *)

(* The reports in send alternate: after a task's running report comes its    *)
(* final one, then the running report of the next task.                     *)
ReportsPairedOn(c) ==
    \A i \in 1..(Len(send[c]) - 1) :
        LET report == send[c][i]
            next == send[c][i + 1]
        IN  IF report[2] = "running" THEN next[1] = report[1] /\ next[2] # "running"
            ELSE next[2] = "running"

(* So the final ones are every second report, from the first or second on:  *)
(* these are their tasks.                                                   *)
FirstFinal(s) == IF s = <<>> \/ s[1][2] = "running" THEN 2 ELSE 1
FinalTasks(s) ==
    [i \in 1..((Len(s) + 2 - FirstFinal(s)) \div 2) |-> s[FirstFinal(s) + 2 * i - 2][1]]

(* The tasks whose final report has not been written: those with a final    *)
(* report in send, the one in hand, and those in taskCh, in this order.     *)
InHand(c) == IF hand[c] = NoTask THEN <<>> ELSE <<hand[c]>>
Unreported(c) == FinalTasks(send[c]) \o InHand(c) \o taskCh[c]

(* The running report of the first of them has been written. *)
FirstStarted(c) ==
    \/ send[c] = <<>> /\ executor[c] \in {"run", "report"}
    \/ send[c] # <<>> /\ Head(send[c])[2] # "running"
=============================================================================
