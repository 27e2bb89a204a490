------------------------------ MODULE Delivery ------------------------------
(***************************************************************************)
(* The server's hub and one agent process, end to end: AgentHub and        *)
(* AgentClient take the steps of a connection together. The network may    *)
(* fail at any time without telling either side, and each side finds out   *)
(* on its own.                                                             *)
(*                                                                         *)
(* AgentHub's own model of the peer takes no part in the steps. In H it is *)
(* derived from the agent's state, and that AgentHub with this peer allows *)
(* every step is a property of this module.                                *)
(***************************************************************************)
EXTENDS Naturals, Sequences, FiniteSets

CONSTANTS Agents, Conns, NoConn, NoAgent, AgentOf, Requests, Outcomes, SendCap,
          AgentQueueCap, MaxCrashes, NoTask,
          ReportCap,  \* capacity of the agent's send, SendCap being the server's
          Fragile     \* bound: the connections that the network may break

VARIABLES conns, closed, sendq, handler, unflushed, writer, sock, agentStatus,
          taskStatus, request, todo, current, target, crashes, reached, offers, loaded,
          main, live, taskCh, executor, hand, send, sender, starts

ASSUME DeliveryAssumption ==
    /\ NoConn \notin Conns /\ NoAgent \notin Agents /\ NoTask \notin Requests \X Agents
    /\ AgentOf \in [Conns -> Agents]
    /\ Outcomes \subseteq {"completed", "failed"}
    /\ SendCap \in Nat \ {0} /\ AgentQueueCap \in Nat /\ MaxCrashes \in Nat
    /\ ReportCap \in Nat \ {0}

C == INSTANCE AgentClient WITH Tasks <- Requests \X Agents, SendCap <- ReportCap

(* The server's steps, without the peer that AgentHub assumes.              *)
S == INSTANCE AgentHub WITH inbox <- [c \in Conns |-> <<>>],
                            started <- [c \in Conns |-> FALSE]

(* The peer of AgentHub: what the agent has accepted and not yet reported.  *)
Inbox == [c \in Conns |-> IF sock[c] = "up" THEN C!Unreported(c) ELSE <<>>]
Started == [c \in Conns |-> sock[c] = "up" /\ C!FirstStarted(c)]

H == INSTANCE AgentHub WITH inbox <- Inbox, started <- Started

serverVars == <<conns, closed, sendq, handler, unflushed, writer, sock, agentStatus,
                taskStatus, request, todo, current, target, crashes, reached, offers, loaded>>
agentVars == <<main, live, taskCh, executor, hand, send, sender, starts>>
vars == <<serverVars, agentVars>>

Init == S!Init /\ C!Init

-----------------------------------------------------------------------------
Dial(c) == C!Dial(c) /\ S!Dial(c)

(* A task frame crosses the network. *)
DeliverTask(c) ==
    /\ sendq[c] # <<>>
    /\ C!Receive(c, Head(sendq[c])) \/ C!Drop(c, Head(sendq[c]))
    /\ S!ServerWrites(c)

(* A report crosses the network. *)
DeliverReport(c) ==
    /\ C!Transmit(c)
    /\ S!ServerReads(c, Head(send[c])[1], Head(send[c])[2])

(* The server's rejection reaches the agent unless the network failed. *)
Reject(c) ==
    /\ IF sock[c] = "up" THEN C!Rejected(c) ELSE UNCHANGED agentVars
    /\ S!RejectDuplicate(c)

(* The agent's read fails, at once or by its own deadline. *)
AgentDisconnects(c) ==
    /\ sock[c] \in {"lost", "closed"}
    /\ C!Disconnected(c)
    /\ UNCHANGED serverVars

(* The process closes its socket on the way out. *)
AgentStops ==
    /\ C!Terminate
    /\ IF live # NoConn /\ sock[live] = "up" THEN S!LoseConnection(live)
       ELSE UNCHANGED serverVars

ServerStep(c) ==
    /\ UNCHANGED agentVars
    /\ \/ S!ReadHello(c) \/ S!HelloFails(c) \/ S!AcceptHello(c) \/ S!UpsertAgent(c)
       \/ S!Register(c) \/ S!ListPending(c) \/ (\E t \in S!Tasks : S!FlushTask(c, t))
       \/ S!FlushPanics(c) \/ S!StartLoops(c)

WriterStep(c) == UNCHANGED agentVars /\ (S!WriteIntoVoid(c) \/ S!StopWriter(c))

CleanUp(c) == UNCHANGED agentVars /\ S!CleanUp(c)

Lose(c) == c \in Fragile /\ UNCHANGED agentVars /\ S!LoseConnection(c)

RequestStep(r) == UNCHANGED agentVars /\ S!Serve(r)

Other ==
    /\ UNCHANGED agentVars
    /\ \/ \E r \in Requests : S!Post(r)
       \/ \E A \in SUBSET Agents : S!StaleSweep(A)
       \/ S!Restart

AgentStep(c) == C!Execute(c) /\ UNCHANGED serverVars

ReportIntoVoid(c) ==
    /\ sock[c] # "up"
    /\ C!TransmitIntoVoid(c) \/ C!PingFails(c)
    /\ UNCHANGED serverVars

ServiceRestart == C!ServiceRestart /\ UNCHANGED serverVars

Next ==
    \/ \E c \in Conns : \/ Dial(c) \/ DeliverTask(c) \/ DeliverReport(c) \/ Reject(c)
                        \/ AgentDisconnects(c) \/ ServerStep(c) \/ WriterStep(c)
                        \/ CleanUp(c) \/ Lose(c) \/ AgentStep(c) \/ ReportIntoVoid(c)
    \/ \E r \in Requests : RequestStep(r)
    \/ Other \/ AgentStops \/ ServiceRestart

Spec == Init /\ [][Next]_vars

(* What happens by itself: the goroutines of both sides run, the agent's    *)
(* loop dials again, and scripts end. Nothing makes a client post, the      *)
(* network fail or a process stop.                                          *)
Progress ==
    \/ \E c \in Conns : \/ CleanUp(c) \/ AgentStep(c) \/ ReportIntoVoid(c) \/ WriterStep(c)
                        \/ AgentDisconnects(c) \/ ServerStep(c) \/ DeliverTask(c)
                        \/ DeliverReport(c) \/ Dial(c) \/ Reject(c)
    \/ \E r \in Requests : RequestStep(r)

(* Less than fairness to each goroutine, which the scheduler gives, and     *)
(* enough here: none of them can go on for ever while others wait.          *)
Fairness == WF_vars(Progress)

FairSpec == Spec /\ Fairness

-----------------------------------------------------------------------------
(* Every state component has its type, on both sides and in the peer that   *)
(* is derived from the agent.                                               *)
DeliveryTypeOK == C!ClientTypeOK /\ H!TypeOK

(* The agent, with its queues and its executors that outlive connections,   *)
(* behaves towards the server like the peer that AgentHub assumes: it       *)
(* reports on the frames of a connection in order, twice each.              *)
PeerRefined == H!Spec

(* On every connection, live or not, the reports that wait alternate: after *)
(* a task's running report comes its final one, then the running report of  *)
(* the next task. No full channel, lost connection or write into the void   *)
(* leaves a gap in front of a report that is still waiting.                 *)
ReportsPaired == \A c \in Conns : C!ReportsPairedOn(c)

(* On each connection, a script is started at most as often as its task was *)
(* put on the connection's channel by the server: no queue, reconnect or    *)
(* restart of the agent repeats a task or takes it to another connection.   *)
StartsBacked == \A c \in Conns : \A t \in H!Tasks : starts[c][t] <= offers[c, t]

(* A task is left running with nobody to report its end only if a           *)
(* connection on which its script was started was lost: otherwise the       *)
(* executor of a working connection is busy with it, or its final report    *)
(* is on its way.                                                           *)
RunningOnConnection ==
    \A t \in H!Tasks : taskStatus[t] = "running" =>
        \/ \E c \in Conns : starts[c][t] > 0 /\ sock[c] # "up"
        \/ \E c \in Conns : /\ sock[c] = "up" /\ C!FirstStarted(c)
                            /\ C!Unreported(c) # <<>> /\ Head(C!Unreported(c)) = t

(* Once a connection stays up, no task of its agent stays pending and every *)
(* task put on it comes to an end, whatever the agent's earlier connections *)
(* left behind. The queues must have room for all tasks: neither push nor   *)
(* the agent repeats what a full queue made it drop.                        *)
StableConnectionDelivers ==
    \A c \in Conns :
        <>[](handler[c] = "serve" /\ sock[c] = "up")
        => <>[](\A t \in H!TasksOf(AgentOf[c]) :
                   /\ taskStatus[t] # "pending"
                   /\ t \in reached[c] => taskStatus[t] \in Outcomes)

-----------------------------------------------------------------------------
(* What the documentation says and the code does not do.                    *)

(* client.go 162-163: "tasks are executed sequentially by a single          *)
(* goroutine so that scripts on the Pi don't trample each other". So at     *)
(* most one executor runs a script. One is started per connection, and the  *)
(* one before it may still be running.                                      *)
ScriptsSequential ==
    Cardinality({c \in Conns : executor[c] = "run"}) <= 1

(* README.md 352: "If the connection drops the agent reconnects             *)
(* automatically". So the only agent with its ID is never sent away. After  *)
(* a failure that the server has not noticed, its old entry is in the way.  *)
AgentKeepsReconnecting == main # "exited"
=============================================================================
