--------------------------- MODULE Delivery_proofs ---------------------------
(* The hub and the agent together: the agent implements the peer that       *)
(* AgentHub assumes, so that what AgentHub_proofs shows of the server holds *)
(* with the real agent, and the properties that need both sides follow from *)
(* that and from AgentClient_proofs.                                        *)
EXTENDS Delivery, TLAPS

A == INSTANCE AgentClient_proofs WITH Tasks <- Requests \X Agents, SendCap <- ReportCap
P == INSTANCE AgentHub_proofs WITH inbox <- Inbox, started <- Started

(* The agent reads from the connection whose socket works, and before the   *)
(* server writes to that connection the agent has nothing to do on it.      *)
LinkInv ==
    \A c \in Conns :
        sock[c] = "up" =>
            /\ live = c
            /\ writer[c] = "none" => /\ executor[c] = "wait"
                                     /\ taskCh[c] = <<>> /\ send[c] = <<>>

(* Every start of a script, and every one that is still to come, has an     *)
(* offer of its own.                                                        *)
OwedInv ==
    \A c \in Conns : \A t \in Requests \X Agents :
        A!Owed(c, t) + A!Count(sendq[c], t) <= offers[<<c, t>>]

DeliveryInv == P!TypeInv /\ P!SocketInv /\ A!ClientInv /\ LinkInv /\ OwedInv

USE DeliveryAssumption

-----------------------------------------------------------------------------
(* The assumptions of the two modules hold for these instances. *)

LEMMA ClientAssumed == A!ClientConstants
BY DEF A!ClientConstants

LEMMA HubAssumed ==
    /\ NoConn \notin Conns /\ NoAgent \notin Agents
    /\ AgentOf \in [Conns -> Agents]
    /\ Outcomes \subseteq {"completed", "failed"}
    /\ SendCap \in Nat \ {0} /\ AgentQueueCap \in Nat /\ MaxCrashes \in Nat
OBVIOUS

-----------------------------------------------------------------------------
(* The peer that is derived from the agent. *)

LEMMA PeerIs ==
    /\ Inbox = [c \in Conns |-> IF sock[c] = "up" THEN A!Unreported(c) ELSE <<>>]
    /\ Started = [c \in Conns |-> sock[c] = "up" /\ A!FirstStarted(c)]
BY DEF Inbox, Started, C!Unreported, C!FirstStarted, C!InHand, C!FinalTasks, C!FirstFinal,
       A!Unreported, A!FirstStarted, A!InHand, A!FinalTasks, A!FirstFinal

LEMMA PeerIsNext ==
    /\ Inbox' = [c \in Conns |-> IF sock'[c] = "up" THEN A!Unreported(c)' ELSE <<>>]
    /\ Started' = [c \in Conns |-> sock'[c] = "up" /\ A!FirstStarted(c)']
BY DEF Inbox, Started, C!Unreported, C!FirstStarted, C!InHand, C!FinalTasks, C!FirstFinal,
       A!Unreported, A!FirstStarted, A!InHand, A!FinalTasks, A!FirstFinal

(* It changes where a step says so. *)
LEMMA PeerExcept ==
    ASSUME NEW c \in Conns, NEW i, NEW b,
           Inbox'[c] = i, Started'[c] = b,
           \A d \in Conns \ {c} : Inbox'[d] = Inbox[d] /\ Started'[d] = Started[d]
    PROVE  Inbox' = [Inbox EXCEPT ![c] = i] /\ Started' = [Started EXCEPT ![c] = b]
<1>1. /\ Inbox = [d \in Conns |-> Inbox[d]] /\ Inbox' = [d \in Conns |-> Inbox'[d]]
  BY DEF Inbox
<1>2. Started = [d \in Conns |-> Started[d]] /\ Started' = [d \in Conns |-> Started'[d]]
  BY Zenon DEF Started
<1>3. Inbox' = [Inbox EXCEPT ![c] = i]
  BY <1>1
<1>4. Started' = [Started EXCEPT ![c] = b]
  BY <1>2
<1> QED BY <1>3, <1>4

LEMMA PeerSame ==
    ASSUME \A d \in Conns : Inbox'[d] = Inbox[d] /\ Started'[d] = Started[d]
    PROVE  Inbox' = Inbox /\ Started' = Started
BY PeerIs, PeerIsNext

LEMMA PeerKept ==
    ASSUME UNCHANGED agentVars, \A c \in Conns : sock'[c] = "up" <=> sock[c] = "up"
    PROVE  Inbox' = Inbox /\ Started' = Started
<1>1. \A c \in Conns : A!Unreported(c)' = A!Unreported(c) /\ A!FirstStarted(c)' = A!FirstStarted(c)
  BY DEF agentVars, A!Unreported, A!FirstStarted, A!InHand
<1>2. \A c \in Conns : Inbox'[c] = Inbox[c] /\ Started'[c] = Started[c]
  BY <1>1, PeerIs, PeerIsNext
<1> QED BY <1>2, PeerSame

(* A connection that is lost, or was not yet in use, holds nothing. *)
LEMMA PeerGone ==
    ASSUME NEW c \in Conns, UNCHANGED agentVars, sock'[c] # "up",
           \A d \in Conns \ {c} : sock'[d] = sock[d]
    PROVE  /\ Inbox' = [Inbox EXCEPT ![c] = <<>>]
           /\ Started' = [Started EXCEPT ![c] = FALSE]
<1>1. \A d \in Conns : A!Unreported(d)' = A!Unreported(d) /\ A!FirstStarted(d)' = A!FirstStarted(d)
  BY DEF agentVars, A!Unreported, A!FirstStarted, A!InHand
<1>3. \A d \in Conns \ {c} : Inbox'[d] = Inbox[d] /\ Started'[d] = Started[d]
  BY <1>1, PeerIs, PeerIsNext
<1>4. Inbox'[c] = <<>> /\ Started'[c] = FALSE
  BY PeerIsNext
<1> QED BY <1>3, <1>4, PeerExcept

-----------------------------------------------------------------------------
(* The two instances count alike. *)
LEMMA CountSame == \A q, x : P!Count(q, x) = A!Count(q, x)
BY DEF A!Count, A!Positions, P!Count, P!Positions, A!Cardinality, P!Cardinality

(* The frames on a channel carry tasks. *)
LEMMA ServerTypes ==
    ASSUME P!TypeInv
    PROVE  /\ sendq \in [Conns -> Seq(Requests \X Agents)]
           /\ offers \in [Conns \X (Requests \X Agents) -> Nat]
           /\ taskStatus \in [Requests \X Agents -> {"none", "pending", "running", "completed", "failed"}]
           /\ sock \in [Conns -> {"none", "up", "lost", "closed"}]
           /\ writer \in [Conns -> {"none", "run", "stopped"}]
BY DEF P!TypeInv, P!TypeOK, P!Tasks, P!TaskStatuses

(* Every joint step is a step of the agent, or none. *)
LEMMA ClientSteps == P!TypeInv /\ [Next]_vars => [A!ClientNext]_(A!clientVars)
<1> SUFFICES ASSUME P!TypeInv, [Next]_vars PROVE [A!ClientNext]_(A!clientVars)
  OBVIOUS
<1>1. CASE UNCHANGED agentVars
  BY <1>1 DEF agentVars, A!clientVars
<1>2. ASSUME NEW c \in Conns, Dial(c) PROVE A!Dial(c)
  BY <1>2 DEF Dial, C!Dial, A!Dial
<1>3. ASSUME NEW c \in Conns, DeliverTask(c)
      PROVE  \E t \in Requests \X Agents : A!Receive(c, t) \/ A!Drop(c, t)
  <2>1. Head(sendq[c]) \in Requests \X Agents
    BY <1>3, ServerTypes DEF DeliverTask
  <2> QED
    BY <1>3, <2>1
    DEF DeliverTask, C!Receive, C!Drop, A!Receive, A!Drop, C!clientVars, A!clientVars
<1>4. ASSUME NEW c \in Conns, DeliverReport(c) PROVE A!Transmit(c)
  BY <1>4 DEF DeliverReport, C!Transmit, A!Transmit
<1>5. ASSUME NEW c \in Conns, Reject(c) PROVE A!Rejected(c) \/ UNCHANGED agentVars
  BY <1>5 DEF Reject, C!Rejected, A!Rejected, C!ProcessEnds, A!ProcessEnds
<1>6. ASSUME NEW c \in Conns, AgentDisconnects(c) PROVE A!Disconnected(c)
  BY <1>6 DEF AgentDisconnects, C!Disconnected, A!Disconnected
<1>7. ASSUME NEW c \in Conns, AgentStep(c) PROVE A!Execute(c)
  BY <1>7 DEF AgentStep, C!Execute, A!Execute, C!Take, A!Take, C!Announce, A!Announce,
              C!ScriptEnds, A!ScriptEnds, C!ExecutorEnds, A!ExecutorEnds, C!Report, A!Report
<1>8. ASSUME NEW c \in Conns, ReportIntoVoid(c) PROVE A!TransmitIntoVoid(c) \/ A!PingFails(c)
  BY <1>8 DEF ReportIntoVoid, C!TransmitIntoVoid, A!TransmitIntoVoid, C!PingFails, A!PingFails
<1>9. ASSUME AgentStops PROVE A!Terminate
  BY <1>9 DEF AgentStops, C!Terminate, A!Terminate, C!ProcessEnds, A!ProcessEnds
<1>10. ASSUME ServiceRestart PROVE A!ServiceRestart
  BY <1>10 DEF ServiceRestart, C!ServiceRestart, A!ServiceRestart
<1>11. ASSUME NEW c \in Conns, ServerStep(c) \/ WriterStep(c) \/ CleanUp(c) \/ Lose(c)
       PROVE  UNCHANGED agentVars
  BY <1>11 DEF ServerStep, WriterStep, CleanUp, Lose
<1>12. ASSUME Other \/ (\E r \in Requests : RequestStep(r)) PROVE UNCHANGED agentVars
  BY <1>12 DEF Other, RequestStep
<1> QED
  BY <1>1, <1>2, <1>3, <1>4, <1>5, <1>6, <1>7, <1>8, <1>9, <1>10, <1>11, <1>12
  DEF Next, A!ClientNext, vars, agentVars

-----------------------------------------------------------------------------
(* The server's half of a step, with the peer that is derived from the      *)
(* agent. S and P differ only in the two variables of the peer.             *)

LEMMA ServerAlone ==
    ASSUME Inbox' = Inbox, Started' = Started
    PROVE  /\ \A c \in Conns :
                /\ S!Dial(c) => P!Dial(c)
                /\ S!ReadHello(c) => P!ReadHello(c)
                /\ S!HelloFails(c) => P!HelloFails(c)
                /\ S!AcceptHello(c) => P!AcceptHello(c)
                /\ S!UpsertAgent(c) => P!UpsertAgent(c)
                /\ S!Register(c) => P!Register(c)
                /\ S!ListPending(c) => P!ListPending(c)
                /\ \A t \in S!Tasks : S!FlushTask(c, t) => t \in P!Tasks /\ P!FlushTask(c, t)
                /\ S!FlushPanics(c) => P!FlushPanics(c)
                /\ S!StartLoops(c) => P!StartLoops(c)
                /\ S!RejectDuplicate(c) => P!RejectDuplicate(c)
                /\ S!WriteIntoVoid(c) => P!WriteIntoVoid(c)
                /\ S!CleanUp(c) => P!CleanUp(c)
           /\ \A r \in Requests : /\ S!Serve(r) => P!Serve(r)
                                  /\ S!Post(r) => P!Post(r)
           /\ \A B \in SUBSET Agents : S!StaleSweep(B) => P!StaleSweep(B)
<1> USE DEF S!hubVars, S!chanVars, S!peerVars, S!linkVars, S!connVars, S!storeVars, S!reqVars,
            S!auxVars, P!hubVars, P!chanVars, P!peerVars, P!linkVars, P!connVars, P!storeVars,
            P!reqVars, P!auxVars
<1>1. ASSUME NEW c \in Conns
      PROVE  /\ S!Dial(c) => P!Dial(c)
             /\ S!ReadHello(c) => P!ReadHello(c)
             /\ S!HelloFails(c) => P!HelloFails(c)
             /\ S!AcceptHello(c) => P!AcceptHello(c)
  BY DEF S!Dial, P!Dial, S!ReadHello, P!ReadHello, S!HelloFails, P!HelloFails,
         S!AcceptHello, P!AcceptHello
<1>2. ASSUME NEW c \in Conns
      PROVE  /\ S!UpsertAgent(c) => P!UpsertAgent(c)
             /\ S!Register(c) => P!Register(c)
             /\ S!ListPending(c) => P!ListPending(c)
  BY DEF S!UpsertAgent, P!UpsertAgent, S!Register, P!Register, S!ListPending, P!ListPending,
         S!PendingTasks, P!PendingTasks, S!TasksOf, P!TasksOf
<1>3. ASSUME NEW c \in Conns
      PROVE  /\ \A t \in S!Tasks : S!FlushTask(c, t) => t \in P!Tasks /\ P!FlushTask(c, t)
             /\ S!FlushPanics(c) => P!FlushPanics(c)
             /\ S!StartLoops(c) => P!StartLoops(c)
  BY DEF S!FlushTask, P!FlushTask, S!Tasks, P!Tasks, S!FlushPanics, P!FlushPanics,
         S!StartLoops, P!StartLoops
<1>4. ASSUME NEW c \in Conns
      PROVE  /\ S!RejectDuplicate(c) => P!RejectDuplicate(c)
             /\ S!WriteIntoVoid(c) => P!WriteIntoVoid(c)
             /\ S!CleanUp(c) => P!CleanUp(c)
  BY DEF S!RejectDuplicate, P!RejectDuplicate, S!WriteIntoVoid, P!WriteIntoVoid,
         S!CleanUp, P!CleanUp, S!Unregister, P!Unregister, S!EntryAfter, P!EntryAfter,
         S!SetOffline, P!SetOffline
<1>5. ASSUME NEW r \in Requests
      PROVE  S!Serve(r) => P!Serve(r)
  <2>1. ASSUME NEW a \in Agents
        PROVE  /\ S!SkipAgent(r, a) => P!SkipAgent(r, a)
               /\ S!CreateTask(r, a) => P!CreateTask(r, a)
    BY DEF S!SkipAgent, P!SkipAgent, S!OnlineAgents, P!OnlineAgents, S!CreateTask, P!CreateTask,
           S!NewTaskStatus, P!NewTaskStatus
  <2>2. S!StartBroadcast(r) => P!StartBroadcast(r)
    BY DEF S!StartBroadcast, P!StartBroadcast
  <2>3. /\ S!PushFinds(r) => P!PushFinds(r)
        /\ S!PushFindsNone(r) => P!PushFindsNone(r)
    BY DEF S!PushFinds, P!PushFinds, S!PushFindsNone, P!PushFindsNone, S!NextTask, P!NextTask
  <2>4. /\ S!PushSends(r) => P!PushSends(r)
        /\ S!PushFull(r) => P!PushFull(r)
        /\ S!PushPanics(r) => P!PushPanics(r)
    BY DEF S!PushSends, P!PushSends, S!PushFull, P!PushFull, S!PushPanics, P!PushPanics,
           S!NextTask, P!NextTask
  <2> QED BY <2>1, <2>2, <2>3, <2>4 DEF S!Serve, P!Serve
<1>6. ASSUME NEW r \in Requests
      PROVE  S!Post(r) => P!Post(r)
  BY DEF S!Post, P!Post, S!ListAgents, P!ListAgents, S!OnlineAgents, P!OnlineAgents,
         S!PostTask, P!PostTask
<1>7. ASSUME NEW B \in SUBSET Agents
      PROVE  S!StaleSweep(B) => P!StaleSweep(B)
  BY DEF S!StaleSweep, P!StaleSweep, S!Stale, P!Stale, S!Fresh, P!Fresh, S!FlushBlocked,
         P!FlushBlocked
<1> QED BY <1>1, <1>2, <1>3, <1>4, <1>5, <1>6, <1>7

LEMMA ServerAndPeer ==
    ASSUME NEW c \in Conns
    PROVE  /\ S!StopWriter(c) /\ Inbox' = [Inbox EXCEPT ![c] = <<>>]
              /\ Started' = [Started EXCEPT ![c] = FALSE] => P!StopWriter(c)
           /\ S!LoseConnection(c) /\ Inbox' = [Inbox EXCEPT ![c] = <<>>]
              /\ Started' = [Started EXCEPT ![c] = FALSE] => P!LoseConnection(c)
           /\ S!ServerWrites(c) /\ Inbox' = [Inbox EXCEPT ![c] = Append(Inbox[c], Head(sendq[c]))]
              /\ Started' = Started => P!WriteFrame(c)
           /\ S!ServerWrites(c) /\ Inbox' = Inbox /\ Len(Inbox[c]) >= AgentQueueCap
              /\ Started' = Started => P!WriteDroppedFrame(c)
           /\ \A t, s :
                S!ServerReads(c, t, s) /\ Inbox[c] # <<>> /\ t = Head(Inbox[c]) =>
                /\ s = "running" /\ ~Started[c] /\ Inbox' = Inbox
                   /\ Started' = [Started EXCEPT ![c] = TRUE] => P!ResultRunning(c)
                /\ Started[c] /\ Inbox' = [Inbox EXCEPT ![c] = Tail(Inbox[c])]
                   /\ Started' = [Started EXCEPT ![c] = FALSE] => P!ResultFinal(c, s)
           /\ S!Restart /\ Inbox' = [d \in Conns |-> <<>>] /\ Started' = [d \in Conns |-> FALSE]
              => P!Restart
<1> USE DEF S!hubVars, S!chanVars, S!peerVars, S!linkVars, S!connVars, S!storeVars, S!reqVars,
            S!auxVars, P!hubVars, P!chanVars, P!peerVars, P!linkVars, P!connVars, P!storeVars,
            P!reqVars, P!auxVars
<1>0. Inbox = [d \in Conns |-> Inbox[d]]
  BY DEF Inbox
<1>1. S!StopWriter(c) /\ Inbox' = [Inbox EXCEPT ![c] = <<>>]
        /\ Started' = [Started EXCEPT ![c] = FALSE] => P!StopWriter(c)
  BY DEF S!StopWriter, P!StopWriter, S!WriterEnds, P!WriterEnds
<1>2. S!LoseConnection(c) /\ Inbox' = [Inbox EXCEPT ![c] = <<>>]
        /\ Started' = [Started EXCEPT ![c] = FALSE] => P!LoseConnection(c)
  BY DEF S!LoseConnection, P!LoseConnection
<1>3. S!ServerWrites(c) => P!ServerWrites(c)
  BY DEF S!ServerWrites, P!ServerWrites
<1>4. S!ServerWrites(c) /\ Inbox' = [Inbox EXCEPT ![c] = Append(Inbox[c], Head(sendq[c]))]
        /\ Started' = Started => P!WriteFrame(c)
  BY <1>0, <1>3 DEF P!WriteFrame
<1>5. S!ServerWrites(c) /\ Inbox' = Inbox /\ Len(Inbox[c]) >= AgentQueueCap
        /\ Started' = Started => P!WriteDroppedFrame(c)
  BY <1>3 DEF P!WriteDroppedFrame
<1>6. ASSUME NEW t, NEW s, S!ServerReads(c, t, s), Inbox[c] # <<>>, t = Head(Inbox[c])
      PROVE  /\ s = "running" /\ ~Started[c] /\ Inbox' = Inbox
                /\ Started' = [Started EXCEPT ![c] = TRUE] => P!ResultRunning(c)
             /\ Started[c] /\ Inbox' = [Inbox EXCEPT ![c] = Tail(Inbox[c])]
                /\ Started' = [Started EXCEPT ![c] = FALSE] => P!ResultFinal(c, s)
  <2>1. P!ServerReads(c, Head(Inbox[c]), s)
    BY <1>6 DEF S!ServerReads, P!ServerReads
  <2> QED BY <1>0, <1>6, <2>1 DEF P!ResultRunning, P!ResultFinal
<1>7. S!Restart /\ Inbox' = [d \in Conns |-> <<>>] /\ Started' = [d \in Conns |-> FALSE]
        => P!Restart
  BY DEF S!Restart, P!Restart
<1> QED BY <1>1, <1>2, <1>4, <1>5, <1>6, <1>7

-----------------------------------------------------------------------------
(* Every joint step is a step of AgentHub with the derived peer, or leaves  *)
(* AgentHub as it is.                                                       *)
LEMMA DialPeer ==
    ASSUME DeliveryInv, NEW c \in Conns, Dial(c)
    PROVE  P!Dial(c)
<1>1. /\ A!Dial(c) /\ executor[c] = "none" /\ sock[c] = "none"
      /\ executor'[c] = "wait" /\ taskCh' = taskCh /\ send' = send /\ hand' = hand
      /\ A!ClientInv /\ \A d \in Conns \ {c} : sock'[d] = sock[d]
  BY ZenonT(30)
  DEF Dial, C!Dial, A!Dial, S!Dial, DeliveryInv, P!SocketInv, A!ClientInv, A!ClientTypeOK,
      P!TypeInv, P!TypeOK
<1>2. taskCh[c] = <<>> /\ send[c] = <<>> /\ hand[c] = NoTask
  BY <1>1 DEF A!ClientInv, A!ExecutorInv, A!Untouched
<1>3. A!Unreported(c)' = <<>> /\ A!FirstStarted(c)' = FALSE
  <2>1. ~(executor'[c] \in {"run", "report"})
    BY <1>1
  <2>2. A!FinalTasks(send'[c]) = <<>>
    BY <1>1, <1>2, A!FinalTasksEmpty
  <2>3. A!InHand(c)' = <<>>
    BY <1>1, <1>2 DEF A!InHand
  <2>4. A!Unreported(c)' = <<>> \o <<>> \o <<>>
    BY <1>1, <1>2, <2>2, <2>3 DEF A!Unreported
  <2>5. A!FirstStarted(c)' = FALSE
    BY <1>1, <1>2, <2>1 DEF A!FirstStarted
  <2> QED BY <2>4, <2>5
<1>4. \A d \in Conns \ {c} : A!Unreported(d)' = A!Unreported(d) /\ A!FirstStarted(d)' = A!FirstStarted(d)
  BY <1>1, A!OthersUnreported
<1>5. Inbox' = Inbox /\ Started' = Started
  <2>1. Inbox'[c] = Inbox[c] /\ Started'[c] = Started[c]
    BY <1>1, <1>3, PeerIs, PeerIsNext
  <2>2. \A d \in Conns \ {c} : Inbox'[d] = Inbox[d] /\ Started'[d] = Started[d]
    BY <1>1, <1>4, PeerIs, PeerIsNext
  <2> QED BY <2>1, <2>2, PeerSame
<1> QED BY <1>5, ServerAlone DEF Dial

LEMMA DeliverTaskPeer ==
    ASSUME DeliveryInv, NEW c \in Conns, DeliverTask(c)
    PROVE  P!WriteFrame(c) \/ P!WriteDroppedFrame(c)
<1>1. /\ A!ClientInv /\ sock[c] = "up" /\ sock' = sock /\ S!ServerWrites(c)
      /\ Head(sendq[c]) \in Requests \X Agents
  BY ServerTypes DEF DeliveryInv, DeliverTask, S!ServerWrites
<1>2. A!Receive(c, Head(sendq[c])) \/ A!Drop(c, Head(sendq[c]))
  BY DEF DeliverTask, C!Receive, C!Drop, A!Receive, A!Drop, C!clientVars, A!clientVars
<1>3. \A d \in Conns \ {c} : A!Unreported(d)' = A!Unreported(d) /\ A!FirstStarted(d)' = A!FirstStarted(d)
  BY <1>1, <1>2, A!OthersUnreported
<1>4. \A d \in Conns \ {c} : Inbox'[d] = Inbox[d] /\ Started'[d] = Started[d]
  BY <1>1, <1>3, PeerIs, PeerIsNext
<1>5. CASE A!Receive(c, Head(sendq[c]))
  <2>1. /\ A!Unreported(c)' = Append(A!Unreported(c), Head(sendq[c]))
        /\ A!FirstStarted(c)' = A!FirstStarted(c)
    BY <1>1, <1>5, A!ReceiveUnreported
  <2>2. Inbox'[c] = Append(Inbox[c], Head(sendq[c])) /\ Started'[c] = Started[c]
    BY <1>1, <2>1, PeerIs, PeerIsNext
  <2>3. Inbox' = [Inbox EXCEPT ![c] = Append(Inbox[c], Head(sendq[c]))]
    BY <1>4, <2>2, PeerExcept
  <2>4. Started' = Started
    BY <1>4, <2>2 DEF Started
  <2> QED BY <1>1, <2>3, <2>4, ServerAndPeer
<1>6. CASE A!Drop(c, Head(sendq[c]))
  <2>1. UNCHANGED agentVars /\ Len(taskCh[c]) >= AgentQueueCap
    BY <1>6 DEF A!Drop, A!clientVars, agentVars
  <2>2. Inbox' = Inbox /\ Started' = Started
    BY <1>1, <2>1, PeerKept
  <2>3. /\ Len(taskCh[c]) <= Len(A!Unreported(c)) /\ A!Unreported(c) \in Seq(Requests \X Agents)
        /\ taskCh[c] \in Seq(Requests \X Agents)
    BY <1>1, A!UnreportedType
  <2>4. Inbox[c] = A!Unreported(c)
    BY <1>1, PeerIs
  <2>5. Len(Inbox[c]) >= AgentQueueCap
    BY <2>1, <2>3, <2>4
  <2> QED BY <1>1, <2>2, <2>5, ServerAndPeer
<1> QED BY <1>2, <1>5, <1>6

LEMMA DeliverReportPeer ==
    ASSUME DeliveryInv, NEW c \in Conns, DeliverReport(c)
    PROVE  P!Results(c)
<1> DEFINE r == Head(send[c])
<1>1. /\ A!ClientInv /\ A!Transmit(c) /\ S!ServerReads(c, r[1], r[2])
      /\ sock[c] = "up" /\ sock' = sock
  BY DEF DeliveryInv, DeliverReport, C!Transmit, A!Transmit, S!ServerReads
<1>2. \A d \in Conns \ {c} : A!Unreported(d)' = A!Unreported(d) /\ A!FirstStarted(d)' = A!FirstStarted(d)
  BY <1>1, A!OthersUnreported
<1>3. \A d \in Conns \ {c} : Inbox'[d] = Inbox[d] /\ Started'[d] = Started[d]
  BY <1>1, <1>2, PeerIs, PeerIsNext
<1>4. /\ A!Unreported(c) # <<>> /\ r[1] = Head(A!Unreported(c))
      /\ \/ /\ r[2] = "running"
            /\ A!FirstStarted(c) = FALSE /\ A!FirstStarted(c)' = TRUE
            /\ A!Unreported(c)' = A!Unreported(c)
         \/ /\ r[2] \in Outcomes
            /\ A!FirstStarted(c) = TRUE /\ A!FirstStarted(c)' = FALSE
            /\ A!Unreported(c)' = Tail(A!Unreported(c))
  BY <1>1, ClientAssumed, A!TransmitUnreported
<1>5. /\ Inbox[c] = A!Unreported(c) /\ Started[c] = A!FirstStarted(c)
      /\ Inbox'[c] = A!Unreported(c)' /\ Started'[c] = A!FirstStarted(c)'
  <2>1. Inbox[c] = A!Unreported(c) /\ Inbox'[c] = A!Unreported(c)'
    BY <1>1, PeerIs, PeerIsNext
  <2>2. (Started[c] <=> A!FirstStarted(c)) /\ (Started'[c] <=> A!FirstStarted(c)')
    BY <1>1, PeerIs, PeerIsNext
  <2>3. Started[c] \in BOOLEAN /\ Started'[c] \in BOOLEAN
    BY PeerIs, PeerIsNext
  <2> QED BY <1>4, <2>1, <2>2, <2>3
<1> HIDE DEF r
<1>6. CASE r[2] = "running"
  <2>1. /\ A!FirstStarted(c) = FALSE /\ A!FirstStarted(c)' = TRUE
        /\ A!Unreported(c)' = A!Unreported(c)
    BY <1>4, <1>6
  <2>2. Inbox'[c] = Inbox[c] /\ Started'[c] = TRUE /\ ~Started[c]
    BY <1>5, <2>1
  <2>3. Started' = [Started EXCEPT ![c] = TRUE]
    BY <1>3, <2>2, PeerExcept
  <2>4. Inbox' = Inbox
    BY <1>3, <2>2 DEF Inbox
  <2>5. P!ResultRunning(c)
    BY <1>1, <1>4, <1>5, <1>6, <2>2, <2>3, <2>4, ServerAndPeer
  <2> QED BY <2>5 DEF P!Results
<1>7. CASE r[2] # "running"
  <2>1. /\ A!FirstStarted(c) = TRUE /\ A!FirstStarted(c)' = FALSE /\ r[2] \in Outcomes
        /\ A!Unreported(c)' = Tail(A!Unreported(c))
    BY <1>4, <1>7
  <2>2. Inbox'[c] = Tail(Inbox[c]) /\ Started'[c] = FALSE /\ Started[c]
    BY <1>5, <2>1
  <2>3. /\ Started' = [Started EXCEPT ![c] = FALSE]
        /\ Inbox' = [Inbox EXCEPT ![c] = Tail(Inbox[c])]
    BY <1>3, <2>2, PeerExcept
  <2>4. P!ResultFinal(c, r[2])
    BY <1>1, <1>4, <1>5, <2>2, <2>3, ServerAndPeer
  <2> QED BY <2>1, <2>4 DEF P!Results
<1> QED BY <1>6, <1>7

(* At most one socket works, the one the agent reads from. *)
LEMMA OneUp ==
    ASSUME DeliveryInv, NEW c \in Conns, sock[c] = "up" \/ live = c
    PROVE  \A d \in Conns \ {c} : sock[d] # "up" /\ Inbox[d] = <<>> /\ Started[d] = FALSE
BY PeerIs DEF DeliveryInv, LinkInv

LEMMA RejectPeer ==
    ASSUME DeliveryInv, NEW c \in Conns, Reject(c)
    PROVE  P!RejectDuplicate(c)
<1>1. /\ S!RejectDuplicate(c) /\ handler[c] = "check" /\ writer[c] = "none"
      /\ sock'[c] = "closed" /\ \A d \in Conns \ {c} : sock'[d] = sock[d]
  BY DEF Reject, S!RejectDuplicate, DeliveryInv, P!SocketInv, P!TypeInv, P!TypeOK
<1>2. CASE sock[c] = "up"
  <2>1. executor[c] = "wait" /\ taskCh[c] = <<>> /\ send[c] = <<>> /\ hand[c] = NoTask
    BY <1>1, <1>2 DEF DeliveryInv, LinkInv, A!ClientInv, A!ExecutorInv
  <2>2. A!Unreported(c) = <<>> /\ A!FirstStarted(c) = FALSE
    BY <2>1, A!IdleUnreported DEF A!Executing
  <2>3. Inbox[c] = <<>> /\ Started[c] = FALSE /\ Inbox'[c] = <<>> /\ Started'[c] = FALSE
    BY <1>1, <2>2, PeerIs, PeerIsNext
  <2>4. \A d \in Conns \ {c} : /\ Inbox[d] = <<>> /\ Started[d] = FALSE
                               /\ Inbox'[d] = <<>> /\ Started'[d] = FALSE
    BY <1>1, <1>2, OneUp, PeerIsNext
  <2>5. Inbox' = Inbox /\ Started' = Started
    BY <2>3, <2>4, PeerSame
  <2> QED BY <1>1, <2>5, ServerAlone
<1>3. CASE sock[c] # "up"
  <2>1. UNCHANGED agentVars /\ \A d \in Conns : sock'[d] = "up" <=> sock[d] = "up"
    BY <1>1, <1>3 DEF Reject
  <2> QED BY <1>1, <2>1, PeerKept, ServerAlone
<1> QED BY <1>2, <1>3

(* What the agent does by itself is invisible to the server. *)
LEMMA AgentPeer ==
    ASSUME DeliveryInv, NEW c \in Conns,
           AgentDisconnects(c) \/ AgentStep(c) \/ ReportIntoVoid(c)
    PROVE  UNCHANGED P!vars
<1>1. A!ClientInv /\ sock' = sock /\ UNCHANGED serverVars
  BY DEF DeliveryInv, AgentDisconnects, AgentStep, ReportIntoVoid, serverVars
<1>2. \/ A!Disconnected(c) /\ sock[c] # "up"
      \/ A!Execute(c)
      \/ (A!TransmitIntoVoid(c) \/ A!PingFails(c)) /\ sock[c] # "up"
  BY DEF AgentDisconnects, C!Disconnected, A!Disconnected, AgentStep, C!Execute, A!Execute,
         C!Take, A!Take, C!Announce, A!Announce, C!ScriptEnds, A!ScriptEnds, C!ExecutorEnds,
         A!ExecutorEnds, C!Report, A!Report, ReportIntoVoid, C!TransmitIntoVoid,
         A!TransmitIntoVoid, C!PingFails, A!PingFails
<1>3. \A d \in Conns \ {c} : A!Unreported(d)' = A!Unreported(d) /\ A!FirstStarted(d)' = A!FirstStarted(d)
  BY <1>1, <1>2, A!OthersUnreported
<1>4. sock[c] = "up" => A!Unreported(c)' = A!Unreported(c) /\ A!FirstStarted(c)' = A!FirstStarted(c)
  BY <1>1, <1>2, ClientAssumed, A!ExecuteUnreported
<1>5. \A d \in Conns : Inbox'[d] = Inbox[d] /\ Started'[d] = Started[d]
  BY <1>1, <1>3, <1>4, PeerIs, PeerIsNext
<1>6. Inbox' = Inbox /\ Started' = Started
  BY <1>5, PeerSame
<1> QED
  BY <1>1, <1>6
  DEF serverVars, P!vars, P!hubVars, P!chanVars, P!peerVars, P!linkVars, P!connVars,
      P!storeVars, P!reqVars, P!auxVars

LEMMA AgentStopsPeer ==
    ASSUME DeliveryInv, AgentStops
    PROVE  (\E c \in Conns : P!LoseConnection(c)) \/ UNCHANGED P!vars
<1>1. CASE live # NoConn /\ sock[live] = "up"
  <2>1. live \in Conns /\ S!LoseConnection(live)
    BY <1>1 DEF AgentStops, DeliveryInv, A!ClientInv, A!ClientTypeOK
  <2>2. sock'[live] = "lost" /\ \A d \in Conns \ {live} : sock'[d] = sock[d]
    BY <2>1 DEF S!LoseConnection, DeliveryInv, P!TypeInv, P!TypeOK
  <2>3. Inbox'[live] = <<>> /\ Started'[live] = FALSE
    BY <2>1, <2>2, PeerIsNext
  <2>4. \A d \in Conns \ {live} : Inbox'[d] = Inbox[d] /\ Started'[d] = Started[d]
    BY <1>1, <2>1, <2>2, OneUp, PeerIsNext
  <2>5. Inbox' = [Inbox EXCEPT ![live] = <<>>] /\ Started' = [Started EXCEPT ![live] = FALSE]
    BY <2>1, <2>3, <2>4, PeerExcept
  <2> QED BY <2>1, <2>5, ServerAndPeer
<1>2. CASE ~(live # NoConn /\ sock[live] = "up")
  <2>1. UNCHANGED serverVars
    BY <1>2 DEF AgentStops
  <2>2. \A d \in Conns : sock[d] # "up"
    BY <1>2 DEF DeliveryInv, LinkInv
  <2>3. sock' = sock
    BY <2>1 DEF serverVars
  <2>4. \A d \in Conns : Inbox'[d] = Inbox[d] /\ Started'[d] = Started[d]
    BY <2>2, <2>3, PeerIs, PeerIsNext
  <2>5. Inbox' = Inbox /\ Started' = Started
    BY <2>4, PeerSame
  <2> QED
    BY <2>1, <2>5
    DEF serverVars, P!vars, P!hubVars, P!chanVars, P!peerVars, P!linkVars, P!connVars,
        P!storeVars, P!reqVars, P!auxVars
<1> QED BY <1>1, <1>2

LEMMA ServerStepPeer ==
    ASSUME DeliveryInv, NEW c \in Conns, ServerStep(c)
    PROVE  P!Handshake(c)
<1>1. UNCHANGED agentVars /\ \A d \in Conns : sock'[d] = "up" <=> sock[d] = "up"
  <2>1. UNCHANGED sock \/ S!HelloFails(c)
    BY DEF ServerStep, S!ReadHello, S!AcceptHello, S!UpsertAgent, S!Register, S!ListPending,
           S!FlushTask, S!FlushPanics, S!StartLoops, S!linkVars
  <2>2. S!HelloFails(c) => \A d \in Conns : sock'[d] = "up" <=> sock[d] = "up"
    BY DEF S!HelloFails, DeliveryInv, P!TypeInv, P!TypeOK
  <2> QED BY <2>1, <2>2 DEF ServerStep
<1>2. Inbox' = Inbox /\ Started' = Started
  BY <1>1, PeerKept
<1> QED BY <1>2, ServerAlone DEF ServerStep, P!Handshake

LEMMA WriterStepPeer ==
    ASSUME DeliveryInv, NEW c \in Conns, WriterStep(c)
    PROVE  P!WriteLoop(c)
<1>1. CASE S!WriteIntoVoid(c)
  <2>1. UNCHANGED agentVars /\ UNCHANGED sock
    BY <1>1 DEF WriterStep, S!WriteIntoVoid, S!linkVars
  <2>2. Inbox' = Inbox /\ Started' = Started
    BY <2>1, PeerKept
  <2> QED BY <1>1, <2>2, ServerAlone DEF P!WriteLoop
<1>2. CASE S!StopWriter(c)
  <2>1. UNCHANGED agentVars /\ sock'[c] # "up" /\ \A d \in Conns \ {c} : sock'[d] = sock[d]
    BY <1>2 DEF WriterStep, S!StopWriter, DeliveryInv, P!TypeInv, P!TypeOK
  <2>2. Inbox' = [Inbox EXCEPT ![c] = <<>>] /\ Started' = [Started EXCEPT ![c] = FALSE]
    BY <2>1, PeerGone
  <2> QED BY <1>2, <2>2, ServerAndPeer DEF P!WriteLoop
<1> QED BY <1>1, <1>2 DEF WriterStep

LEMMA CleanUpPeer ==
    ASSUME DeliveryInv, NEW c \in Conns, CleanUp(c)
    PROVE  P!CleanUp(c)
<1>1. UNCHANGED agentVars /\ S!CleanUp(c)
  BY DEF CleanUp
<1>2. CASE S!Unregister(c)
  BY <1>1, <1>2, PeerKept, ServerAlone DEF S!Unregister, S!linkVars
<1>3. CASE S!SetOffline(c)
  <2>1. sock[c] # "up" /\ sock'[c] # "up" /\ \A d \in Conns \ {c} : sock'[d] = sock[d]
    BY <1>3 DEF S!SetOffline, DeliveryInv, P!SocketInv, P!TypeInv, P!TypeOK
  <2>2. \A d \in Conns : sock'[d] = "up" <=> sock[d] = "up"
    BY <2>1
  <2> QED BY <1>1, <2>2, PeerKept, ServerAlone
<1> QED BY <1>1, <1>2, <1>3 DEF S!CleanUp

LEMMA LosePeer ==
    ASSUME DeliveryInv, NEW c \in Conns, Lose(c)
    PROVE  P!LoseConnection(c)
<1>1. UNCHANGED agentVars /\ sock'[c] # "up" /\ \A d \in Conns \ {c} : sock'[d] = sock[d]
  BY DEF Lose, S!LoseConnection, DeliveryInv, P!TypeInv, P!TypeOK
<1>2. Inbox' = [Inbox EXCEPT ![c] = <<>>] /\ Started' = [Started EXCEPT ![c] = FALSE]
  BY <1>1, PeerGone
<1> QED BY <1>2, ServerAndPeer DEF Lose

LEMMA OtherPeer ==
    ASSUME DeliveryInv, Other \/ \E r \in Requests : RequestStep(r)
    PROVE  \/ \E r \in Requests : P!Post(r) \/ P!Serve(r)
           \/ \E B \in SUBSET Agents : P!StaleSweep(B)
           \/ P!Restart
<1>1. ASSUME NEW r \in Requests, RequestStep(r) PROVE P!Serve(r)
  <2>1. UNCHANGED agentVars /\ UNCHANGED sock /\ S!Serve(r)
    BY <1>1 DEF RequestStep, S!Serve, S!SkipAgent, S!CreateTask, S!StartBroadcast, S!PushFinds,
                S!PushFindsNone, S!PushSends, S!PushFull, S!PushPanics, S!connVars, S!linkVars
  <2> QED BY <2>1, PeerKept, ServerAlone
<1>2. ASSUME NEW r \in Requests, S!Post(r), UNCHANGED agentVars PROVE P!Post(r)
  <2>1. UNCHANGED sock
    BY <1>2 DEF S!Post, S!ListAgents, S!PostTask, S!connVars, S!linkVars
  <2> QED BY <1>2, <2>1, PeerKept, ServerAlone
<1>3. ASSUME NEW B \in SUBSET Agents, S!StaleSweep(B), UNCHANGED agentVars PROVE P!StaleSweep(B)
  <2>1. UNCHANGED sock
    BY <1>3 DEF S!StaleSweep, S!connVars, S!linkVars
  <2> QED BY <1>3, <2>1, PeerKept, ServerAlone
<1>4. ASSUME S!Restart PROVE P!Restart
  <2>1. \A d \in Conns : sock'[d] # "up"
    BY <1>4 DEF S!Restart
  <2>2. Inbox' = [d \in Conns |-> <<>>] /\ Started' = [d \in Conns |-> FALSE]
    BY <2>1, PeerIsNext
  <2>3. CASE Conns = {}
    BY <1>4, <2>2, <2>3
    DEF S!Restart, P!Restart, S!storeVars, P!storeVars
  <2>4. CASE Conns # {}
    BY <1>4, <2>2, <2>4, ServerAndPeer
  <2> QED BY <2>3, <2>4
<1> QED BY <1>1, <1>2, <1>3, <1>4 DEF Other

LEMMA PeerStep == DeliveryInv /\ [Next]_vars => [P!Next]_(P!vars)
<1> SUFFICES ASSUME DeliveryInv, [Next]_vars PROVE [P!Next]_(P!vars)
  OBVIOUS
<1>1. ASSUME NEW c \in Conns, Dial(c) PROVE P!Next
  BY <1>1, DialPeer DEF P!Next
<1>2. ASSUME NEW c \in Conns, DeliverTask(c) PROVE P!Next
  BY <1>2, DeliverTaskPeer DEF P!Next, P!WriteLoop
<1>3. ASSUME NEW c \in Conns, DeliverReport(c) PROVE P!Next
  BY <1>3, DeliverReportPeer DEF P!Next
<1>4. ASSUME NEW c \in Conns, Reject(c) PROVE P!Next
  BY <1>4, RejectPeer DEF P!Next, P!Handshake
<1>5. ASSUME NEW c \in Conns, AgentDisconnects(c) \/ AgentStep(c) \/ ReportIntoVoid(c)
      PROVE  UNCHANGED P!vars
  BY <1>5, AgentPeer
<1>6. ASSUME NEW c \in Conns, ServerStep(c) PROVE P!Next
  BY <1>6, ServerStepPeer DEF P!Next
<1>7. ASSUME NEW c \in Conns, WriterStep(c) PROVE P!Next
  BY <1>7, WriterStepPeer DEF P!Next
<1>8. ASSUME NEW c \in Conns, CleanUp(c) PROVE P!Next
  BY <1>8, CleanUpPeer DEF P!Next
<1>9. ASSUME NEW c \in Conns, Lose(c) PROVE P!Next
  BY <1>9, LosePeer DEF P!Next
<1>10. ASSUME Other \/ \E r \in Requests : RequestStep(r) PROVE P!Next
  BY <1>10, OtherPeer DEF P!Next
<1>11. ASSUME AgentStops PROVE [P!Next]_(P!vars)
  BY <1>11, AgentStopsPeer DEF P!Next
<1>12. ASSUME ServiceRestart \/ UNCHANGED vars PROVE UNCHANGED P!vars
  <2>1. UNCHANGED serverVars /\ UNCHANGED <<taskCh, executor, hand, send>>
    BY <1>12 DEF ServiceRestart, C!ServiceRestart, vars, agentVars
  <2>2. \A c \in Conns : A!Unreported(c)' = A!Unreported(c) /\ A!FirstStarted(c)' = A!FirstStarted(c)
    BY <2>1 DEF A!Unreported, A!FirstStarted, A!InHand
  <2>3. sock' = sock
    BY <2>1 DEF serverVars
  <2>4. \A c \in Conns : Inbox'[c] = Inbox[c] /\ Started'[c] = Started[c]
    BY <2>2, <2>3, PeerIs, PeerIsNext
  <2>5. Inbox' = Inbox /\ Started' = Started
    BY <2>4, PeerSame
  <2> QED
    BY <2>1, <2>5
    DEF serverVars, P!vars, P!hubVars, P!chanVars, P!peerVars, P!linkVars, P!connVars,
        P!storeVars, P!reqVars, P!auxVars
<1> QED
  BY <1>1, <1>2, <1>3, <1>4, <1>5, <1>6, <1>7, <1>8, <1>9, <1>10, <1>11, <1>12 DEF Next

-----------------------------------------------------------------------------
(* The invariants. *)
LEMMA DeliveryInit == Init => DeliveryInv /\ P!Init
<1> SUFFICES ASSUME Init PROVE DeliveryInv /\ P!Init
  OBVIOUS
<1>1. /\ sock = [c \in Conns |-> "none"] /\ sendq = [c \in Conns |-> <<>>]
      /\ offers = [o \in Conns \X (Requests \X Agents) |-> 0]
  BY DEF Init, S!Init, S!Tasks
<1>2. A!Init
  BY DEF Init, C!Init, A!Init
<1>3. Inbox = [c \in Conns |-> <<>>] /\ Started = [c \in Conns |-> FALSE]
  BY <1>1, PeerIs
<1>4. P!Init
  BY <1>3 DEF Init, S!Init, P!Init, S!Tasks, P!Tasks
<1>5. P!TypeInv /\ P!SocketInv /\ A!ClientInv
  BY <1>2, <1>4, ClientAssumed, A!ClientInit, P!TypeInit, P!SocketInit
<1>6. LinkInv
  BY <1>1 DEF LinkInv
<1>7. OwedInv
  <2> SUFFICES ASSUME NEW c \in Conns, NEW t \in Requests \X Agents
               PROVE  A!Owed(c, t) + A!Count(sendq[c], t) <= offers[<<c, t>>]
    BY DEF OwedInv
  <2>1. sendq[c] = <<>> /\ <<c, t>> \in Conns \X (Requests \X Agents)
    BY <1>1
  <2>2. offers[<<c, t>>] = 0
    <3>1. \A o \in Conns \X (Requests \X Agents) : offers[o] = 0
      BY <1>1, Zenon
    <3> QED BY <2>1, <3>1
  <2>3. taskCh[c] = <<>> /\ executor[c] = "none" /\ starts[c][t] = 0
    BY <1>2 DEF A!Init
  <2>4. A!Count(<<>>, t) = 0
    BY A!CountEmpty
  <2>5. A!Owed(c, t) = 0
    BY <2>3, <2>4 DEF A!Owed
  <2> QED BY <2>1, <2>2, <2>4, <2>5
<1> QED BY <1>4, <1>5, <1>6, <1>7 DEF DeliveryInv

(* Only a dial makes a socket work. *)
LEMMA UpKept ==
    ASSUME DeliveryInv, [Next]_vars, NEW c \in Conns, sock'[c] = "up"
    PROVE  sock[c] = "up" \/ Dial(c)
<1> USE DEF DeliveryInv, P!TypeInv, P!TypeOK
<1>1. CASE UNCHANGED sock
  BY <1>1
<1>2. ASSUME NEW d \in Conns, Dial(d) PROVE sock[c] = "up" \/ Dial(c)
  BY <1>2 DEF Dial, S!Dial
<1>3. ASSUME NEW d \in Conns, DeliverTask(d) \/ DeliverReport(d) PROVE UNCHANGED sock
  BY <1>3 DEF DeliverTask, DeliverReport, S!ServerWrites, S!ServerReads
<1>4. ASSUME NEW d \in Conns, Reject(d) \/ ServerStep(d) PROVE sock[c] = "up"
  BY <1>4
  DEF Reject, S!RejectDuplicate, ServerStep, S!ReadHello, S!AcceptHello, S!UpsertAgent,
      S!Register, S!ListPending, S!FlushTask, S!FlushPanics, S!StartLoops, S!HelloFails,
      S!linkVars
<1>5. ASSUME NEW d \in Conns, AgentDisconnects(d) \/ AgentStep(d) \/ ReportIntoVoid(d)
      PROVE  UNCHANGED sock
  BY <1>5 DEF AgentDisconnects, AgentStep, ReportIntoVoid, serverVars
<1>6. ASSUME NEW d \in Conns, WriterStep(d) \/ CleanUp(d) \/ Lose(d) PROVE sock[c] = "up"
  BY <1>6 DEF WriterStep, S!WriteIntoVoid, S!StopWriter, CleanUp, S!CleanUp, S!Unregister,
              S!SetOffline, Lose, S!LoseConnection, S!linkVars
<1>7. ASSUME NEW r \in Requests, RequestStep(r) PROVE UNCHANGED sock
  BY <1>7 DEF RequestStep, S!Serve, S!SkipAgent, S!CreateTask, S!StartBroadcast, S!PushFinds,
              S!PushFindsNone, S!PushSends, S!PushFull, S!PushPanics, S!connVars, S!linkVars
<1>8. ASSUME Other PROVE sock[c] = "up"
  BY <1>8 DEF Other, S!Post, S!ListAgents, S!PostTask, S!StaleSweep, S!Restart, S!connVars,
              S!linkVars
<1>9. ASSUME AgentStops PROVE sock[c] = "up"
  BY <1>9 DEF AgentStops, S!LoseConnection, serverVars
<1>10. ASSUME ServiceRestart \/ UNCHANGED vars PROVE UNCHANGED sock
  BY <1>10 DEF ServiceRestart, serverVars, vars
<1> QED
  BY <1>1, <1>2, <1>3, <1>4, <1>5, <1>6, <1>7, <1>8, <1>9, <1>10 DEF Next

(* What LinkInv says of one connection. *)
Linked(c) ==
    /\ live = c
    /\ writer[c] = "none" => executor[c] = "wait" /\ taskCh[c] = <<>> /\ send[c] = <<>>

LEMMA LinkStep == DeliveryInv /\ [Next]_vars => LinkInv'
<1> SUFFICES ASSUME DeliveryInv, [Next]_vars, NEW c \in Conns, sock'[c] = "up"
             PROVE  Linked(c)'
  BY DEF LinkInv, Linked
<1>1. CASE Dial(c)
  <2>1. /\ executor[c] = "none" /\ live' = c /\ executor'[c] = "wait"
        /\ taskCh' = taskCh /\ send' = send
    BY <1>1 DEF Dial, C!Dial, DeliveryInv, A!ClientInv, A!ClientTypeOK
  <2>2. taskCh[c] = <<>> /\ send[c] = <<>>
    BY <2>1 DEF DeliveryInv, A!ClientInv, A!ExecutorInv, A!Untouched
  <2> QED BY <2>1, <2>2 DEF Linked
<1>2. CASE ~Dial(c)
  <2>1. sock[c] = "up" /\ live = c /\ Linked(c)
    BY <1>2, UpKept DEF DeliveryInv, LinkInv, Linked
  <2>2. main = "read" /\ live # NoConn
    BY <2>1 DEF DeliveryInv, A!ClientInv, A!LoopInv
  <2> USE DEF DeliveryInv, A!ClientInv, A!ClientTypeOK, P!TypeInv, P!TypeOK, Linked
  <2>3. CASE UNCHANGED <<live, executor, taskCh, send>> /\ (writer'[c] = "none" => writer[c] = "none")
    BY <2>1, <2>3
  <2>4. ASSUME NEW d \in Conns, Dial(d) \/ AgentDisconnects(d) \/ ReportIntoVoid(d)
        PROVE  Linked(c)'
    <3>1. ~Dial(d)
      BY <2>2 DEF Dial, C!Dial
    <3>2. ~AgentDisconnects(d)
      BY <2>1 DEF AgentDisconnects, C!Disconnected
    <3>3. ReportIntoVoid(d) => d # c
      BY <2>1 DEF ReportIntoVoid
    <3>4. d # c /\ ReportIntoVoid(d) => Linked(c)'
      BY <2>1 DEF ReportIntoVoid, C!TransmitIntoVoid, C!PingFails, serverVars
    <3> QED BY <2>4, <3>1, <3>2, <3>3, <3>4
  <2>5. ASSUME NEW d \in Conns, DeliverTask(d) PROVE Linked(c)'
    BY <2>1, <2>5 DEF DeliverTask, C!Receive, C!Drop, C!clientVars, S!ServerWrites
  <2>6. ASSUME NEW d \in Conns, DeliverReport(d) PROVE Linked(c)'
    BY <2>1, <2>6 DEF DeliverReport, C!Transmit, S!ServerReads
  <2>7. ASSUME NEW d \in Conns, Reject(d) PROVE Linked(c)'
    <3>1. sock'[d] # "up" /\ writer' = writer
      BY <2>7 DEF Reject, S!RejectDuplicate
    <3>2. d # c /\ sock[d] # "up"
      BY <2>1, <3>1 DEF LinkInv
    <3> QED BY <2>1, <2>7, <3>1, <3>2 DEF Reject, agentVars
  <2>8. ASSUME NEW d \in Conns, AgentStep(d) PROVE Linked(c)'
    <3>1. writer' = writer /\ live' = live
      BY <2>8 DEF AgentStep, serverVars, C!Execute, C!Take, C!Announce, C!ScriptEnds, C!Report,
                  C!ExecutorEnds
    <3>2. CASE d # c
      BY <2>1, <2>8, <3>1, <3>2
      DEF AgentStep, C!Execute, C!Take, C!Announce, C!ScriptEnds, C!Report, C!ExecutorEnds
    <3>3. CASE d = c
      <4>1. writer[c] # "none"
        BY <2>1, <2>8, <3>3
        DEF AgentStep, C!Execute, C!Take, C!Announce, C!ScriptEnds, C!Report, C!ExecutorEnds
      <4> QED BY <2>1, <3>1, <4>1
    <3> QED BY <3>2, <3>3
  <2>9. ASSUME NEW d \in Conns, ServerStep(d) \/ WriterStep(d) \/ CleanUp(d) \/ Lose(d)
        PROVE  Linked(c)'
    <3>1. UNCHANGED agentVars
      BY <2>9 DEF ServerStep, WriterStep, CleanUp, Lose
    <3>2. ASSUME ServerStep(d) PROVE writer'[c] = "none" => writer[c] = "none"
      BY <3>2, ZenonT(30)
      DEF ServerStep, S!ReadHello, S!HelloFails, S!AcceptHello, S!UpsertAgent, S!Register,
          S!ListPending, S!FlushTask, S!FlushPanics, S!StartLoops, S!linkVars
    <3>3. ASSUME WriterStep(d) PROVE writer'[c] = "none" => writer[c] = "none"
      BY <3>3 DEF WriterStep, S!WriteIntoVoid, S!StopWriter, S!linkVars
    <3>4. ASSUME CleanUp(d) \/ Lose(d) PROVE writer'[c] = "none" => writer[c] = "none"
      BY <3>4 DEF CleanUp, S!CleanUp, S!Unregister, S!SetOffline, S!linkVars, Lose,
                  S!LoseConnection
    <3> QED BY <2>3, <2>9, <3>1, <3>2, <3>3, <3>4 DEF agentVars
  <2>10. ASSUME NEW r \in Requests, RequestStep(r) PROVE Linked(c)'
    <3>1. UNCHANGED agentVars /\ writer' = writer
      BY <2>10
      DEF RequestStep, S!Serve, S!SkipAgent, S!CreateTask, S!StartBroadcast, S!PushFinds,
          S!PushFindsNone, S!PushSends, S!PushFull, S!PushPanics, S!connVars, S!linkVars
    <3> QED BY <2>3, <3>1 DEF agentVars
  <2>11. ASSUME Other PROVE Linked(c)'
    <3>1. UNCHANGED agentVars /\ ~S!Restart
      BY <2>11 DEF Other, S!Restart
    <3>2. writer' = writer
      BY <2>11, <3>1 DEF Other, S!Post, S!ListAgents, S!PostTask, S!StaleSweep, S!connVars,
                         S!linkVars
    <3> QED BY <2>3, <3>1, <3>2 DEF agentVars
  <2>12. ~AgentStops
    BY <2>1, <2>2 DEF AgentStops, S!LoseConnection
  <2>13. ~ServiceRestart
    BY <2>2 DEF ServiceRestart, C!ServiceRestart
  <2>14. ASSUME UNCHANGED vars PROVE Linked(c)'
    BY <2>3, <2>14 DEF vars, agentVars, serverVars
  <2> QED
    BY <2>4, <2>5, <2>6, <2>7, <2>8, <2>9, <2>10, <2>11, <2>12, <2>13, <2>14 DEF Next
<1> QED BY <1>1, <1>2

(* The agent receives a frame that the server takes from its channel.       *)
LEMMA ReceiveIsDelivery ==
    ASSUME DeliveryInv, [Next]_vars, NEW d \in Conns, NEW t \in Requests \X Agents,
           A!Receive(d, t)
    PROVE  DeliverTask(d) /\ t = Head(sendq[d])
<1> USE DEF DeliveryInv, A!ClientInv, A!ClientTypeOK, P!TypeInv, P!TypeOK
<1>1. taskCh' = [taskCh EXCEPT ![d] = Append(taskCh[d], t)] /\ taskCh[d] \in Seq(Requests \X Agents)
  BY DEF A!Receive
<1>2. /\ taskCh'[d] = Append(taskCh[d], t) /\ taskCh'[d] # taskCh[d]
      /\ Len(taskCh'[d]) = Len(taskCh[d]) + 1 /\ Len(taskCh[d]) \in Nat
  BY <1>1
<1>3. ~UNCHANGED agentVars
  BY <1>2 DEF agentVars
<1>4. \A c \in Conns : ~(Dial(c) \/ DeliverReport(c) \/ AgentDisconnects(c) \/ ReportIntoVoid(c))
  BY <1>2 DEF Dial, C!Dial, DeliverReport, C!Transmit, AgentDisconnects, C!Disconnected,
              ReportIntoVoid, C!TransmitIntoVoid, C!PingFails
<1>5. taskCh'[d] # <<>>
  <2> DEFINE q == taskCh[d]
             r == taskCh'[d]
  <2>1. Len(q) \in Nat /\ Len(r) = Len(q) + 1
    BY <1>2
  <2> HIDE DEF q, r
  <2>2. r # <<>>
    BY <2>1
  <2> QED BY <2>2 DEF r
<1>6. \A c \in Conns : ~Reject(c)
  BY <1>3, <1>5 DEF Reject, C!Rejected, C!ProcessEnds
<1>7. ~AgentStops /\ ~ServiceRestart /\ ~UNCHANGED vars
  BY <1>2, <1>3, <1>5 DEF AgentStops, C!Terminate, C!ProcessEnds, ServiceRestart,
                          C!ServiceRestart, vars
<1>8. \A c \in Conns : ~AgentStep(c)
  <2> SUFFICES ASSUME NEW c \in Conns, AgentStep(c) PROVE FALSE
    OBVIOUS
  <2>1. C!Take(c)
    BY <1>2 DEF AgentStep, C!Execute, C!Announce, C!ScriptEnds, C!ExecutorEnds, C!Report
  <2>2. c = d
    BY <1>2, <2>1 DEF C!Take
  <2>3. taskCh'[d] = Tail(taskCh[d]) /\ taskCh[d] # <<>>
    BY <1>1, <2>1, <2>2 DEF C!Take
  <2>4. Len(taskCh'[d]) = Len(taskCh[d]) - 1
    BY <1>1, <2>3
  <2> QED BY <1>2, <2>4
<1>9. \A c \in Conns : ~(ServerStep(c) \/ WriterStep(c) \/ CleanUp(c) \/ Lose(c))
  BY <1>3 DEF ServerStep, WriterStep, CleanUp, Lose
<1>10. ~Other /\ \A r \in Requests : ~RequestStep(r)
  BY <1>3 DEF Other, RequestStep
<1>11. PICK c \in Conns : DeliverTask(c)
  BY <1>4, <1>6, <1>7, <1>8, <1>9, <1>10 DEF Next
<1>12. C!Receive(c, Head(sendq[c]))
  BY <1>3, <1>11 DEF DeliverTask, C!Drop, C!clientVars, agentVars
<1>13. c = d
  BY <1>2, <1>12 DEF C!Receive
<1>14. taskCh'[d] = Append(taskCh[d], Head(sendq[d]))
  BY <1>1, <1>12, <1>13 DEF C!Receive
<1>15. t = Head(sendq[d])
  <2>1. t = taskCh'[d][Len(taskCh[d]) + 1]
    BY <1>1, <1>2
  <2>2. Head(sendq[d]) = taskCh'[d][Len(taskCh[d]) + 1]
    BY <1>1, <1>14
  <2> QED BY <2>1, <2>2
<1> QED BY <1>11, <1>13, <1>15

LEMMA OwedStep == DeliveryInv /\ [Next]_vars => OwedInv'
<1> SUFFICES ASSUME DeliveryInv, [Next]_vars, NEW d \in Conns, NEW x \in Requests \X Agents
             PROVE  A!Owed(d, x)' + A!Count(sendq'[d], x) <= offers'[<<d, x>>]
  BY DEF OwedInv
<1>1. /\ A!ClientInv /\ [A!ClientNext]_(A!clientVars) /\ A!ClientInv'
      /\ P!TypeInv /\ [P!Next]_(P!vars) /\ P!TypeInv'
  BY ClientSteps, PeerStep, A!ClientStep, ClientAssumed, P!TypeStep DEF DeliveryInv
<1>2. /\ A!Owed(d, x) \in Nat /\ A!Owed(d, x)' \in Nat
      /\ sendq[d] \in Seq(Requests \X Agents) /\ sendq'[d] \in Seq(Requests \X Agents)
      /\ offers[<<d, x>>] \in Nat /\ offers'[<<d, x>>] \in Nat
  <2>1. A!Owed(d, x) \in Nat
    BY <1>1, A!OwedType DEF A!ClientInv
  <2>2. starts'[d][x] \in Nat /\ taskCh'[d] \in Seq(Requests \X Agents)
    <3>1. A!ClientTypeOK'
      BY <1>1 DEF A!ClientInv
    <3>2. /\ taskCh' \in [Conns -> Seq(Requests \X Agents)]
          /\ starts' \in [Conns -> [Requests \X Agents -> Nat]]
      BY <3>1 DEF A!ClientTypeOK
    <3> QED BY <3>2
  <2>3. A!Count(taskCh'[d], x) \in Nat
    BY <2>2, A!CountType
  <2>4. A!Owed(d, x)' \in Nat
    BY <2>2, <2>3 DEF A!Owed
  <2>5. <<d, x>> \in Conns \X (Requests \X Agents)
    OBVIOUS
  <2>6. /\ sendq[d] \in Seq(Requests \X Agents) /\ sendq'[d] \in Seq(Requests \X Agents)
        /\ offers[<<d, x>>] \in Nat /\ offers'[<<d, x>>] \in Nat
    BY <1>1, <2>5 DEF P!TypeInv, P!TypeOK, P!Tasks
  <2> QED BY <2>1, <2>4, <2>6
<1>3. A!Count(sendq[d], x) \in Nat /\ A!Count(sendq'[d], x) \in Nat
  BY <1>2, A!CountType
<1>4. A!Owed(d, x) + A!Count(sendq[d], x) <= offers[<<d, x>>]
  BY DEF DeliveryInv, OwedInv
<1>5. A!Count(sendq'[d], x) + offers[<<d, x>>] <= A!Count(sendq[d], x) + offers'[<<d, x>>]
  BY <1>1, P!WaitingStep, CountSame DEF P!Tasks
<1>6. CASE A!Owed(d, x)' <= A!Owed(d, x)
  BY <1>2, <1>3, <1>4, <1>5, <1>6
<1>7. ASSUME NEW t \in Requests \X Agents, A!Receive(d, t),
             A!Owed(d, x)' = A!Owed(d, x) + (IF t = x THEN 1 ELSE 0)
      PROVE  A!Owed(d, x)' + A!Count(sendq'[d], x) <= offers'[<<d, x>>]
  <2>1. DeliverTask(d) /\ t = Head(sendq[d])
    BY <1>7, ReceiveIsDelivery
  <2>2. sendq[d] # <<>> /\ sendq'[d] = Tail(sendq[d]) /\ offers' = offers
    BY <1>1, <2>1 DEF DeliverTask, S!ServerWrites, S!auxVars, P!TypeInv, P!TypeOK
  <2>3. A!Count(sendq[d], x) = A!Count(sendq'[d], x) + (IF t = x THEN 1 ELSE 0)
    BY <1>2, <2>1, <2>2, A!CountTail
  <2> QED BY <1>2, <1>3, <1>4, <1>7, <2>2, <2>3
<1> QED BY <1>1, <1>6, <1>7, ClientAssumed, A!OwedStep

(* Every step keeps the invariant, and is a step of AgentHub with the peer  *)
(* that is derived from the agent.                                          *)
LEMMA DeliveryStep == DeliveryInv /\ [Next]_vars => DeliveryInv'
<1> SUFFICES ASSUME DeliveryInv, [Next]_vars PROVE DeliveryInv'
  OBVIOUS
<1>1. /\ P!TypeInv /\ P!SocketInv /\ A!ClientInv
      /\ [P!Next]_(P!vars) /\ [A!ClientNext]_(A!clientVars)
  BY PeerStep, ClientSteps DEF DeliveryInv
<1>2. P!TypeInv' /\ P!SocketInv' /\ A!ClientInv'
  BY <1>1, ClientAssumed, P!TypeStep, P!SocketStep, A!ClientStep
<1>3. LinkInv' /\ OwedInv'
  BY LinkStep, OwedStep
<1> QED BY <1>2, <1>3 DEF DeliveryInv

(* The agent's queues, the connections of both sides and the offers of each *)
(* task keep to the invariant, in every behaviour of the two together.      *)
THEOREM DeliveryInvCorrect == Spec => []DeliveryInv
BY DeliveryInit, DeliveryStep, PTL DEF Spec

(* Every state component keeps its type, on both sides and in the peer.     *)
THEOREM DeliveryTypeCorrect == Spec => []DeliveryTypeOK
<1>1. DeliveryInv => DeliveryTypeOK
  BY DEF DeliveryInv, DeliveryTypeOK, A!ClientInv, A!ClientTypeOK, A!Reports, C!ClientTypeOK,
         C!Reports, P!TypeInv, P!TypeOK, P!Tasks, P!HandlerPhases, P!RequestPhases,
         P!TaskStatuses, H!TypeOK, H!Tasks, H!HandlerPhases, H!RequestPhases, H!TaskStatuses
<1> QED BY <1>1, DeliveryInvCorrect, PTL

(* On every connection the reports that wait alternate.                     *)
THEOREM ReportsPairedCorrect == Spec => []ReportsPaired
<1>1. DeliveryInv => ReportsPaired
  <2> SUFFICES ASSUME DeliveryInv, NEW c \in Conns PROVE C!ReportsPairedOn(c)
    BY DEF ReportsPaired
  <2>1. A!ReportsPairedOn(c)
    BY A!PairedReports DEF DeliveryInv
  <2> QED BY <2>1 DEF A!ReportsPairedOn, C!ReportsPairedOn
<1> QED BY <1>1, DeliveryInvCorrect, PTL

(* On each connection a script is started at most as often as its task was  *)
(* put on the connection's channel.                                         *)
THEOREM StartsBackedCorrect == Spec => []StartsBacked
<1>1. DeliveryInv => StartsBacked
  <2> SUFFICES ASSUME DeliveryInv, NEW c \in Conns, NEW t \in Requests \X Agents
               PROVE  starts[c][t] <= offers[<<c, t>>]
    BY DEF StartsBacked, H!Tasks
  <2>1. /\ sendq[c] \in Seq(Requests \X Agents) /\ <<c, t>> \in Conns \X (Requests \X Agents)
        /\ offers \in [Conns \X (Requests \X Agents) -> Nat]
    BY ServerTypes DEF DeliveryInv
  <2>2. offers[<<c, t>>] \in Nat
    BY <2>1
  <2>3. A!Count(sendq[c], t) \in Nat
    BY <2>1, A!CountType
  <2>4. /\ A!Owed(c, t) \in Nat /\ starts[c][t] \in Nat /\ starts[c][t] <= A!Owed(c, t)
    BY A!OwedType DEF DeliveryInv, A!ClientInv
  <2>5. A!Owed(c, t) + A!Count(sendq[c], t) <= offers[<<c, t>>]
    BY DEF DeliveryInv, OwedInv
  <2> QED BY <2>2, <2>3, <2>4, <2>5
<1> QED BY <1>1, DeliveryInvCorrect, PTL

-----------------------------------------------------------------------------
(* A task that the agent runs on a working connection, or whose connection  *)
(* was lost after its script had been started.                              *)
RunningInv ==
    \A t \in Requests \X Agents : taskStatus[t] = "running" =>
        \/ \E c \in Conns : starts[c][t] > 0 /\ sock[c] # "up"
        \/ \E c \in Conns : P!RunsOn(c, t)

LEMMA RunsOnStarted ==
    ASSUME DeliveryInv, NEW c \in Conns, NEW t, P!RunsOn(c, t)
    PROVE  /\ sock[c] = "up" /\ A!FirstStarted(c) /\ A!Unreported(c) # <<>>
           /\ Head(A!Unreported(c)) = t /\ starts[c][t] > 0
<1>1. sock[c] = "up" /\ A!FirstStarted(c) /\ Inbox[c] = A!Unreported(c)
  BY PeerIs DEF P!RunsOn
<1>2. A!Unreported(c) # <<>> /\ starts[c][Head(A!Unreported(c))] > 0
  BY <1>1, A!HeadStarted DEF DeliveryInv
<1> QED BY <1>1, <1>2 DEF P!RunsOn

(* A connection that starts to work has run nothing yet. *)
LEMMA DialedFresh ==
    ASSUME DeliveryInv, NEW c \in Conns, Dial(c), NEW t \in Requests \X Agents
    PROVE  starts[c][t] = 0
<1>1. executor[c] = "none"
  BY DEF Dial, C!Dial
<1> QED BY <1>1 DEF DeliveryInv, A!ClientInv, A!ExecutorInv, A!Untouched

LEMMA RunningInvStep == DeliveryInv /\ RunningInv /\ [Next]_vars => RunningInv'
<1> SUFFICES ASSUME DeliveryInv, RunningInv, [Next]_vars,
                    NEW t \in Requests \X Agents, taskStatus'[t] = "running"
             PROVE  \/ \E c \in Conns : starts'[c][t] > 0 /\ sock'[c] # "up"
                    \/ \E c \in Conns : P!RunsOn(c, t)'
  BY DEF RunningInv
<1>1. \/ \E c \in Conns : P!RunsOn(c, t)'
      \/ /\ taskStatus[t] = "running"
         /\ \A c \in Conns : P!RunsOn(c, t) => P!RunsOn(c, t)' \/ sock'[c] # "up"
  BY PeerStep, P!RunningStep DEF DeliveryInv, P!Tasks
<1>2. \A c \in Conns : /\ starts[c][t] \in Nat /\ starts'[c][t] \in Nat
                       /\ starts[c][t] <= starts'[c][t]
  <2> SUFFICES ASSUME NEW c \in Conns
               PROVE  /\ starts[c][t] \in Nat /\ starts'[c][t] \in Nat
                      /\ starts[c][t] <= starts'[c][t]
    OBVIOUS
  <2>1. /\ A!ClientInv /\ [A!ClientNext]_(A!clientVars) /\ A!ClientInv'
    BY ClientSteps, A!ClientStep, ClientAssumed DEF DeliveryInv
  <2>2. starts[c][t] <= starts'[c][t]
    BY <2>1, ClientAssumed, A!OwedStep
  <2>3. A!ClientTypeOK /\ A!ClientTypeOK'
    BY <2>1 DEF A!ClientInv
  <2>4. /\ starts \in [Conns -> [Requests \X Agents -> Nat]]
        /\ starts' \in [Conns -> [Requests \X Agents -> Nat]]
    BY <2>3 DEF A!ClientTypeOK
  <2> QED BY <2>2, <2>4
<1>3. ASSUME NEW c \in Conns, starts[c][t] > 0, sock[c] # "up"
      PROVE  starts'[c][t] > 0 /\ sock'[c] # "up"
  <2>1. starts'[c][t] > 0
    BY <1>2, <1>3
  <2>2. ~Dial(c)
    BY <1>2, <1>3, DialedFresh
  <2> QED BY <1>3, <2>1, <2>2, UpKept
<1>4. ASSUME NEW c \in Conns, P!RunsOn(c, t) PROVE starts'[c][t] > 0
  BY <1>2, <1>4, RunsOnStarted
<1> QED BY <1>1, <1>3, <1>4 DEF RunningInv

(* A task is left running with nobody to report its end only if a           *)
(* connection on which its script was started was lost.                     *)
THEOREM RunningCorrect == Spec => []RunningOnConnection
<1>1. Init => RunningInv
  BY DEF Init, S!Init, S!Tasks, RunningInv
<1>2. DeliveryInv /\ RunningInv => RunningOnConnection
  <2> SUFFICES ASSUME DeliveryInv, RunningInv, NEW t \in Requests \X Agents,
                      taskStatus[t] = "running"
               PROVE  \/ \E c \in Conns : starts[c][t] > 0 /\ sock[c] # "up"
                      \/ \E c \in Conns : /\ sock[c] = "up" /\ C!FirstStarted(c)
                                          /\ C!Unreported(c) # <<>> /\ Head(C!Unreported(c)) = t
    BY DEF RunningOnConnection, H!Tasks
  <2>1. \A c \in Conns : /\ C!Unreported(c) = A!Unreported(c)
                         /\ C!FirstStarted(c) = A!FirstStarted(c)
    BY DEF C!Unreported, C!FirstStarted, C!InHand, C!FinalTasks, C!FirstFinal,
           A!Unreported, A!FirstStarted, A!InHand, A!FinalTasks, A!FirstFinal
  <2> QED BY <2>1, RunsOnStarted DEF RunningInv
<1> QED BY <1>1, <1>2, DeliveryInvCorrect, RunningInvStep, PTL DEF Spec

-----------------------------------------------------------------------------
(* The peer's refinement. H and P are the same instance of AgentHub.         *)
LEMMA InstancesAgree ==
    /\ P!Init => H!Init
    /\ [P!Next]_(P!vars) => [H!Next]_(H!vars)
<1> USE DEF P!hubVars, H!hubVars, P!chanVars, H!chanVars, P!peerVars, H!peerVars,
            P!linkVars, H!linkVars, P!connVars, H!connVars, P!storeVars, H!storeVars,
            P!reqVars, H!reqVars, P!auxVars, H!auxVars
<1>1. P!Init => H!Init
  BY DEF P!Init, H!Init, P!Tasks, H!Tasks
<1>2. ASSUME NEW c \in Conns
      PROVE  /\ P!Dial(c) => H!Dial(c)
             /\ P!Handshake(c) => H!Handshake(c)
  BY DEF P!Handshake, H!Handshake,
         P!Dial, H!Dial, P!ReadHello, H!ReadHello, P!HelloFails, H!HelloFails,
         P!RejectDuplicate, H!RejectDuplicate, P!AcceptHello, H!AcceptHello,
         P!UpsertAgent, H!UpsertAgent, P!Register, H!Register, P!PendingTasks,
         H!PendingTasks, P!TasksOf, H!TasksOf, P!Tasks, H!Tasks, P!ListPending,
         H!ListPending, P!FlushTask, H!FlushTask, P!FlushPanics, H!FlushPanics,
         P!StartLoops, H!StartLoops
<1>3. ASSUME NEW c \in Conns
      PROVE  /\ P!WriteLoop(c) => H!WriteLoop(c)
             /\ P!LoseConnection(c) => H!LoseConnection(c)
  BY DEF P!WriteLoop, H!WriteLoop,
         P!ServerWrites, H!ServerWrites, P!WriteFrame, H!WriteFrame,
         P!WriteDroppedFrame, H!WriteDroppedFrame, P!WriteIntoVoid, H!WriteIntoVoid,
         P!WriterEnds, H!WriterEnds, P!StopWriter, H!StopWriter, P!LoseConnection,
         H!LoseConnection
<1>4. ASSUME NEW c \in Conns
      PROVE  /\ P!Results(c) => H!Results(c)
             /\ P!CleanUp(c) => H!CleanUp(c)
  BY DEF P!Results, H!Results, P!CleanUp, H!CleanUp,
         P!ServerReads, H!ServerReads, P!ResultRunning, H!ResultRunning, P!ResultFinal,
         H!ResultFinal, P!EntryAfter, H!EntryAfter, P!Unregister, H!Unregister,
         P!SetOffline, H!SetOffline
<1>5. ASSUME NEW r \in Requests
      PROVE  P!Post(r) => H!Post(r)
  BY DEF P!Post, H!Post,
         P!PostTask, H!PostTask, P!OnlineAgents, H!OnlineAgents, P!ListAgents,
         H!ListAgents
<1>6. ASSUME NEW r \in Requests
      PROVE  P!Serve(r) => H!Serve(r)
  BY DEF P!Serve, H!Serve,
         P!SkipAgent, H!SkipAgent, P!OnlineAgents, H!OnlineAgents, P!StartBroadcast,
         H!StartBroadcast, P!NewTaskStatus, H!NewTaskStatus, P!CreateTask, H!CreateTask,
         P!NextTask, H!NextTask, P!PushFinds, H!PushFinds, P!PushFindsNone,
         H!PushFindsNone, P!PushSends, H!PushSends, P!PushFull, H!PushFull,
         P!PushPanics, H!PushPanics
<1>7. /\ \A B \in SUBSET Agents : P!StaleSweep(B) => H!StaleSweep(B)
      /\ P!Restart => H!Restart
  BY DEF P!FlushBlocked, H!FlushBlocked, P!Fresh, H!Fresh, P!Stale, H!Stale,
         P!StaleSweep, H!StaleSweep, P!Restart, H!Restart
<1>8. UNCHANGED P!vars => UNCHANGED H!vars
  BY DEF P!vars, H!vars
<1> QED BY <1>1, <1>2, <1>3, <1>4, <1>5, <1>6, <1>7, <1>8 DEF P!Next, H!Next

(* The agent behaves towards the server like the peer that AgentHub         *)
(* assumes: it reports on the frames of a connection in order, twice each.  *)
THEOREM PeerRefinedCorrect == Spec => PeerRefined
<1>1. Init => H!Init
  BY DeliveryInit, InstancesAgree
<1>2. DeliveryInv /\ [Next]_vars => [H!Next]_(H!vars)
  BY PeerStep, InstancesAgree
<1> QED BY <1>1, <1>2, DeliveryInvCorrect, PTL DEF Spec, PeerRefined, H!Spec

(* So everything that was shown of the hub with the assumed peer holds with *)
(* the agent: its entries match its handlers, online agents have a handler, *)
(* no pending task of a served connection is overlooked, frames go to the   *)
(* agent they were meant for, and a task that had ended runs again only if  *)
(* it was offered more than once.                                           *)
THEOREM HubCorrectWithAgent ==
    Spec => /\ []P!HubMatchesHandlers /\ []P!OnlineHasHandler /\ []P!NoTaskOverlooked
            /\ []P!FramesAddressed /\ P!RerunOnlyIfOfferedTwice
<1>1. Init => P!Init
  BY DeliveryInit
<1>2. Spec => P!Spec
  BY <1>1, PeerStep, DeliveryInvCorrect, PTL DEF Spec, P!Spec
<1> QED
  BY <1>2, P!HubCorrect, P!OnlineCorrect, P!NoTaskOverlookedCorrect, P!FramesAddressedCorrect,
     P!RerunCorrect, PTL
=============================================================================
