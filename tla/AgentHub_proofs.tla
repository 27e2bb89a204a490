--------------------------- MODULE AgentHub_proofs ---------------------------
(* The safety properties of AgentHub, for any number of agents, connections *)
(* and requests, and any capacity of the channels.                          *)
EXTENDS AgentHub, QueueCounts, TLAPS

(* A request that has a task in hand knows its agent, and the connection    *)
(* that push found in the hub is one of that agent's.                       *)
RequestsWellFormed ==
    \A r \in Requests :
        /\ request[r] \in {"lookup", "send"} => current[r] \in Agents
        /\ request[r] = "send" => /\ target[r] \in Conns
                                 /\ AgentOf[target[r]] = current[r]

(* The hub files a connection under the agent ID of its hello. *)
HubFiledByAgent ==
    \A a \in Agents : conns[a] # NoConn => AgentOf[conns[a]] = a

TypeInv == TypeOK /\ RequestsWellFormed /\ HubFiledByAgent

USE HubAssumption

-----------------------------------------------------------------------------
(* The initial state is well-typed. *)
LEMMA TypeInit == Init => TypeInv
  BY DEF Init, TypeInv, TypeOK, RequestsWellFormed, HubFiledByAgent, Tasks,
         HandlerPhases, RequestPhases, TaskStatuses

(* Every step of the hub keeps the types, and what a request knows about    *)
(* the task in hand.                                                        *)
LEMMA TypeStep == TypeInv /\ [Next]_vars => TypeInv'
<1> SUFFICES ASSUME TypeInv, [Next]_vars PROVE TypeInv'
  OBVIOUS
<1> USE DEF TypeInv, TypeOK, RequestsWellFormed, HubFiledByAgent, Tasks, HandlerPhases,
            RequestPhases, TaskStatuses, hubVars, chanVars, peerVars, linkVars, connVars, storeVars, reqVars, auxVars
<1>1. ASSUME NEW c \in Conns, Dial(c)
     PROVE TypeInv'
  BY <1>1 DEF Dial
<1>2. ASSUME NEW c \in Conns, ReadHello(c)
     PROVE TypeInv'
  BY <1>2 DEF ReadHello
<1>3. ASSUME NEW c \in Conns, HelloFails(c)
     PROVE TypeInv'
  BY <1>3 DEF HelloFails
<1>4. ASSUME NEW c \in Conns, RejectDuplicate(c)
     PROVE TypeInv'
  BY <1>4 DEF RejectDuplicate
<1>5. ASSUME NEW c \in Conns, AcceptHello(c)
     PROVE TypeInv'
  BY <1>5 DEF AcceptHello
<1>6. ASSUME NEW c \in Conns, UpsertAgent(c)
     PROVE TypeInv'
  BY <1>6 DEF UpsertAgent
<1>7. ASSUME NEW c \in Conns, Register(c)
     PROVE TypeInv'
  BY <1>7 DEF Register
<1>8. ASSUME NEW c \in Conns, ListPending(c)
     PROVE TypeInv'
  BY <1>8 DEF ListPending, PendingTasks, TasksOf
<1>9. ASSUME NEW c \in Conns, NEW t \in Tasks, FlushTask(c, t)
     PROVE TypeInv'
  <2>1. sendq' \in [Conns -> Seq(Tasks)] /\ offers' \in [Conns \X Tasks -> Nat]
    BY <1>9 DEF FlushTask
  <2>2. unflushed' \in [Conns -> SUBSET Tasks] /\ reached' \in [Conns -> SUBSET Tasks]
    BY <1>9 DEF FlushTask
  <2>3. TypeOK'
    BY <1>9, <2>1, <2>2 DEF FlushTask
  <2>4. RequestsWellFormed' /\ HubFiledByAgent'
    BY <1>9 DEF FlushTask
  <2> QED
    BY <2>3, <2>4
<1>10. ASSUME NEW c \in Conns, FlushPanics(c)
     PROVE TypeInv'
  BY <1>10 DEF FlushPanics
<1>11. ASSUME NEW c \in Conns, StartLoops(c)
     PROVE TypeInv'
  BY <1>11 DEF StartLoops
<1>12. ASSUME NEW c \in Conns, WriteFrame(c)
     PROVE TypeInv'
  <2>1. sendq[c] \in Seq(Tasks) /\ sendq[c] # <<>>
    BY <1>12 DEF WriteFrame, ServerWrites
  <2>2. Head(sendq[c]) \in Tasks /\ Tail(sendq[c]) \in Seq(Tasks)
    BY <2>1
  <2>3. inbox' \in [Conns -> Seq(Tasks)]
    BY <1>12, <2>2 DEF WriteFrame
  <2>4. sendq' \in [Conns -> Seq(Tasks)]
    BY <1>12, <2>2 DEF WriteFrame, ServerWrites
  <2> QED
    BY <1>12, <2>3, <2>4 DEF WriteFrame, ServerWrites
<1>13. ASSUME NEW c \in Conns, WriteDroppedFrame(c)
     PROVE TypeInv'
  BY <1>13 DEF WriteDroppedFrame, ServerWrites
<1>14. ASSUME NEW c \in Conns, WriteIntoVoid(c)
     PROVE TypeInv'
  BY <1>14 DEF WriteIntoVoid
<1>15. ASSUME NEW c \in Conns, StopWriter(c)
     PROVE TypeInv'
  BY <1>15 DEF StopWriter, WriterEnds
<1>16. ASSUME NEW c \in Conns, ResultRunning(c)
     PROVE TypeInv'
  BY <1>16 DEF ResultRunning, ServerReads
<1>17. ASSUME NEW c \in Conns, NEW s \in Outcomes, ResultFinal(c, s)
     PROVE TypeInv'
  BY <1>17 DEF ResultFinal, ServerReads
<1>18. ASSUME NEW c \in Conns, Unregister(c)
     PROVE TypeInv'
  BY <1>18 DEF Unregister, EntryAfter
<1>19. ASSUME NEW c \in Conns, SetOffline(c)
     PROVE TypeInv'
  BY <1>19 DEF SetOffline
<1>20. ASSUME NEW c \in Conns, LoseConnection(c)
     PROVE TypeInv'
  BY <1>20 DEF LoseConnection
<1>21. ASSUME NEW r \in Requests, NEW a \in Agents, PostTask(r, a)
     PROVE TypeInv'
  BY <1>21 DEF PostTask
<1>22. ASSUME NEW r \in Requests, ListAgents(r)
     PROVE TypeInv'
  BY <1>22 DEF ListAgents, OnlineAgents
<1>33. ASSUME NEW r \in Requests, NEW a \in Agents, SkipAgent(r, a)
     PROVE TypeInv'
  BY <1>33 DEF SkipAgent
<1>23. ASSUME NEW r \in Requests, StartBroadcast(r)
     PROVE TypeInv'
  BY <1>23 DEF StartBroadcast
<1>24. ASSUME NEW r \in Requests, NEW a \in Agents, CreateTask(r, a)
     PROVE TypeInv'
  BY <1>24 DEF CreateTask, NewTaskStatus
<1>25. ASSUME NEW r \in Requests, PushFinds(r)
     PROVE TypeInv'
  BY <1>25 DEF PushFinds
<1>26. ASSUME NEW r \in Requests, PushFindsNone(r)
     PROVE TypeInv'
  BY <1>26 DEF PushFindsNone, NextTask
<1>27. ASSUME NEW r \in Requests, PushSends(r)
     PROVE TypeInv'
  <2>1. target[r] \in Conns /\ <<r, current[r]>> \in Tasks
    BY <1>27 DEF PushSends
  <2>2. sendq' \in [Conns -> Seq(Tasks)] /\ offers' \in [Conns \X Tasks -> Nat]
    BY <1>27, <2>1 DEF PushSends
  <2>3. reached' \in [Conns -> SUBSET Tasks]
    BY <1>27, <2>1 DEF PushSends
  <2>4. /\ request' \in [Requests -> RequestPhases]
        /\ current' \in [Requests -> Agents \cup {NoAgent}]
        /\ target' \in [Requests -> Conns \cup {NoConn}]
    BY <1>27 DEF PushSends, NextTask
  <2>5. RequestsWellFormed' /\ HubFiledByAgent'
    BY <1>27 DEF PushSends, NextTask
  <2> QED
    BY <1>27, <2>2, <2>3, <2>4, <2>5 DEF PushSends
<1>28. ASSUME NEW r \in Requests, PushFull(r)
     PROVE TypeInv'
  BY <1>28 DEF PushFull, NextTask
<1>29. ASSUME NEW r \in Requests, PushPanics(r)
     PROVE TypeInv'
  BY <1>29 DEF PushPanics
<1>30. ASSUME NEW S \in SUBSET Agents, StaleSweep(S)
     PROVE TypeInv'
  BY <1>30 DEF StaleSweep, Stale
<1>31. ASSUME Restart
     PROVE TypeInv'
  BY <1>31 DEF Restart
<1>32. ASSUME UNCHANGED vars
     PROVE TypeInv'
  BY <1>32 DEF vars
<1> QED
  BY <1>1, <1>2, <1>3, <1>4, <1>5, <1>6, <1>7, <1>8, <1>9, <1>10, <1>11, <1>12, <1>13, <1>14, <1>15, <1>16, <1>17, <1>18, <1>19, <1>20, <1>21, <1>22, <1>23, <1>24, <1>25, <1>26, <1>27, <1>28, <1>29, <1>30, <1>31, <1>32, <1>33
  DEF Next, Handshake, WriteLoop, Results, CleanUp, Post, Serve

(* Type correctness: every variable stays in its set, for all constants.    *)
THEOREM TypeCorrect == Spec => []TypeOK
<1>1. TypeInv => TypeOK
  BY DEF TypeInv
<1> QED
  BY <1>1, TypeInit, TypeStep, PTL DEF Spec

-----------------------------------------------------------------------------
(* A channel is closed only after its connection was registered. *)
ClosedWasRegistered ==
    \A c \in closed : handler[c] \in Registered \cup {"offline", "panicked", "ended"}

HubInv == HubMatchesHandlers /\ ClosedWasRegistered

LEMMA HubInit == Init => HubInv
  BY DEF Init, HubInv, HubMatchesHandlers, ClosedWasRegistered, Registered

(* Registration, eviction and clean-up keep the hub and the handlers in     *)
(* step; every other action leaves the three variables, or moves a handler  *)
(* between two program counters on the same side of the equivalence.        *)
LEMMA HubStep == TypeInv /\ HubInv /\ [Next]_vars => HubInv'
<1> SUFFICES ASSUME TypeInv, HubInv, [Next]_vars PROVE HubInv'
  OBVIOUS
<1> USE DEF TypeInv, TypeOK, HubFiledByAgent, HubInv, HubMatchesHandlers, ClosedWasRegistered,
            Registered, HandlerPhases, hubVars, chanVars, peerVars, linkVars, connVars
<1>1. CASE UNCHANGED <<conns, closed, handler>>
  BY <1>1
<1>2. ASSUME NEW c \in Conns, Dial(c)
     PROVE HubInv'
  BY <1>2 DEF Dial
<1>3. ASSUME NEW c \in Conns, ReadHello(c)
     PROVE HubInv'
  BY <1>3 DEF ReadHello
<1>4. ASSUME NEW c \in Conns, HelloFails(c)
     PROVE HubInv'
  BY <1>4 DEF HelloFails
<1>5. ASSUME NEW c \in Conns, RejectDuplicate(c)
     PROVE HubInv'
  BY <1>5 DEF RejectDuplicate
<1>6. ASSUME NEW c \in Conns, AcceptHello(c)
     PROVE HubInv'
  BY <1>6 DEF AcceptHello
<1>7. ASSUME NEW c \in Conns, UpsertAgent(c)
     PROVE HubInv'
  BY <1>7 DEF UpsertAgent
<1>8. ASSUME NEW c \in Conns, Register(c)
     PROVE HubInv'
  <2>1. conns[AgentOf[c]] # c /\ c \notin closed'
    BY <1>8 DEF Register
  <2>2. ASSUME NEW d \in Conns
        PROVE conns'[AgentOf[d]] = d <=> handler'[d] \in Registered /\ d \notin closed'
    <3>1. CASE d = c
      BY <1>8, <2>1, <3>1 DEF Register
    <3>2. CASE d # c /\ AgentOf[d] = AgentOf[c]
      BY <1>8, <3>2 DEF Register
    <3>3. CASE AgentOf[d] # AgentOf[c]
      <4>1. d # conns[AgentOf[c]]
        BY <3>3
      <4> QED
        BY <1>8, <3>3, <4>1 DEF Register
    <3> QED
      BY <3>1, <3>2, <3>3
  <2>3. ClosedWasRegistered'
    BY <1>8 DEF Register
  <2> QED
    BY <2>2, <2>3
<1>9. ASSUME NEW c \in Conns, ListPending(c)
     PROVE HubInv'
  BY <1>9 DEF ListPending, PendingTasks, TasksOf
<1>10. ASSUME NEW c \in Conns, FlushPanics(c)
     PROVE HubInv'
  BY <1>10 DEF FlushPanics
<1>11. ASSUME NEW c \in Conns, StartLoops(c)
     PROVE HubInv'
  BY <1>11 DEF StartLoops
<1>12. ASSUME NEW c \in Conns, Unregister(c)
     PROVE HubInv'
  BY <1>12 DEF Unregister, EntryAfter
<1>13. ASSUME NEW c \in Conns, SetOffline(c)
     PROVE HubInv'
  BY <1>13 DEF SetOffline
<1>14. ASSUME Restart
     PROVE HubInv'
  BY <1>14 DEF Restart
<1> QED
  BY <1>1, <1>2, <1>3, <1>4, <1>5, <1>6, <1>7, <1>8, <1>9, <1>10, <1>11, <1>12, <1>13, <1>14, ZenonT(30)
  DEF Next, Handshake, WriteLoop, Results, CleanUp, Post, Serve, FlushTask, WriteFrame, ServerWrites, WriteDroppedFrame, ServerWrites, WriteIntoVoid, StopWriter, WriterEnds, ResultRunning, ServerReads, ResultFinal, ServerReads, LoseConnection, PostTask, ListAgents, OnlineAgents, SkipAgent, StartBroadcast, CreateTask, NewTaskStatus, PushFinds, PushFindsNone, NextTask, PushSends, NextTask, PushFull, NextTask, PushPanics, StaleSweep, Stale, vars

(* The hub's entries and the live handlers agree in every reachable state:  *)
(* see HubMatchesHandlers.                                                  *)
THEOREM HubCorrect == Spec => []HubMatchesHandlers
<1>1. Init => TypeInv /\ HubInv
  BY TypeInit, HubInit
<1>2. TypeInv /\ HubInv /\ [Next]_vars => (TypeInv /\ HubInv)'
  BY TypeStep, HubStep
<1>3. HubInv => HubMatchesHandlers
  BY DEF HubInv
<1> QED
  BY <1>1, <1>2, <1>3, PTL DEF Spec

-----------------------------------------------------------------------------
(* OnlineHasHandler is inductive relative to HubInv: a handler that panics  *)
(* was evicted, and the one that evicted it is a witness or has marked the  *)
(* agent offline.                                                           *)
LEMMA OnlineInit == Init => OnlineHasHandler
  BY DEF Init, OnlineHasHandler

LEMMA OnlineStep == TypeInv /\ HubInv /\ OnlineHasHandler /\ [Next]_vars => OnlineHasHandler'
<1> SUFFICES ASSUME TypeInv, HubInv, OnlineHasHandler, [Next]_vars PROVE OnlineHasHandler'
  OBVIOUS
<1> USE DEF TypeInv, TypeOK, HubFiledByAgent, HubInv, HubMatchesHandlers, ClosedWasRegistered,
            Registered, HandlerPhases, OnlineHasHandler, hubVars, chanVars, peerVars, linkVars, connVars, storeVars, auxVars
<1>1. CASE UNCHANGED <<closed, handler, agentStatus, loaded>>
  BY <1>1
<1>2. ASSUME NEW c \in Conns, Dial(c)
     PROVE OnlineHasHandler'
  BY <1>2 DEF Dial
<1>3. ASSUME NEW c \in Conns, ReadHello(c)
     PROVE OnlineHasHandler'
  BY <1>3, ZenonT(30) DEF ReadHello
<1>4. ASSUME NEW c \in Conns, HelloFails(c)
     PROVE OnlineHasHandler'
  BY <1>4, ZenonT(30) DEF HelloFails
<1>5. ASSUME NEW c \in Conns, RejectDuplicate(c)
     PROVE OnlineHasHandler'
  BY <1>5 DEF RejectDuplicate
<1>6. ASSUME NEW c \in Conns, AcceptHello(c)
     PROVE OnlineHasHandler'
  BY <1>6 DEF AcceptHello
<1>7. ASSUME NEW c \in Conns, UpsertAgent(c)
     PROVE OnlineHasHandler'
  <2> SUFFICES ASSUME NEW a \in Agents, agentStatus'[a] = "online", a \notin loaded'
               PROVE \E d \in Conns : /\ AgentOf[d] = a
                                       /\ handler'[d] \in Registered \cup {"register", "offline"}
                                       /\ d \notin closed'
    OBVIOUS
  <2>1. CASE a = AgentOf[c]
    <3>1. handler[c] = "upsert"
      BY <1>7 DEF UpsertAgent
    <3>2. c \notin closed /\ conns[AgentOf[c]] # c
      BY <3>1
    <3>3. c \notin closed'
      BY <1>7, <3>2 DEF UpsertAgent
    <3>4. handler'[c] \in Registered \cup {"register"}
      BY <1>7 DEF UpsertAgent
    <3> QED
      BY <2>1, <3>3, <3>4
  <2>2. CASE a # AgentOf[c]
    <3>1. PICK d \in Conns : /\ AgentOf[d] = a
                            /\ handler[d] \in Registered \cup {"register", "offline"}
                            /\ d \notin closed
      BY <1>7, <2>2 DEF UpsertAgent
    <3>2. handler'[d] = handler[d] /\ d \notin closed'
      BY <1>7, <2>2, <3>1 DEF UpsertAgent
    <3> QED
      BY <3>1, <3>2
  <2> QED
    BY <2>1, <2>2
<1>8. ASSUME NEW c \in Conns, Register(c)
     PROVE OnlineHasHandler'
  <2> SUFFICES ASSUME NEW a \in Agents, agentStatus'[a] = "online", a \notin loaded'
               PROVE \E d \in Conns : /\ AgentOf[d] = a
                                       /\ handler'[d] \in Registered \cup {"register", "offline"}
                                       /\ d \notin closed'
    OBVIOUS
  <2>1. CASE a = AgentOf[c]
    <3>1. handler[c] = "register"
      BY <1>8 DEF Register
    <3>2. c \notin closed /\ conns[AgentOf[c]] # c
      BY <3>1
    <3>3. c \notin closed'
      BY <1>8, <3>2 DEF Register
    <3>4. handler'[c] \in Registered \cup {"register"}
      BY <1>8 DEF Register
    <3> QED
      BY <2>1, <3>3, <3>4
  <2>2. CASE a # AgentOf[c]
    <3>1. PICK d \in Conns : /\ AgentOf[d] = a
                            /\ handler[d] \in Registered \cup {"register", "offline"}
                            /\ d \notin closed
      BY <1>8, <2>2 DEF Register
    <3>2. handler'[d] = handler[d] /\ d \notin closed'
      BY <1>8, <2>2, <3>1 DEF Register
    <3> QED
      BY <3>1, <3>2
  <2> QED
    BY <2>1, <2>2
<1>9. ASSUME NEW c \in Conns, ListPending(c)
     PROVE OnlineHasHandler'
  BY <1>9 DEF ListPending, PendingTasks, TasksOf
<1>10. ASSUME NEW c \in Conns, FlushPanics(c)
     PROVE OnlineHasHandler'
  BY <1>10 DEF FlushPanics
<1>11. ASSUME NEW c \in Conns, StartLoops(c)
     PROVE OnlineHasHandler'
  BY <1>11 DEF StartLoops
<1>12. ASSUME NEW c \in Conns, Unregister(c)
     PROVE OnlineHasHandler'
  BY <1>12 DEF Unregister, EntryAfter
<1>13. ASSUME NEW c \in Conns, SetOffline(c)
     PROVE OnlineHasHandler'
  BY <1>13 DEF SetOffline
<1>14. ASSUME NEW S \in SUBSET Agents, StaleSweep(S)
     PROVE OnlineHasHandler'
  BY <1>14 DEF StaleSweep, Stale
<1>15. ASSUME Restart
     PROVE OnlineHasHandler'
  BY <1>15 DEF Restart
<1> QED
  BY <1>1, <1>2, <1>3, <1>4, <1>5, <1>6, <1>7, <1>8, <1>9, <1>10, <1>11, <1>12, <1>13, <1>14, <1>15, ZenonT(30)
  DEF Next, Handshake, WriteLoop, Results, CleanUp, Post, Serve, FlushTask, WriteFrame, ServerWrites, WriteDroppedFrame, ServerWrites, WriteIntoVoid, StopWriter, WriterEnds, ResultRunning, ServerReads, ResultFinal, ServerReads, LoseConnection, PostTask, ListAgents, OnlineAgents, SkipAgent, StartBroadcast, CreateTask, NewTaskStatus, PushFinds, PushFindsNone, NextTask, PushSends, NextTask, PushFull, NextTask, PushPanics, vars

(* No agent stays online without a handler that will mark it offline: see   *)
(* OnlineHasHandler.                                                        *)
THEOREM OnlineCorrect == Spec => []OnlineHasHandler
<1>1. Init => TypeInv /\ HubInv /\ OnlineHasHandler
  BY TypeInit, HubInit, OnlineInit
<1>2. TypeInv /\ HubInv /\ OnlineHasHandler /\ [Next]_vars
        => (TypeInv /\ HubInv /\ OnlineHasHandler)'
  BY TypeStep, HubStep, OnlineStep
<1> QED
  BY <1>1, <1>2, PTL DEF Spec

-----------------------------------------------------------------------------
(* What NoTaskOverlooked needs to be inductive: during the flush a pending  *)
(* task may still be in unflushed, and a task whose push is under way is    *)
(* covered as long as push has not looked up another connection.            *)
PushComing(t, c) ==
    /\ current[t[1]] = t[2]
    /\ \/ request[t[1]] = "lookup"
       \/ request[t[1]] = "send" /\ target[t[1]] = c

PendingCovered ==
    \A c \in Conns : \A t \in TasksOf(AgentOf[c]) :
        /\ conns[AgentOf[c]] = c
        /\ handler[c] \in {"flush", "serve"}
        /\ taskStatus[t] = "pending"
        => t \in reached[c] \cup unflushed[c] \/ PushComing(t, c)

ServedIsFlushed == \A c \in Conns : handler[c] = "serve" => unflushed[c] = {}

CoverInv == PendingCovered /\ ServedIsFlushed

LEMMA CoverInit == Init => CoverInv
  BY DEF Init, CoverInv, PendingCovered, ServedIsFlushed

LEMMA CoverStep == TypeInv /\ HubInv /\ CoverInv /\ [Next]_vars => CoverInv'
<1> SUFFICES ASSUME TypeInv, HubInv, CoverInv, [Next]_vars PROVE CoverInv'
  OBVIOUS
<1> USE DEF TypeInv, TypeOK, RequestsWellFormed, HubFiledByAgent, HubInv, HubMatchesHandlers,
            ClosedWasRegistered, Registered, HandlerPhases, RequestPhases, TaskStatuses, Tasks,
            TasksOf, CoverInv, PendingCovered, ServedIsFlushed, PushComing,
            hubVars, chanVars, peerVars, linkVars, connVars, storeVars, reqVars, auxVars
<1>1. CASE UNCHANGED <<conns, handler, unflushed, taskStatus, request, current, target, reached>>
  BY <1>1
<1>2. ASSUME NEW c \in Conns, Dial(c)
     PROVE CoverInv'
  BY <1>2 DEF Dial
<1>3. ASSUME NEW c \in Conns, ReadHello(c)
     PROVE CoverInv'
  BY <1>3 DEF ReadHello
<1>4. ASSUME NEW c \in Conns, HelloFails(c)
     PROVE CoverInv'
  BY <1>4 DEF HelloFails
<1>5. ASSUME NEW c \in Conns, RejectDuplicate(c)
     PROVE CoverInv'
  BY <1>5 DEF RejectDuplicate
<1>6. ASSUME NEW c \in Conns, AcceptHello(c)
     PROVE CoverInv'
  BY <1>6 DEF AcceptHello
<1>7. ASSUME NEW c \in Conns, UpsertAgent(c)
     PROVE CoverInv'
  BY <1>7 DEF UpsertAgent
<1>8. ASSUME NEW c \in Conns, Register(c)
     PROVE CoverInv'
  BY <1>8 DEF Register
<1>9. ASSUME NEW c \in Conns, ListPending(c)
     PROVE CoverInv'
  BY <1>9 DEF ListPending, PendingTasks, TasksOf
<1>10. ASSUME NEW c \in Conns, NEW t \in Tasks, FlushTask(c, t)
     PROVE CoverInv'
  BY <1>10 DEF FlushTask
<1>11. ASSUME NEW c \in Conns, FlushPanics(c)
     PROVE CoverInv'
  BY <1>11 DEF FlushPanics
<1>12. ASSUME NEW c \in Conns, StartLoops(c)
     PROVE CoverInv'
  BY <1>12 DEF StartLoops
<1>13. ASSUME NEW c \in Conns, ResultRunning(c)
     PROVE CoverInv'
  BY <1>13 DEF ResultRunning, ServerReads
<1>14. ASSUME NEW c \in Conns, NEW s \in Outcomes, ResultFinal(c, s)
     PROVE CoverInv'
  BY <1>14 DEF ResultFinal, ServerReads
<1>15. ASSUME NEW c \in Conns, Unregister(c)
     PROVE CoverInv'
  BY <1>15 DEF Unregister, EntryAfter
<1>16. ASSUME NEW c \in Conns, SetOffline(c)
     PROVE CoverInv'
  BY <1>16 DEF SetOffline
<1>17. ASSUME NEW r \in Requests, NEW a \in Agents, PostTask(r, a)
     PROVE CoverInv'
  BY <1>17 DEF PostTask
<1>18. ASSUME NEW r \in Requests, ListAgents(r)
     PROVE CoverInv'
  BY <1>18 DEF ListAgents, OnlineAgents
<1>27. ASSUME NEW r \in Requests, NEW a \in Agents, SkipAgent(r, a)
     PROVE CoverInv'
  BY <1>27 DEF SkipAgent
<1>19. ASSUME NEW r \in Requests, StartBroadcast(r)
     PROVE CoverInv'
  BY <1>19 DEF StartBroadcast
<1>20. ASSUME NEW r \in Requests, NEW a \in Agents, CreateTask(r, a)
     PROVE CoverInv'
  BY <1>20 DEF CreateTask, NewTaskStatus
<1>21. ASSUME NEW r \in Requests, PushFinds(r)
     PROVE CoverInv'
  BY <1>21 DEF PushFinds
<1>22. ASSUME NEW r \in Requests, PushFindsNone(r)
     PROVE CoverInv'
  BY <1>22 DEF PushFindsNone, NextTask
<1>23. ASSUME NEW r \in Requests, PushSends(r)
     PROVE CoverInv'
  BY <1>23 DEF PushSends, NextTask
<1>24. ASSUME NEW r \in Requests, PushFull(r)
     PROVE CoverInv'
  BY <1>24 DEF PushFull, NextTask
<1>25. ASSUME NEW r \in Requests, PushPanics(r)
     PROVE CoverInv'
  BY <1>25 DEF PushPanics
<1>26. ASSUME Restart
     PROVE CoverInv'
  BY <1>26 DEF Restart
<1> QED
  BY <1>1, <1>2, <1>3, <1>4, <1>5, <1>6, <1>7, <1>8, <1>9, <1>10, <1>11, <1>12, <1>13, <1>14, <1>15, <1>16, <1>17, <1>18, <1>19, <1>20, <1>21, <1>22, <1>23, <1>24, <1>25, <1>26, <1>27
  DEF Next, Handshake, WriteLoop, Results, CleanUp, Post, Serve, WriteFrame, ServerWrites, WriteDroppedFrame, ServerWrites, WriteIntoVoid, StopWriter, WriterEnds, LoseConnection, StaleSweep, Stale, vars

(* A served connection has been given every pending task of its agent: see  *)
(* NoTaskOverlooked.                                                        *)
THEOREM NoTaskOverlookedCorrect == Spec => []NoTaskOverlooked
<1>1. Init => TypeInv /\ HubInv /\ CoverInv
  BY TypeInit, HubInit, CoverInit
<1>2. TypeInv /\ HubInv /\ CoverInv /\ [Next]_vars => (TypeInv /\ HubInv /\ CoverInv)'
  BY TypeStep, HubStep, CoverStep
<1>3. CoverInv => NoTaskOverlooked
  BY DEF CoverInv, PendingCovered, ServedIsFlushed, NoTaskOverlooked, PushComing, Dispatching
<1> QED
  BY <1>1, <1>2, <1>3, PTL DEF Spec

-----------------------------------------------------------------------------
(* Only the agent's own tasks are flushed to a connection or wait on it.    *)
FrameInv ==
    /\ FramesAddressed
    /\ \A c \in Conns : unflushed[c] \subseteq TasksOf(AgentOf[c])

LEMMA FrameInit == Init => FrameInv
  BY DEF Init, FrameInv, FramesAddressed

LEMMA FrameStep == TypeInv /\ FrameInv /\ [Next]_vars => FrameInv'
<1> SUFFICES ASSUME TypeInv, FrameInv, [Next]_vars PROVE FrameInv'
  OBVIOUS
<1> USE DEF TypeInv, TypeOK, RequestsWellFormed, Tasks, TasksOf, FrameInv, FramesAddressed,
            hubVars, chanVars, peerVars, linkVars, connVars, storeVars, reqVars, auxVars
<1>1. CASE UNCHANGED <<sendq, unflushed>>
  BY <1>1
<1>2. ASSUME NEW c \in Conns, ListPending(c)
     PROVE FrameInv'
  BY <1>2 DEF ListPending, PendingTasks, TasksOf
<1>3. ASSUME NEW c \in Conns, NEW t \in Tasks, FlushTask(c, t)
     PROVE FrameInv'
  <2>1. t[2] = AgentOf[c]
    BY <1>3 DEF FlushTask
  <2>2. ASSUME NEW d \in Conns, NEW i \in 1..Len(sendq'[d])
        PROVE sendq'[d][i][2] = AgentOf[d]
    <3>1. CASE d = c
      <4>1. sendq'[c] = Append(sendq[c], t)
        BY <1>3 DEF FlushTask
      <4>2. CASE i = Len(sendq[c]) + 1
        BY <2>1, <3>1, <4>1, <4>2
      <4>3. CASE i \in 1..Len(sendq[c])
        BY <3>1, <4>1, <4>3
      <4> QED
        BY <3>1, <4>1, <4>2, <4>3
    <3>2. CASE d # c
      BY <1>3, <2>2, <3>2 DEF FlushTask
    <3> QED
      BY <3>1, <3>2
  <2>3. \A d \in Conns : unflushed'[d] \subseteq TasksOf(AgentOf[d])
    BY <1>3 DEF FlushTask
  <2> QED
    BY <2>2, <2>3
<1>4. ASSUME NEW c \in Conns, FlushPanics(c)
     PROVE FrameInv'
  BY <1>4 DEF FlushPanics
<1>5. ASSUME NEW c \in Conns, WriteFrame(c)
     PROVE FrameInv'
  BY <1>5 DEF WriteFrame, ServerWrites
<1>6. ASSUME NEW c \in Conns, WriteDroppedFrame(c)
     PROVE FrameInv'
  BY <1>6 DEF WriteDroppedFrame, ServerWrites
<1>7. ASSUME NEW c \in Conns, WriteIntoVoid(c)
     PROVE FrameInv'
  BY <1>7 DEF WriteIntoVoid
<1>8. ASSUME NEW r \in Requests, PushSends(r)
     PROVE FrameInv'
  <2> DEFINE c == target[r]
             t == <<r, current[r]>>
  <2>1. c \in Conns /\ t[2] = AgentOf[c]
    BY <1>8 DEF PushSends
  <2>2. ASSUME NEW d \in Conns, NEW i \in 1..Len(sendq'[d])
        PROVE sendq'[d][i][2] = AgentOf[d]
    <3>1. CASE d = c
      <4>1. sendq'[c] = Append(sendq[c], t)
        BY <1>8, <2>1 DEF PushSends
      <4>2. CASE i = Len(sendq[c]) + 1
        BY <2>1, <3>1, <4>1, <4>2
      <4>3. CASE i \in 1..Len(sendq[c])
        BY <3>1, <4>1, <4>3
      <4> QED
        BY <3>1, <4>1, <4>2, <4>3
    <3>2. CASE d # c
      BY <1>8, <2>1, <2>2, <3>2 DEF PushSends
    <3> QED
      BY <3>1, <3>2
  <2>3. \A d \in Conns : unflushed'[d] \subseteq TasksOf(AgentOf[d])
    BY <1>8 DEF PushSends
  <2> QED
    BY <2>2, <2>3
<1>9. ASSUME Restart
     PROVE FrameInv'
  BY <1>9 DEF Restart
<1> QED
  BY <1>1, <1>2, <1>3, <1>4, <1>5, <1>6, <1>7, <1>8, <1>9, ZenonT(30)
  DEF Next, Handshake, WriteLoop, Results, CleanUp, Post, Serve, Dial, ReadHello, HelloFails, RejectDuplicate, AcceptHello, UpsertAgent, Register, StartLoops, StopWriter, WriterEnds, ResultRunning, ServerReads, ResultFinal, ServerReads, Unregister, EntryAfter, SetOffline, LoseConnection, PostTask, ListAgents, OnlineAgents, SkipAgent, StartBroadcast, CreateTask, NewTaskStatus, PushFinds, PushFindsNone, NextTask, PushFull, NextTask, PushPanics, StaleSweep, Stale, vars

(* No agent is ever sent a task of another agent: see FramesAddressed. *)
THEOREM FramesAddressedCorrect == Spec => []FramesAddressed
<1>1. Init => TypeInv /\ FrameInv
  BY TypeInit, FrameInit
<1>2. TypeInv /\ FrameInv /\ [Next]_vars => (TypeInv /\ FrameInv)'
  BY TypeStep, FrameStep
<1>3. FrameInv => FramesAddressed
  BY DEF FrameInv
<1> QED
  BY <1>1, <1>2, <1>3, PTL DEF Spec

-----------------------------------------------------------------------------
(* What a connection was offered of a task and does not hold any more: it   *)
(* was dropped, lost or finished.                                           *)
Spent(s, i, n, t) == n - (Count(s, t) + Count(i, t))

SpentOn(c, t) == Spent(sendq[c], inbox[c], offers[<<c, t>>], t)

(* A connection holds a task no more often than it was offered it, and one  *)
(* of them has spent an offer of every task that is finished.               *)
OfferInv ==
    /\ \A c \in Conns : \A t \in Tasks : SpentOn(c, t) >= 0
    /\ \A t \in Tasks : taskStatus[t] \in Outcomes => \E c \in Conns : SpentOn(c, t) > 0

(* No step takes an offer back: what was spent stays spent. *)
SpentGrows ==
    \A c \in Conns : \A t \in Tasks :
        SpentOn(c, t) <= Spent(sendq'[c], inbox'[c], offers'[<<c, t>>], t)

LEMMA SpentType ==
    ASSUME NEW s \in Seq(Tasks), NEW i \in Seq(Tasks), NEW n \in Nat, NEW t \in Tasks
    PROVE  Spent(s, i, n, t) \in Int
<1>1. Count(s, t) \in Nat /\ Count(i, t) \in Nat
  BY CountType
<1> QED BY <1>1 DEF Spent

(* The changes to the two queues and the number of offers of a connection:  *)
(* an offer, a frame that moves on, a task taken from either queue, and the *)
(* end of the connection.                                                   *)
LEMMA SpentKept ==
    ASSUME NEW s \in Seq(Tasks), NEW i \in Seq(Tasks), NEW n \in Nat, NEW t \in Tasks
    PROVE  /\ \A e \in Tasks : \A m :
                m = n + (IF e = t THEN 1 ELSE 0)
                  => Spent(s, i, n, t) = Spent(Append(s, e), i, m, t)
           /\ s # <<>> => Spent(s, i, n, t) = Spent(Tail(s), Append(i, Head(s)), n, t)
           /\ s # <<>> => Spent(s, i, n, t) <= Spent(Tail(s), i, n, t)
           /\ i # <<>> => Spent(s, i, n, t) <= Spent(s, Tail(i), n, t)
           /\ i # <<>> => Spent(s, i, n, Head(i)) < Spent(s, Tail(i), n, Head(i))
           /\ Spent(s, i, n, t) <= Spent(s, <<>>, n, t)
           /\ Spent(s, i, n, t) <= Spent(<<>>, <<>>, n, t)
<1> USE DEF Spent
<1>1. Count(s, t) \in Nat /\ Count(i, t) \in Nat /\ Count(<<>>, t) = 0
  BY CountType, CountEmpty
<1>2. ASSUME NEW e \in Tasks, NEW m, m = n + (IF e = t THEN 1 ELSE 0)
      PROVE  Spent(s, i, n, t) = Spent(Append(s, e), i, m, t)
  <2>1. Count(Append(s, e), t) = Count(s, t) + (IF e = t THEN 1 ELSE 0)
    BY CountAppend
  <2> QED BY <1>1, <1>2, <2>1
<1>3. ASSUME s # <<>>
      PROVE  /\ Spent(s, i, n, t) = Spent(Tail(s), Append(i, Head(s)), n, t)
             /\ Spent(s, i, n, t) <= Spent(Tail(s), i, n, t)
  <2>1. Head(s) \in Tasks /\ Tail(s) \in Seq(Tasks)
    BY <1>3
  <2>2. Count(s, t) = Count(Tail(s), t) + (IF Head(s) = t THEN 1 ELSE 0)
    BY <1>3, CountTail
  <2>3. Count(Append(i, Head(s)), t) = Count(i, t) + (IF Head(s) = t THEN 1 ELSE 0)
    BY <2>1, CountAppend
  <2>4. Count(Tail(s), t) \in Nat
    BY <2>1, CountType
  <2> QED BY <1>1, <2>2, <2>3, <2>4, SMTT(30)
<1>4. ASSUME i # <<>>
      PROVE  /\ Spent(s, i, n, t) <= Spent(s, Tail(i), n, t)
             /\ Spent(s, i, n, Head(i)) < Spent(s, Tail(i), n, Head(i))
  <2>1. Head(i) \in Tasks /\ Tail(i) \in Seq(Tasks)
    BY <1>4
  <2>2. \A x \in Tasks : /\ Count(i, x) = Count(Tail(i), x) + (IF Head(i) = x THEN 1 ELSE 0)
                         /\ Count(s, x) \in Nat /\ Count(Tail(i), x) \in Nat
    BY <1>4, <2>1, CountTail, CountType
  <2>3. Count(i, t) >= Count(Tail(i), t) /\ Count(Tail(i), t) \in Nat
    BY <2>2
  <2>4. Count(i, Head(i)) = Count(Tail(i), Head(i)) + 1 /\ Count(Tail(i), Head(i)) \in Nat
        /\ Count(s, Head(i)) \in Nat
    BY <2>1, <2>2
  <2> QED BY <1>1, <2>3, <2>4
<1>5. Spent(s, i, n, t) <= Spent(s, <<>>, n, t) /\ Spent(s, i, n, t) <= Spent(<<>>, <<>>, n, t)
  BY <1>1
<1> QED BY <1>2, <1>3, <1>4, <1>5

LEMMA SpentOffered ==
    ASSUME NEW s \in Seq(Tasks), NEW i \in Seq(Tasks), NEW o \in [Conns \X Tasks -> Nat],
           NEW c \in Conns, NEW e \in Tasks, NEW t \in Tasks,
           NEW p, p = [o EXCEPT ![<<c, e>>] = @ + 1], NEW q, q = Append(s, e)
    PROVE  Spent(s, i, o[<<c, t>>], t) <= Spent(q, i, p[<<c, t>>], t)
<1>1. o[<<c, t>>] \in Nat
  OBVIOUS
<1>2. p[<<c, t>>] = o[<<c, t>>] + (IF e = t THEN 1 ELSE 0)
  <2>1. CASE e = t
    BY <1>1, <2>1
  <2>2. CASE e # t
    <3>1. <<c, t>> # <<c, e>>
      BY <2>2
    <3> QED BY <1>1, <2>2, <3>1
  <2> QED BY <2>1, <2>2
<1>3. Spent(s, i, o[<<c, t>>], t) = Spent(q, i, p[<<c, t>>], t)
  <2>1. \A n \in Nat : \A m : m = n + (IF e = t THEN 1 ELSE 0)
                  => Spent(s, i, n, t) = Spent(Append(s, e), i, m, t)
    BY SpentKept, SMTT(30)
  <2> QED BY <1>1, <1>2, <2>1, Zenon
<1>4. Spent(s, i, o[<<c, t>>], t) \in Int
  BY <1>1, SpentType
<1> QED BY <1>3, <1>4

LEMMA SpentStep == TypeInv /\ [Next]_vars => SpentGrows
<1> SUFFICES ASSUME TypeInv, [Next]_vars, NEW d \in Conns, NEW x \in Tasks
             PROVE  Spent(sendq[d], inbox[d], offers[<<d, x>>], x)
                      <= Spent(sendq'[d], inbox'[d], offers'[<<d, x>>], x)
  BY DEF SpentGrows, SpentOn
<1> USE DEF TypeInv, TypeOK, hubVars, chanVars, peerVars, linkVars, connVars, reqVars, auxVars
<1>0. /\ sendq[d] \in Seq(Tasks) /\ inbox[d] \in Seq(Tasks) /\ offers[<<d, x>>] \in Nat
      /\ offers \in [Conns \X Tasks -> Nat]
      /\ Spent(sendq[d], inbox[d], offers[<<d, x>>], x) \in Int
  BY SpentType
<1>1. CASE sendq'[d] = sendq[d] /\ inbox'[d] = inbox[d] /\ offers'[<<d, x>>] = offers[<<d, x>>]
  BY <1>0, <1>1
<1>2. ASSUME NEW c \in Conns, NEW t \in Tasks, FlushTask(c, t), c = d
     PROVE  Spent(sendq[d], inbox[d], offers[<<d, x>>], x)
                      <= Spent(sendq'[d], inbox'[d], offers'[<<d, x>>], x)
  <2>1. sendq'[d] = Append(sendq[d], t)
    BY <1>2 DEF FlushTask
  <2>2. inbox'[d] = inbox[d]
    BY <1>2 DEF FlushTask
  <2>3. offers' = [offers EXCEPT ![<<d, t>>] = @ + 1]
    BY <1>2 DEF FlushTask
  <2>4. Spent(sendq[d], inbox[d], offers[<<d, x>>], x)
          <= Spent(sendq'[d], inbox[d], offers'[<<d, x>>], x)
    BY <1>0, <2>1, <2>3, SpentOffered, Zenon
  <2> QED BY <2>2, <2>4
<1>3. ASSUME NEW c \in Conns, ServerWrites(c), c = d, inbox'[d] = Append(inbox[d], Head(sendq[d]))
      PROVE  Spent(sendq[d], inbox[d], offers[<<d, x>>], x)
                      <= Spent(sendq'[d], inbox'[d], offers'[<<d, x>>], x)
  <2>1. /\ sendq'[d] = Tail(sendq[d]) /\ sendq[d] # <<>> /\ offers'[<<d, x>>] = offers[<<d, x>>]
    BY <1>3 DEF ServerWrites
  <2> QED BY <1>0, <1>3, <2>1, SpentKept
<1>4. CASE /\ sendq'[d] = Tail(sendq[d]) /\ sendq[d] # <<>>
           /\ inbox'[d] = inbox[d] /\ offers'[<<d, x>>] = offers[<<d, x>>]
  BY <1>0, <1>4, SpentKept
<1>5. CASE sendq'[d] = sendq[d] /\ inbox'[d] = <<>> /\ offers'[<<d, x>>] = offers[<<d, x>>]
  BY <1>0, <1>5, SpentKept
<1>6. CASE /\ sendq'[d] = sendq[d] /\ inbox'[d] = Tail(inbox[d]) /\ inbox[d] # <<>>
           /\ offers'[<<d, x>>] = offers[<<d, x>>]
  BY <1>0, <1>6, SpentKept
<1>7. CASE sendq'[d] = <<>> /\ inbox'[d] = <<>> /\ offers'[<<d, x>>] = offers[<<d, x>>]
  BY <1>0, <1>7, SpentKept
<1>8. ASSUME NEW r \in Requests, PushSends(r), target[r] = d
      PROVE  Spent(sendq[d], inbox[d], offers[<<d, x>>], x)
                      <= Spent(sendq'[d], inbox'[d], offers'[<<d, x>>], x)
  <2> DEFINE t == <<r, current[r]>>
  <2>1. t \in Tasks
    BY <1>8 DEF PushSends, RequestsWellFormed, Tasks
  <2>2. sendq'[d] = Append(sendq[d], t)
    BY <1>8, <2>1 DEF PushSends
  <2>3. inbox'[d] = inbox[d]
    BY <1>8 DEF PushSends
  <2>4. offers' = [offers EXCEPT ![<<d, t>>] = @ + 1]
    BY <1>8 DEF PushSends
  <2>5. Spent(sendq[d], inbox[d], offers[<<d, x>>], x)
          <= Spent(sendq'[d], inbox[d], offers'[<<d, x>>], x)
    <3> HIDE DEF t
    <3> QED BY <1>0, <2>1, <2>2, <2>4, SpentOffered, Zenon
  <2> QED BY <2>3, <2>5
<1>9. ASSUME NEW c \in Conns, NEW t \in Tasks, FlushTask(c, t), c # d
      PROVE  sendq'[d] = sendq[d] /\ inbox'[d] = inbox[d] /\ offers'[<<d, x>>] = offers[<<d, x>>]
  BY <1>9 DEF FlushTask
<1>10. ASSUME NEW r \in Requests, PushSends(r), target[r] # d
      PROVE  sendq'[d] = sendq[d] /\ inbox'[d] = inbox[d] /\ offers'[<<d, x>>] = offers[<<d, x>>]
  <2>1. <<r, current[r]>> \in Tasks /\ target[r] \in Conns
    BY <1>10 DEF PushSends, RequestsWellFormed, Tasks
  <2> QED BY <1>10, <2>1 DEF PushSends
<1>11. ASSUME NEW c \in Conns, WriteLoop(c)
       PROVE  Spent(sendq[d], inbox[d], offers[<<d, x>>], x)
                      <= Spent(sendq'[d], inbox'[d], offers'[<<d, x>>], x)
  <2>1. CASE WriteFrame(c)
    BY <1>1, <1>3, <2>1 DEF WriteFrame, ServerWrites
  <2>2. CASE WriteDroppedFrame(c) \/ WriteIntoVoid(c)
    BY <1>1, <1>4, <2>2 DEF WriteDroppedFrame, ServerWrites, WriteIntoVoid
  <2>3. CASE StopWriter(c)
    BY <1>1, <1>5, <2>3 DEF StopWriter
  <2> QED BY <1>11, <2>1, <2>2, <2>3 DEF WriteLoop
<1>12. ASSUME NEW c \in Conns, Results(c) \/ LoseConnection(c)
       PROVE  Spent(sendq[d], inbox[d], offers[<<d, x>>], x)
                      <= Spent(sendq'[d], inbox'[d], offers'[<<d, x>>], x)
  BY <1>1, <1>5, <1>6, <1>12 DEF Results, ResultRunning, ResultFinal, ServerReads, LoseConnection
<1>13. CASE Restart
  BY <1>7, <1>13 DEF Restart
<1>14. ASSUME NEW c \in Conns, Handshake(c)
       PROVE  Spent(sendq[d], inbox[d], offers[<<d, x>>], x)
                      <= Spent(sendq'[d], inbox'[d], offers'[<<d, x>>], x)
  BY <1>1, <1>2, <1>9, <1>14
     DEF Handshake, ReadHello, HelloFails, RejectDuplicate, AcceptHello, UpsertAgent,
         Register, ListPending, FlushPanics, StartLoops
<1>15. ASSUME NEW c \in Conns, Dial(c) \/ CleanUp(c)
       PROVE  Spent(sendq[d], inbox[d], offers[<<d, x>>], x)
                      <= Spent(sendq'[d], inbox'[d], offers'[<<d, x>>], x)
  BY <1>1, <1>15 DEF Dial, CleanUp, Unregister, SetOffline
<1>16. ASSUME NEW r \in Requests, Post(r) \/ Serve(r)
       PROVE  Spent(sendq[d], inbox[d], offers[<<d, x>>], x)
                      <= Spent(sendq'[d], inbox'[d], offers'[<<d, x>>], x)
  BY <1>1, <1>8, <1>10, <1>16
     DEF Post, Serve, PostTask, ListAgents, SkipAgent, StartBroadcast, CreateTask, PushFinds,
         PushFindsNone, PushFull, PushPanics
<1>17. CASE (\E S \in SUBSET Agents : StaleSweep(S)) \/ UNCHANGED vars
  BY <1>1, <1>17 DEF StaleSweep, vars
<1> QED
  BY <1>11, <1>12, <1>13, <1>14, <1>15, <1>16, <1>17 DEF Next

(* The statuses of tasks that a step leads to. *)
LEMMA StatusStep ==
    TypeInv /\ [Next]_vars =>
        \A t \in Tasks :
            \/ taskStatus'[t] = taskStatus[t]
            \/ taskStatus'[t] = "pending"
            \/ /\ taskStatus'[t] = "running"
               /\ \E c \in Conns : inbox[c] # <<>> /\ t = Head(inbox[c])
            \/ /\ taskStatus'[t] \in Outcomes
               /\ \E c \in Conns : /\ inbox[c] # <<>> /\ t = Head(inbox[c])
                                   /\ inbox'[c] = Tail(inbox[c])
                                   /\ UNCHANGED <<sendq, offers>>
<1> SUFFICES ASSUME TypeInv, [Next]_vars, NEW t \in Tasks
             PROVE  \/ taskStatus'[t] = taskStatus[t]
                    \/ taskStatus'[t] = "pending"
                    \/ /\ taskStatus'[t] = "running"
                       /\ \E c \in Conns : inbox[c] # <<>> /\ t = Head(inbox[c])
                    \/ /\ taskStatus'[t] \in Outcomes
                       /\ \E c \in Conns : /\ inbox[c] # <<>> /\ t = Head(inbox[c])
                                           /\ inbox'[c] = Tail(inbox[c])
                                           /\ UNCHANGED <<sendq, offers>>
  OBVIOUS
<1> USE DEF TypeInv, TypeOK
<1>1. CASE taskStatus' = taskStatus
  BY <1>1
<1>2. ASSUME NEW r \in Requests, NEW a \in Agents, CreateTask(r, a)
      PROVE  taskStatus'[t] = taskStatus[t] \/ taskStatus'[t] = "pending"
  BY <1>2 DEF CreateTask, NewTaskStatus
<1>3. ASSUME NEW c \in Conns, ResultRunning(c)
      PROVE  \/ taskStatus'[t] = taskStatus[t]
             \/ taskStatus'[t] = "running" /\ inbox[c] # <<>> /\ t = Head(inbox[c])
  BY <1>3 DEF ResultRunning, ServerReads
<1>4. ASSUME NEW c \in Conns, NEW s \in Outcomes, ResultFinal(c, s)
      PROVE  \/ taskStatus'[t] = taskStatus[t]
             \/ /\ taskStatus'[t] \in Outcomes /\ inbox[c] # <<>> /\ t = Head(inbox[c])
                /\ inbox'[c] = Tail(inbox[c]) /\ UNCHANGED <<sendq, offers>>
  BY <1>4 DEF ResultFinal, ServerReads, chanVars, auxVars
<1> QED
  BY <1>1, <1>2, <1>3, <1>4, ZenonT(30)
  DEF Next, Handshake, WriteLoop, Results, CleanUp, Post, Serve, Dial, ReadHello, HelloFails,
      RejectDuplicate, AcceptHello, UpsertAgent, Register, ListPending, FlushTask, FlushPanics,
      StartLoops, WriteFrame, ServerWrites, WriteDroppedFrame, WriteIntoVoid, StopWriter,
      Unregister, SetOffline, LoseConnection, PostTask, ListAgents, SkipAgent, StartBroadcast,
      PushFinds, PushFindsNone, PushSends, PushFull, PushPanics, StaleSweep, Restart,
      vars, storeVars

LEMMA OfferInit == Init => OfferInv
<1> SUFFICES ASSUME Init PROVE OfferInv
  OBVIOUS
<1>1. \A t \in Tasks : taskStatus[t] = "none"
  BY DEF Init
<1>2. ASSUME NEW c \in Conns, NEW t \in Tasks PROVE SpentOn(c, t) = 0
  BY CountEmpty DEF Init, SpentOn, Spent
<1> QED BY <1>1, <1>2 DEF OfferInv

LEMMA OfferStep == TypeInv /\ OfferInv /\ [Next]_vars => OfferInv'
<1> SUFFICES ASSUME TypeInv, OfferInv, [Next]_vars PROVE OfferInv'
  OBVIOUS
<1>1. TypeInv' /\ SpentGrows
  BY TypeStep, SpentStep
<1>2. ASSUME NEW c \in Conns, NEW t \in Tasks
      PROVE  \E k, l \in Int : /\ SpentOn(c, t) = k /\ SpentOn(c, t)' = l /\ k <= l
  <2>1. sendq[c] \in Seq(Tasks) /\ inbox[c] \in Seq(Tasks) /\ offers[<<c, t>>] \in Nat
    BY DEF TypeInv, TypeOK
  <2>2. sendq'[c] \in Seq(Tasks) /\ inbox'[c] \in Seq(Tasks) /\ offers'[<<c, t>>] \in Nat
    BY <1>1 DEF TypeInv, TypeOK
  <2>3. SpentOn(c, t) \in Int
    BY <2>1, SpentType DEF SpentOn
  <2>4. Spent(sendq'[c], inbox'[c], offers'[<<c, t>>], t) \in Int
    BY <2>2, SpentType
  <2> QED BY <1>1, <2>3, <2>4 DEF SpentGrows, SpentOn
<1>3. \A c \in Conns : \A t \in Tasks :
          /\ SpentOn(c, t) >= 0 => SpentOn(c, t)' >= 0
          /\ SpentOn(c, t) > 0 => SpentOn(c, t)' > 0
  BY <1>2
<1>4. ASSUME NEW t \in Tasks, taskStatus'[t] \in Outcomes
      PROVE  \E c \in Conns : SpentOn(c, t)' > 0
  <2>1. CASE taskStatus[t] \in Outcomes
    BY <1>3, <2>1 DEF OfferInv
  <2>2. CASE taskStatus[t] \notin Outcomes
    <3>1. taskStatus'[t] # "pending" /\ taskStatus'[t] # "running"
      BY <1>4, HubAssumption
    <3>2. PICK c \in Conns : /\ inbox[c] # <<>> /\ t = Head(inbox[c])
                             /\ inbox'[c] = Tail(inbox[c]) /\ UNCHANGED <<sendq, offers>>
      BY <1>4, <2>2, <3>1, StatusStep
    <3>3. sendq[c] \in Seq(Tasks) /\ inbox[c] \in Seq(Tasks) /\ offers[<<c, t>>] \in Nat
      BY DEF TypeInv, TypeOK
    <3>4. SpentOn(c, t) < Spent(sendq[c], Tail(inbox[c]), offers[<<c, t>>], t)
      BY <3>2, <3>3, SpentKept DEF SpentOn
    <3>5. SpentOn(c, t)' = Spent(sendq[c], Tail(inbox[c]), offers[<<c, t>>], t)
      BY <3>2 DEF SpentOn
    <3>6. SpentOn(c, t) >= 0 /\ SpentOn(c, t) \in Int
      BY <3>3, SpentType DEF OfferInv, SpentOn
    <3>7. PICK k \in Int : SpentOn(c, t)' = k
      BY <1>2
    <3> QED BY <3>4, <3>5, <3>6, <3>7
  <2> QED BY <2>1, <2>2
<1> QED BY <1>3, <1>4 DEF OfferInv

(* A task whose head-of-queue report turns it from finished to running was  *)
(* offered twice: one offer is spent, another one is held.                  *)
LEMMA RerunStep ==
    TypeInv /\ OfferInv /\ [Next]_vars =>
        \A t \in Tasks : taskStatus[t] \in Outcomes /\ taskStatus'[t] = "running"
                          => OfferedTwice(t)
<1> SUFFICES ASSUME TypeInv, OfferInv, [Next]_vars, NEW t \in Tasks,
                    taskStatus[t] \in Outcomes, taskStatus'[t] = "running"
             PROVE  OfferedTwice(t)
  OBVIOUS
<1>1. PICK c \in Conns : inbox[c] # <<>> /\ t = Head(inbox[c])
  BY StatusStep, HubAssumption
<1>2. PICK d \in Conns : SpentOn(d, t) > 0
  BY DEF OfferInv
<1>3. \A e \in {c, d} : /\ Count(sendq[e], t) \in Nat /\ Count(inbox[e], t) \in Nat
                        /\ offers[<<e, t>>] \in Nat
  <2>1. \A e \in {c, d} : /\ sendq[e] \in Seq(Tasks) /\ inbox[e] \in Seq(Tasks)
                          /\ offers[<<e, t>>] \in Nat
    BY DEF TypeInv, TypeOK
  <2> QED BY <2>1, CountType
<1>4. Count(inbox[c], t) > 0
  <2>1. inbox[c] \in Seq(Tasks)
    BY DEF TypeInv, TypeOK
  <2> QED BY <1>1, <2>1, CountHead
<1>5. SpentOn(c, t) >= 0
  BY DEF OfferInv
<1>6. offers[<<c, t>>] > 0 /\ offers[<<d, t>>] > 0 /\ (c = d => offers[<<c, t>>] >= 2)
  BY <1>2, <1>3, <1>4, <1>5 DEF SpentOn, Spent
<1> QED BY <1>6 DEF OfferedTwice

(* A finished task is run again only if it was put on a channel twice: see  *)
(* RerunOnlyIfOfferedTwice.  Neither a lost connection nor an eviction or a *)
(* restart of the server makes one offer count as two.                      *)
THEOREM RerunCorrect == Spec => RerunOnlyIfOfferedTwice
<1>1. Init => TypeInv /\ OfferInv
  BY TypeInit, OfferInit
<1>2. TypeInv /\ OfferInv /\ [Next]_vars => (TypeInv /\ OfferInv)'
  BY TypeStep, OfferStep
<1>3. TypeInv /\ OfferInv /\ [Next]_vars =>
        [\A t \in Tasks : taskStatus[t] \in Outcomes /\ taskStatus'[t] = "running"
                          => OfferedTwice(t)]_vars
  BY RerunStep
<1> QED BY <1>1, <1>2, <1>3, PTL DEF Spec, RerunOnlyIfOfferedTwice

-----------------------------------------------------------------------------
(* What Delivery needs to know of the server, whoever its peer is.          *)

(* A connection has a socket from its first step on, a writer only after    *)
(* the flush, and no working socket once its clean-up has begun.            *)
SocketInv ==
    \A c \in Conns :
        /\ handler[c] = "unused" => sock[c] = "none"
        /\ handler[c] \in {"unused", "hello", "check", "upsert", "register", "list", "flush"}
             => writer[c] = "none"
        /\ handler[c] = "offline" => sock[c] # "up"

LEMMA SocketInit == Init => SocketInv
BY DEF Init, SocketInv

LEMMA SocketStep == TypeInv /\ SocketInv /\ [Next]_vars => SocketInv'
<1> SUFFICES ASSUME TypeInv, SocketInv, [Next]_vars PROVE SocketInv'
  OBVIOUS
<1> USE DEF TypeInv, TypeOK, SocketInv, hubVars, chanVars, peerVars, linkVars, connVars
<1>1. CASE UNCHANGED <<handler, writer, sock>>
  BY <1>1
<1>2. ASSUME NEW c \in Conns, Dial(c) PROVE SocketInv'
  BY <1>2 DEF Dial
<1>3. ASSUME NEW c \in Conns, Handshake(c) PROVE SocketInv'
  <2>1. CASE ReadHello(c) \/ HelloFails(c) \/ RejectDuplicate(c) \/ AcceptHello(c)
    BY <2>1 DEF ReadHello, HelloFails, RejectDuplicate, AcceptHello
  <2>2. CASE UpsertAgent(c) \/ Register(c) \/ ListPending(c)
    BY <2>2 DEF UpsertAgent, Register, ListPending
  <2>3. CASE FlushPanics(c) \/ StartLoops(c)
    BY <2>3 DEF FlushPanics, StartLoops
  <2>4. CASE \E t \in Tasks : FlushTask(c, t)
    BY <2>4 DEF FlushTask
  <2> QED BY <1>3, <2>1, <2>2, <2>3, <2>4 DEF Handshake
<1>4. ASSUME NEW c \in Conns, StopWriter(c) PROVE SocketInv'
  BY <1>4 DEF StopWriter
<1>5. ASSUME NEW c \in Conns, CleanUp(c) \/ LoseConnection(c) PROVE SocketInv'
  BY <1>5, SMTT(30) DEF CleanUp, Unregister, SetOffline, LoseConnection
<1>6. CASE Restart
  BY <1>6 DEF Restart
<1> QED
  BY <1>1, <1>2, <1>3, <1>4, <1>5, <1>6
  DEF Next, WriteLoop, Results, Post, Serve, WriteFrame, ServerWrites, WriteDroppedFrame,
      WriteIntoVoid, ResultRunning, ServerReads, ResultFinal, PostTask, ListAgents, SkipAgent,
      StartBroadcast, CreateTask, PushFinds, PushFindsNone, PushSends, PushFull, PushPanics,
      StaleSweep, vars

-----------------------------------------------------------------------------
(* No frame comes to a channel without an offer being counted.              *)
LEMMA WaitingOffered ==
    ASSUME NEW s \in Seq(Tasks), NEW o \in [Conns \X Tasks -> Nat],
           NEW c \in Conns, NEW e \in Tasks, NEW t \in Tasks,
           NEW p, p = [o EXCEPT ![<<c, e>>] = @ + 1], NEW q, q = Append(s, e)
    PROVE  Count(q, t) + o[<<c, t>>] <= Count(s, t) + p[<<c, t>>]
<1>1. o[<<c, t>>] \in Nat /\ Count(s, t) \in Nat
  BY CountType
<1>2. p[<<c, t>>] = o[<<c, t>>] + (IF e = t THEN 1 ELSE 0)
  <2>1. CASE e = t
    BY <1>1, <2>1
  <2>2. CASE e # t
    <3>1. <<c, t>> # <<c, e>>
      BY <2>2
    <3> QED BY <1>1, <2>2, <3>1
  <2> QED BY <2>1, <2>2
<1>3. Count(q, t) = Count(s, t) + (IF e = t THEN 1 ELSE 0)
  BY CountAppend
<1> QED BY <1>1, <1>2, <1>3

LEMMA WaitingStep ==
    ASSUME TypeInv, [Next]_vars, NEW d \in Conns, NEW x \in Tasks
    PROVE  Count(sendq'[d], x) + offers[<<d, x>>] <= Count(sendq[d], x) + offers'[<<d, x>>]
<1> DEFINE Goal == Count(sendq'[d], x) + offers[<<d, x>>]
                     <= Count(sendq[d], x) + offers'[<<d, x>>]
<1> USE DEF TypeInv, TypeOK, hubVars, chanVars, peerVars, linkVars, connVars, reqVars, auxVars
<1>0. /\ sendq[d] \in Seq(Tasks) /\ offers[<<d, x>>] \in Nat /\ Count(sendq[d], x) \in Nat
      /\ offers \in [Conns \X Tasks -> Nat]
  BY CountType
<1>1. CASE sendq'[d] = sendq[d] /\ offers'[<<d, x>>] = offers[<<d, x>>]
  BY <1>0, <1>1
<1>2. CASE sendq'[d] = Tail(sendq[d]) /\ sendq[d] # <<>> /\ UNCHANGED offers
  <2>1. Count(sendq[d], x) = Count(sendq'[d], x) + (IF Head(sendq[d]) = x THEN 1 ELSE 0)
    BY <1>0, <1>2, CountTail
  <2>2. Tail(sendq[d]) \in Seq(Tasks)
    BY <1>0, <1>2
  <2>3. Count(Tail(sendq[d]), x) \in Nat
    BY <2>2, CountType
  <2> QED BY <1>0, <1>2, <2>1, <2>3
<1>3. CASE sendq'[d] = <<>> /\ UNCHANGED offers
  BY <1>0, <1>3, CountEmpty
<1>4. ASSUME NEW c \in Conns, NEW t \in Tasks, FlushTask(c, t) PROVE Goal
  <2>1. CASE c # d
    BY <1>1, <1>4, <2>1 DEF FlushTask
  <2>2. CASE c = d
    <3>1. sendq'[d] = Append(sendq[d], t) /\ offers' = [offers EXCEPT ![<<d, t>>] = @ + 1]
      BY <1>4, <2>2 DEF FlushTask
    <3> QED BY <1>0, <3>1, WaitingOffered, Zenon
  <2> QED BY <2>1, <2>2
<1>5. ASSUME NEW r \in Requests, PushSends(r) PROVE Goal
  <2> DEFINE t == <<r, current[r]>>
  <2>1. t \in Tasks /\ target[r] \in Conns
    BY <1>5 DEF PushSends, RequestsWellFormed, Tasks
  <2>2. CASE target[r] # d
    BY <1>1, <1>5, <2>1, <2>2 DEF PushSends
  <2>3. CASE target[r] = d
    <3>1. sendq'[d] = Append(sendq[d], t) /\ offers' = [offers EXCEPT ![<<d, t>>] = @ + 1]
      BY <1>5, <2>1, <2>3 DEF PushSends
    <3> HIDE DEF t
    <3> QED BY <1>0, <2>1, <3>1, WaitingOffered, Zenon
  <2> QED BY <2>2, <2>3
<1>6. ASSUME NEW c \in Conns, WriteLoop(c) PROVE Goal
  <2>1. CASE c # d
    BY <1>1, <1>6, <2>1
    DEF WriteLoop, WriteFrame, WriteDroppedFrame, ServerWrites, WriteIntoVoid, StopWriter
  <2>2. CASE c = d
    BY <1>1, <1>2, <1>6, <2>2
    DEF WriteLoop, WriteFrame, WriteDroppedFrame, ServerWrites, WriteIntoVoid, StopWriter
  <2> QED BY <2>1, <2>2
<1>7. CASE Restart
  BY <1>3, <1>7 DEF Restart
<1>8. ASSUME NEW c \in Conns, Handshake(c) PROVE Goal
  BY <1>1, <1>4, <1>8
  DEF Handshake, ReadHello, HelloFails, RejectDuplicate, AcceptHello, UpsertAgent, Register,
      ListPending, FlushPanics, StartLoops
<1>9. ASSUME NEW c \in Conns, Dial(c) \/ CleanUp(c) \/ Results(c) \/ LoseConnection(c) PROVE Goal
  BY <1>1, <1>9 DEF Dial, CleanUp, Unregister, SetOffline, Results, ResultRunning, ResultFinal,
                    ServerReads, LoseConnection
<1>10. ASSUME NEW r \in Requests, Post(r) \/ Serve(r) PROVE Goal
  BY <1>1, <1>5, <1>10
  DEF Post, Serve, PostTask, ListAgents, SkipAgent, StartBroadcast, CreateTask, PushFinds,
      PushFindsNone, PushFull, PushPanics
<1>11. CASE (\E S \in SUBSET Agents : StaleSweep(S)) \/ UNCHANGED vars
  BY <1>1, <1>11 DEF StaleSweep, vars
<1> QED BY <1>6, <1>7, <1>8, <1>9, <1>10, <1>11 DEF Next

-----------------------------------------------------------------------------
(* The peer of a connection has started the task and will report its end.   *)
RunsOn(c, t) == started[c] /\ inbox[c] # <<>> /\ Head(inbox[c]) = t

(* A task that is running after a step was reported in that step, or it was *)
(* running before, and a peer that had it in hand has it still unless its   *)
(* socket is gone.                                                          *)
LEMMA HeadOfAppend ==
    \A s \in Seq(Tasks) : \A e \in Tasks :
        s # <<>> => Append(s, e) # <<>> /\ Head(Append(s, e)) = Head(s)
OBVIOUS

LEMMA RunningStep ==
    TypeInv /\ [Next]_vars =>
        \A t \in Tasks : taskStatus'[t] = "running" =>
            \/ \E c \in Conns : RunsOn(c, t)'
            \/ /\ taskStatus[t] = "running"
               /\ \A c \in Conns : RunsOn(c, t) => RunsOn(c, t)' \/ sock'[c] # "up"
<1> SUFFICES ASSUME TypeInv, [Next]_vars, NEW t \in Tasks, taskStatus'[t] = "running"
             PROVE  \/ \E c \in Conns : RunsOn(c, t)'
                    \/ /\ taskStatus[t] = "running"
                       /\ \A c \in Conns : RunsOn(c, t) => RunsOn(c, t)' \/ sock'[c] # "up"
  OBVIOUS
<1> USE DEF TypeInv, TypeOK, RunsOn, hubVars, chanVars, peerVars, linkVars, connVars, storeVars
<1>1. CASE UNCHANGED <<inbox, started, taskStatus>>
  BY <1>1
<1>2. ASSUME NEW c \in Conns, WriteFrame(c)
      PROVE  /\ taskStatus[t] = "running"
             /\ \A d \in Conns : RunsOn(d, t) => RunsOn(d, t)'
  <2>1. inbox[c] \in Seq(Tasks) /\ Head(sendq[c]) \in Tasks
    BY <1>2 DEF WriteFrame, ServerWrites
  <2>2. \A d \in Conns : RunsOn(d, t) => RunsOn(d, t)'
    <3> SUFFICES ASSUME NEW d \in Conns, RunsOn(d, t) PROVE RunsOn(d, t)'
      OBVIOUS
    <3>1. CASE d = c
      <4>1. inbox'[d] = Append(inbox[d], Head(sendq[d])) /\ started'[d] = started[d]
        BY <1>2, <3>1 DEF WriteFrame
      <4>2. inbox[d] \in Seq(Tasks) /\ inbox[d] # <<>> /\ Head(sendq[d]) \in Tasks
        BY <2>1, <3>1
      <4>3. Append(inbox[d], Head(sendq[d])) # <<>>
            /\ Head(Append(inbox[d], Head(sendq[d]))) = Head(inbox[d])
        BY <4>2, HeadOfAppend, Zenon
      <4> QED BY <4>1, <4>3
    <3>2. CASE d # c
      BY <1>2, <3>2 DEF WriteFrame
    <3> QED BY <3>1, <3>2
  <2> QED BY <1>2, <2>2 DEF WriteFrame, ServerWrites
<1>3. ASSUME NEW c \in Conns, StopWriter(c) \/ LoseConnection(c)
      PROVE  /\ taskStatus[t] = "running"
             /\ \A d \in Conns : RunsOn(d, t) => RunsOn(d, t)' \/ sock'[d] # "up"
  BY <1>3 DEF StopWriter, LoseConnection
<1>4. ASSUME NEW c \in Conns, ResultRunning(c)
      PROVE  \/ \E d \in Conns : RunsOn(d, t)'
             \/ /\ taskStatus[t] = "running"
                /\ \A d \in Conns : RunsOn(d, t) => RunsOn(d, t)'
  BY <1>4 DEF ResultRunning, ServerReads
<1>5. ASSUME NEW c \in Conns, NEW s \in Outcomes, ResultFinal(c, s)
      PROVE  /\ taskStatus[t] = "running"
             /\ \A d \in Conns : RunsOn(d, t) => RunsOn(d, t)'
  <2>1. s # "running"
    BY HubAssumption
  <2>2. t # Head(inbox[c]) /\ taskStatus[t] = "running"
    BY <1>5, <2>1 DEF ResultFinal, ServerReads
  <2> QED BY <1>5, <2>2 DEF ResultFinal
<1>6. CASE Restart
  BY <1>6 DEF Restart
<1>7. ASSUME NEW r \in Requests, NEW a \in Agents, CreateTask(r, a)
      PROVE  /\ taskStatus[t] = "running" /\ UNCHANGED <<inbox, started>>
  BY <1>7 DEF CreateTask, NewTaskStatus
<1>8. ASSUME NEW c \in Conns, Dial(c) \/ Handshake(c) \/ CleanUp(c)
      PROVE  UNCHANGED <<inbox, started, taskStatus>>
  BY <1>8
  DEF Handshake, CleanUp, Dial, ReadHello, HelloFails, RejectDuplicate, AcceptHello,
      UpsertAgent, Register, ListPending, FlushTask, FlushPanics, StartLoops, Unregister,
      SetOffline
<1>9. ASSUME NEW c \in Conns, WriteDroppedFrame(c) \/ WriteIntoVoid(c)
      PROVE  UNCHANGED <<inbox, started, taskStatus>>
  BY <1>9 DEF WriteDroppedFrame, ServerWrites, WriteIntoVoid
<1>10. ASSUME NEW r \in Requests, Post(r)
       PROVE  UNCHANGED <<inbox, started, taskStatus>>
  BY <1>10 DEF Post, PostTask, ListAgents
<1>11. ASSUME NEW r \in Requests, Serve(r), ~\E a \in Agents : CreateTask(r, a)
       PROVE  UNCHANGED <<inbox, started, taskStatus>>
  BY <1>11 DEF Serve, SkipAgent, StartBroadcast, PushFinds, PushFindsNone, PushSends, PushFull,
               PushPanics
<1>12. CASE (\E S \in SUBSET Agents : StaleSweep(S)) \/ UNCHANGED vars
  BY <1>12, <1>1 DEF StaleSweep, vars
<1> HIDE DEF TypeInv, TypeOK, RunsOn
<1>13. ASSUME NEW c \in Conns, WriteLoop(c) \/ Results(c) \/ LoseConnection(c)
       PROVE  \/ \E d \in Conns : RunsOn(d, t)'
              \/ /\ taskStatus[t] = "running"
                 /\ \A d \in Conns : RunsOn(d, t) => RunsOn(d, t)' \/ sock'[d] # "up"
  BY <1>1, <1>2, <1>3, <1>4, <1>5, <1>9, <1>13 DEF WriteLoop, Results
<1>14. ASSUME NEW r \in Requests, Post(r) \/ Serve(r)
       PROVE  \/ \E d \in Conns : RunsOn(d, t)'
              \/ /\ taskStatus[t] = "running"
                 /\ \A d \in Conns : RunsOn(d, t) => RunsOn(d, t)' \/ sock'[d] # "up"
  <2>1. CASE \E a \in Agents : CreateTask(r, a)
    BY <1>7, <2>1 DEF RunsOn
  <2>2. CASE ~\E a \in Agents : CreateTask(r, a)
    BY <1>1, <1>10, <1>11, <1>14, <2>2
  <2> QED BY <2>1, <2>2
<1> QED
  BY <1>1, <1>6, <1>8, <1>12, <1>13, <1>14 DEF Next
=============================================================================
