------------------------------ MODULE AgentHub ------------------------------
(***************************************************************************)
(* The server side of the agent connections: the hub of live connections   *)
(* (internal/server/hub.go), the goroutines that serve one WebSocket       *)
(* (internal/server/ws.go), the HTTP handlers that create and push tasks   *)
(* (internal/server/handlers.go), and the part of the store they share     *)
(* (internal/server/store.go).                                             *)
(*                                                                         *)
(* Every goroutine is a program counter and every stretch of code between  *)
(* two accesses to shared state is one action, so a value read under a     *)
(* lock and used after the unlock is read in one step and used in another. *)
(* The agent at the other end of a connection is the weakest peer that     *)
(* internal/agent/client.go allows on one connection: it runs the frames   *)
(* it accepted one after the other and reports each one twice.             *)
(***************************************************************************)
EXTENDS Naturals, Sequences, FiniteSets

CONSTANTS
    Agents,         \* agent IDs
    Conns,          \* WebSocket connections, each of which is used once
    NoConn,         \* "no connection": not an element of Conns
    NoAgent,        \* "no agent": not an element of Agents
    AgentOf,        \* the agent ID that the hello of a connection carries
    Requests,       \* HTTP requests that create tasks
    Outcomes,       \* the final statuses a script run may have
    SendCap,        \* capacity of agentConn.send (32 in the code)
    AgentQueueCap,  \* capacity of the agent's taskCh (8 in the code)
    MaxCrashes      \* bound on the number of server restarts

ASSUME HubAssumption ==
    /\ NoConn \notin Conns
    /\ NoAgent \notin Agents
    /\ AgentOf \in [Conns -> Agents]
    /\ Outcomes \subseteq {"completed", "failed"}
    /\ SendCap \in Nat \ {0}
    /\ AgentQueueCap \in Nat
    /\ MaxCrashes \in Nat

(* A request creates at most one task per agent, and the task's ID is that *)
(* pair: newID draws 64 random bits.                                       *)
Tasks == Requests \X Agents
TasksOf(a) == Requests \X {a}

VARIABLES
    conns,       \* hub.conns: agent ID -> registered connection
    closed,      \* the connections whose send channel has been closed
    sendq,       \* agentConn.send: the frames waiting to be written
    handler,     \* program counter of handleAgentWS / wsReadLoop
    unflushed,   \* handleAgentWS: pending tasks not yet put on the channel
    writer,      \* the wsWriteLoop goroutine
    sock,        \* the WebSocket, as the server's reads and writes see it
    inbox,       \* the tasks accepted by the agent, the one it runs first
    started,     \* "running" was reported for the head of inbox
    agentStatus, \* store: Agent.Status
    taskStatus,  \* store: Task.Status
    request,     \* program counter of the HTTP handler
    todo,        \* agents the request still has to create a task for
    current,     \* agent of the task in hand
    target,      \* push: the connection found in the hub
    crashes,     \* number of restarts so far
    \* History, read by no guard.
    reached,     \* tasks that push or the flush tried to put on the channel
    offers,      \* how often a task was put on the channel of a connection
    loaded       \* agents whose "online" was read back from the data file

hubVars == <<conns, closed>>
chanVars == <<sendq, unflushed>>
peerVars == <<inbox, started>>
linkVars == <<writer, sock, peerVars>>
connVars == <<chanVars, handler, linkVars>>
storeVars == <<agentStatus, taskStatus>>
reqVars == <<request, todo, current, target>>
auxVars == <<reached, offers, loaded, crashes>>
vars == <<hubVars, connVars, storeVars, reqVars, auxVars>>

HandlerPhases == {"unused", "hello", "check", "upsert", "register", "list", "flush",
                  "serve", "offline", "rejected", "panicked", "ended"}
RequestPhases == {"idle", "select", "create", "lookup", "send", "conflict", "done",
                  "panicked", "aborted"}
TaskStatuses == {"none", "pending", "running", "completed", "failed"}

TypeOK ==
    /\ conns \in [Agents -> Conns \cup {NoConn}]
    /\ closed \in SUBSET Conns
    /\ sendq \in [Conns -> Seq(Tasks)]
    /\ handler \in [Conns -> HandlerPhases]
    /\ unflushed \in [Conns -> SUBSET Tasks]
    /\ writer \in [Conns -> {"none", "run", "stopped"}]
    /\ sock \in [Conns -> {"none", "up", "lost", "closed"}]
    /\ inbox \in [Conns -> Seq(Tasks)]
    /\ started \in [Conns -> BOOLEAN]
    /\ agentStatus \in [Agents -> {"absent", "online", "offline"}]
    /\ taskStatus \in [Tasks -> TaskStatuses]
    /\ request \in [Requests -> RequestPhases]
    /\ todo \in [Requests -> SUBSET Agents]
    /\ current \in [Requests -> Agents \cup {NoAgent}]
    /\ target \in [Requests -> Conns \cup {NoConn}]
    /\ crashes \in Nat
    /\ reached \in [Conns -> SUBSET Tasks]
    /\ offers \in [Conns \X Tasks -> Nat]
    /\ loaded \in SUBSET Agents

(* A server started on an empty data file. *)
Init ==
    /\ conns = [a \in Agents |-> NoConn]
    /\ closed = {}
    /\ sendq = [c \in Conns |-> <<>>]
    /\ handler = [c \in Conns |-> "unused"]
    /\ unflushed = [c \in Conns |-> {}]
    /\ writer = [c \in Conns |-> "none"]
    /\ sock = [c \in Conns |-> "none"]
    /\ inbox = [c \in Conns |-> <<>>]
    /\ started = [c \in Conns |-> FALSE]
    /\ agentStatus = [a \in Agents |-> "absent"]
    /\ taskStatus = [t \in Tasks |-> "none"]
    /\ request = [r \in Requests |-> "idle"]
    /\ todo = [r \in Requests |-> {}]
    /\ current = [r \in Requests |-> NoAgent]
    /\ target = [r \in Requests |-> NoConn]
    /\ crashes = 0
    /\ reached = [c \in Conns |-> {}]
    /\ offers = [o \in Conns \X Tasks |-> 0]
    /\ loaded = {}

-----------------------------------------------------------------------------
(* handleAgentWS: one goroutine per connection, up to the read loop. *)

(* An agent, or a second agent configured with the same ID, dials and      *)
(* sends its hello.                                                        *)
Dial(c) ==
    /\ handler[c] = "unused"
    /\ handler' = [handler EXCEPT ![c] = "hello"]
    /\ sock' = [sock EXCEPT ![c] = "up"]
    /\ UNCHANGED <<hubVars, chanVars, writer, peerVars, storeVars, reqVars, auxVars>>

(* readHello: the frame arrives, or the read fails and the socket is closed. *)
ReadHello(c) ==
    /\ handler[c] = "hello"
    /\ sock[c] = "up"
    /\ handler' = [handler EXCEPT ![c] = "check"]
    /\ UNCHANGED <<hubVars, chanVars, linkVars, storeVars, reqVars, auxVars>>

HelloFails(c) ==
    /\ handler[c] = "hello"
    /\ sock[c] = "lost"
    /\ handler' = [handler EXCEPT ![c] = "ended"]
    /\ sock' = [sock EXCEPT ![c] = "closed"]
    /\ UNCHANGED <<hubVars, chanVars, writer, peerVars, storeVars, reqVars, auxVars>>

(* isConnected: an ID that is in the hub is refused and the socket closed. *)
RejectDuplicate(c) ==
    /\ handler[c] = "check"
    /\ conns[AgentOf[c]] # NoConn
    /\ handler' = [handler EXCEPT ![c] = "rejected"]
    /\ sock' = [sock EXCEPT ![c] = "closed"]
    /\ UNCHANGED <<hubVars, chanVars, writer, peerVars, storeVars, reqVars, auxVars>>

AcceptHello(c) ==
    /\ handler[c] = "check"
    /\ conns[AgentOf[c]] = NoConn
    /\ handler' = [handler EXCEPT ![c] = "upsert"]
    /\ UNCHANGED <<hubVars, chanVars, linkVars, storeVars, reqVars, auxVars>>

UpsertAgent(c) ==
    /\ handler[c] = "upsert"
    /\ agentStatus' = [agentStatus EXCEPT ![AgentOf[c]] = "online"]
    /\ loaded' = loaded \ {AgentOf[c]}
    /\ handler' = [handler EXCEPT ![c] = "register"]
    /\ UNCHANGED <<hubVars, chanVars, linkVars, taskStatus, reqVars, reached, offers,
                   crashes>>

(* register: the previous entry, if any, is evicted by closing its channel. *)
Register(c) ==
    /\ handler[c] = "register"
    /\ closed' = closed \cup ({conns[AgentOf[c]]} \ {NoConn})
    /\ conns' = [conns EXCEPT ![AgentOf[c]] = c]
    /\ handler' = [handler EXCEPT ![c] = "list"]
    /\ UNCHANGED <<chanVars, linkVars, storeVars, reqVars, auxVars>>

(* Mutants of PendingTasks: the filter on the agent is missing, or the one  *)
(* on the status is wrong.                                                  *)
PendingTasksOfAll(a) == {t \in Tasks : taskStatus[t] = "pending"}
RunningTasks(a) == {t \in TasksOf(a) : taskStatus[t] = "running"}

PendingTasks(a) == {t \in TasksOf(a) : taskStatus[t] = "pending"}

ListPending(c) ==
    /\ handler[c] = "list"
    /\ unflushed' = [unflushed EXCEPT ![c] = PendingTasks(AgentOf[c])]
    /\ handler' = [handler EXCEPT ![c] = "flush"]
    /\ UNCHANGED <<hubVars, sendq, linkVars, storeVars, reqVars, auxVars>>

(* c.send <- b, in the order of a map iteration. It waits while the channel *)
(* is full and panics when the channel has been closed by an eviction; the  *)
(* panic ends the handler and nothing else, the socket being hijacked.      *)
FlushTask(c, t) ==
    /\ handler[c] = "flush"
    /\ t \in unflushed[c]
    /\ c \notin closed
    /\ Len(sendq[c]) < SendCap
    /\ sendq' = [sendq EXCEPT ![c] = Append(@, t)]
    /\ unflushed' = [unflushed EXCEPT ![c] = @ \ {t}]
    /\ reached' = [reached EXCEPT ![c] = @ \cup {t}]
    /\ offers' = [offers EXCEPT ![<<c, t>>] = @ + 1]
    /\ UNCHANGED <<hubVars, handler, linkVars, storeVars, reqVars, loaded, crashes>>

FlushPanics(c) ==
    /\ handler[c] = "flush"
    /\ unflushed[c] # {}
    /\ c \in closed
    /\ handler' = [handler EXCEPT ![c] = "panicked"]
    /\ unflushed' = [unflushed EXCEPT ![c] = {}]
    /\ UNCHANGED <<hubVars, sendq, linkVars, storeVars, reqVars, auxVars>>

StartLoops(c) ==
    /\ handler[c] = "flush"
    /\ unflushed[c] = {}
    /\ handler' = [handler EXCEPT ![c] = "serve"]
    /\ writer' = [writer EXCEPT ![c] = "run"]
    /\ UNCHANGED <<hubVars, chanVars, sock, peerVars, storeVars, reqVars, auxVars>>

-----------------------------------------------------------------------------
(* wsWriteLoop *)

(* Mutant of ServerWrites: the frame stays on the channel after the write. *)
ServerWritesKeepsFrame(c) ==
    /\ writer[c] = "run"
    /\ sendq[c] # <<>>
    /\ sock[c] = "up"
    /\ UNCHANGED <<hubVars, chanVars, handler, writer, sock, storeVars, reqVars, auxVars>>

ServerWrites(c) ==
    /\ writer[c] = "run"
    /\ sendq[c] # <<>>
    /\ sock[c] = "up"
    /\ sendq' = [sendq EXCEPT ![c] = Tail(@)]
    /\ UNCHANGED <<hubVars, unflushed, handler, writer, sock, storeVars, reqVars,
                   auxVars>>

(* A frame is written and read by the agent. *)
WriteFrame(c) ==
    /\ ServerWrites(c)
    /\ inbox' = [inbox EXCEPT ![c] = Append(@, Head(sendq[c]))]
    /\ UNCHANGED started

(* The agent drops a task when its taskCh is full; inbox may also hold      *)
(* tasks that have left the taskCh.                                         *)
WriteDroppedFrame(c) ==
    /\ ServerWrites(c)
    /\ Len(inbox[c]) >= AgentQueueCap
    /\ UNCHANGED <<peerVars>>

(* A write to a lost peer may still fill the kernel's buffer. *)
WriteIntoVoid(c) ==
    /\ writer[c] = "run"
    /\ sendq[c] # <<>>
    /\ sock[c] = "lost"
    /\ sendq' = [sendq EXCEPT ![c] = Tail(@)]
    /\ UNCHANGED <<hubVars, unflushed, handler, linkVars, storeVars, reqVars, auxVars>>

(* Mutant of WriterEnds: the closed channel goes unnoticed. *)
WriterFails(c) == sock[c] \in {"lost", "closed"}

WriterEnds(c) == sock[c] \in {"lost", "closed"} \/ (c \in closed /\ sendq[c] = <<>>)

(* The loop returns when a frame or a ping cannot be written, or when the   *)
(* channel is closed and drained; it closes the socket on its way out.      *)
StopWriter(c) ==
    /\ writer[c] = "run"
    /\ WriterEnds(c)
    /\ writer' = [writer EXCEPT ![c] = "stopped"]
    /\ sock' = [sock EXCEPT ![c] = "closed"]
    /\ inbox' = [inbox EXCEPT ![c] = <<>>]
    /\ started' = [started EXCEPT ![c] = FALSE]
    /\ UNCHANGED <<hubVars, chanVars, handler, storeVars, reqVars, auxVars>>

-----------------------------------------------------------------------------
(* wsReadLoop *)

(* handleWSResult: updateTask stores whatever status the frame carries. *)
ServerReads(c, t, s) ==
    /\ handler[c] = "serve"
    /\ sock[c] = "up"
    /\ taskStatus' = [taskStatus EXCEPT ![t] = s]
    /\ UNCHANGED <<hubVars, chanVars, handler, writer, sock, agentStatus, reqVars,
                   auxVars>>

ResultRunning(c) ==
    /\ inbox[c] # <<>>
    /\ ~started[c]
    /\ ServerReads(c, Head(inbox[c]), "running")
    /\ started' = [started EXCEPT ![c] = TRUE]
    /\ UNCHANGED inbox

ResultFinal(c, s) ==
    /\ inbox[c] # <<>>
    /\ started[c]
    /\ ServerReads(c, Head(inbox[c]), s)
    /\ started' = [started EXCEPT ![c] = FALSE]
    /\ inbox' = [inbox EXCEPT ![c] = Tail(@)]

(* Mutant of EntryAfter: the entry is deleted whoever it belongs to. *)
NoEntry(c) == NoConn

EntryAfter(c) == IF conns[AgentOf[c]] = c THEN NoConn ELSE conns[AgentOf[c]]

(* The read fails and the deferred clean-up starts: unregister removes the  *)
(* hub's entry if it is still this connection ...                           *)
Unregister(c) ==
    /\ handler[c] = "serve"
    /\ sock[c] \in {"lost", "closed"}
    /\ conns' = [conns EXCEPT ![AgentOf[c]] = EntryAfter(c)]
    /\ handler' = [handler EXCEPT ![c] = "offline"]
    /\ UNCHANGED <<closed, chanVars, linkVars, storeVars, reqVars, auxVars>>

(* Mutant of SetOffline: the clean-up forgets the store. *)
EndWithoutOffline(c) ==
    /\ handler[c] = "offline"
    /\ handler' = [handler EXCEPT ![c] = "ended"]
    /\ sock' = [sock EXCEPT ![c] = "closed"]
    /\ UNCHANGED <<hubVars, chanVars, writer, peerVars, storeVars, reqVars, auxVars>>

(* ... and setAgentOffline marks the agent, whoever is registered by then. *)
SetOffline(c) ==
    /\ handler[c] = "offline"
    /\ agentStatus' = [agentStatus EXCEPT ![AgentOf[c]] = "offline"]
    /\ handler' = [handler EXCEPT ![c] = "ended"]
    /\ sock' = [sock EXCEPT ![c] = "closed"]
    /\ reached' = [reached EXCEPT ![c] = {}]
    /\ UNCHANGED <<hubVars, chanVars, writer, peerVars, taskStatus, reqVars, offers,
                   loaded, crashes>>

-----------------------------------------------------------------------------
(* The HTTP handlers: POST /tasks and POST /tasks/broadcast. *)

(* handleTasks: the agent need not be known, let alone online. *)
PostTask(r, a) ==
    /\ request[r] = "idle"
    /\ request' = [request EXCEPT ![r] = "create"]
    /\ todo' = [todo EXCEPT ![r] = {a}]
    /\ UNCHANGED <<hubVars, connVars, storeVars, current, target, auxVars>>

(* handleBroadcastTask takes the list of agents under the lock and reads    *)
(* their statuses after the unlock, from records that the clean-up and the  *)
(* sweep may be writing. upsertAgent replaces the record, so that one which *)
(* was not online when it was listed will not be read as online.            *)
OnlineAgents == {a \in Agents : agentStatus[a] = "online"}

ListAgents(r) ==
    /\ request[r] = "idle"
    /\ request' = [request EXCEPT ![r] = "select"]
    /\ todo' = [todo EXCEPT ![r] = OnlineAgents]
    /\ UNCHANGED <<hubVars, connVars, storeVars, current, target, auxVars>>

(* One that was online when it was listed is read as offline. *)
SkipAgent(r, a) ==
    /\ request[r] = "select"
    /\ a \in todo[r] \ OnlineAgents
    /\ todo' = [todo EXCEPT ![r] = @ \ {a}]
    /\ UNCHANGED <<hubVars, connVars, storeVars, request, current, target, auxVars>>

(* One task for each agent that was read as online, or 409. *)
StartBroadcast(r) ==
    /\ request[r] = "select"
    /\ request' = [request EXCEPT ![r] = IF todo[r] = {} THEN "conflict" ELSE "create"]
    /\ UNCHANGED <<hubVars, connVars, storeVars, todo, current, target, auxVars>>

(* Mutant of NewTaskStatus: the field is left at its zero value. *)
UnsetTaskStatus == ""

NewTaskStatus == "pending"

(* dispatchTask: the signed task is stored before the hub is asked. *)
CreateTask(r, a) ==
    /\ request[r] = "create"
    /\ a \in todo[r]
    /\ taskStatus' = [taskStatus EXCEPT ![<<r, a>>] = NewTaskStatus]
    /\ current' = [current EXCEPT ![r] = a]
    /\ todo' = [todo EXCEPT ![r] = @ \ {a}]
    /\ request' = [request EXCEPT ![r] = "lookup"]
    /\ UNCHANGED <<hubVars, connVars, agentStatus, target, auxVars>>

(* The loop of the handler goes on to the next agent, or responds. *)
NextTask(r) ==
    /\ request' = [request EXCEPT ![r] = IF todo[r] = {} THEN "done" ELSE "create"]
    /\ current' = [current EXCEPT ![r] = NoAgent]
    /\ target' = [target EXCEPT ![r] = NoConn]

(* push, under the read lock: find the connection, or leave it at that. *)
PushFinds(r) ==
    /\ request[r] = "lookup"
    /\ conns[current[r]] # NoConn
    /\ target' = [target EXCEPT ![r] = conns[current[r]]]
    /\ request' = [request EXCEPT ![r] = "send"]
    /\ UNCHANGED <<hubVars, connVars, storeVars, todo, current, auxVars>>

PushFindsNone(r) ==
    /\ request[r] = "lookup"
    /\ conns[current[r]] = NoConn
    /\ NextTask(r)
    /\ UNCHANGED <<hubVars, connVars, storeVars, todo, auxVars>>

(* push, after the unlock: the non-blocking send, which drops the frame    *)
(* when the channel is full.                                               *)
PushSends(r) ==
    LET c == target[r]
        t == <<r, current[r]>> IN
    /\ request[r] = "send"
    /\ c \notin closed
    /\ Len(sendq[c]) < SendCap
    /\ sendq' = [sendq EXCEPT ![c] = Append(@, t)]
    /\ reached' = [reached EXCEPT ![c] = @ \cup {t}]
    /\ offers' = [offers EXCEPT ![<<c, t>>] = @ + 1]
    /\ NextTask(r)
    /\ UNCHANGED <<hubVars, unflushed, handler, linkVars, storeVars, todo, loaded,
                   crashes>>

(* Mutant of PushFull: the send has no default case and waits for room. *)
PushWaits(r) == /\ request[r] = "send"
                /\ Len(sendq[target[r]]) < SendCap
                /\ UNCHANGED vars

PushFull(r) ==
    LET c == target[r] IN
    /\ request[r] = "send"
    /\ c \notin closed
    /\ Len(sendq[c]) >= SendCap
    /\ reached' = [reached EXCEPT ![c] = @ \cup {<<r, current[r]>>}]
    /\ NextTask(r)
    /\ UNCHANGED <<hubVars, connVars, storeVars, todo, offers, loaded, crashes>>

(* A send on a channel that was closed in between panics: the request gets *)
(* no response and the rest of a broadcast is not dispatched.              *)
PushPanics(r) ==
    /\ request[r] = "send"
    /\ target[r] \in closed
    /\ request' = [request EXCEPT ![r] = "panicked"]
    /\ todo' = [todo EXCEPT ![r] = {}]
    /\ current' = [current EXCEPT ![r] = NoAgent]
    /\ target' = [target EXCEPT ![r] = NoConn]
    /\ UNCHANGED <<hubVars, connVars, storeVars, auxVars>>

-----------------------------------------------------------------------------
(* The sweep, the network and the process. *)

(* The flush waits for room that nobody makes: the writer is not started.  *)
FlushBlocked(c) ==
    /\ handler[c] = "flush"
    /\ unflushed[c] # {}
    /\ c \notin closed
    /\ Len(sendq[c]) >= SendCap

(* A heartbeat is recent while a connection is being set up or is served   *)
(* on a working socket: pings come every WSPingPeriod, 30 s, and the agent *)
(* timeout is longer, 90 s unless configured.                              *)
Fresh(a) ==
    \E c \in Conns : /\ AgentOf[c] = a
                     /\ \/ handler[c] \in {"register", "list", "flush"} /\ ~FlushBlocked(c)
                        \/ handler[c] = "serve" /\ sock[c] = "up"

(* Mutant of Stale: only agents that are in the hub are looked at. *)
StaleInHub(a) == agentStatus[a] = "online" /\ ~Fresh(a) /\ conns[a] # NoConn

Stale(a) == agentStatus[a] = "online" /\ ~Fresh(a)

(* markStaleAgents, once per tick of the sweep. *)
StaleSweep(S) ==
    /\ S # {}
    /\ \A a \in S : Stale(a)
    /\ agentStatus' = [a \in Agents |-> IF a \in S THEN "offline" ELSE agentStatus[a]]
    /\ UNCHANGED <<hubVars, connVars, taskStatus, reqVars, auxVars>>

(* The agent closes the connection, or the network or a read deadline ends *)
(* it. What the agent still holds it can no longer report here.            *)
LoseConnection(c) ==
    /\ sock[c] = "up"
    /\ sock' = [sock EXCEPT ![c] = "lost"]
    /\ inbox' = [inbox EXCEPT ![c] = <<>>]
    /\ started' = [started EXCEPT ![c] = FALSE]
    /\ UNCHANGED <<hubVars, chanVars, handler, writer, storeVars, reqVars, auxVars>>

(* The server process ends and is started again on its data file, which    *)
(* holds every agent status and task that a completed store call has set.  *)
Restart ==
    /\ crashes < MaxCrashes
    /\ crashes' = crashes + 1
    /\ conns' = [a \in Agents |-> NoConn]
    /\ closed' = {}
    /\ sendq' = [c \in Conns |-> <<>>]
    /\ handler' = [c \in Conns |-> IF handler[c] = "unused" THEN "unused" ELSE "ended"]
    /\ unflushed' = [c \in Conns |-> {}]
    /\ writer' = [c \in Conns |-> "none"]
    /\ sock' = [c \in Conns |-> IF sock[c] = "none" THEN "none" ELSE "closed"]
    /\ inbox' = [c \in Conns |-> <<>>]
    /\ started' = [c \in Conns |-> FALSE]
    /\ request' = [r \in Requests |->
                     IF request[r] \in {"select", "create", "lookup", "send"} THEN "aborted"
                     ELSE request[r]]
    /\ todo' = [r \in Requests |-> {}]
    /\ current' = [r \in Requests |-> NoAgent]
    /\ target' = [r \in Requests |-> NoConn]
    /\ loaded' = {a \in Agents : agentStatus[a] = "online"}
    /\ reached' = [c \in Conns |-> {}]
    /\ UNCHANGED <<storeVars, offers>>

-----------------------------------------------------------------------------
(* Mutant of Handshake: the pending tasks are listed before registering. *)
ListTooEarly(c) ==
    /\ handler[c] = "register"
    /\ unflushed' = [unflushed EXCEPT ![c] = PendingTasks(AgentOf[c])]
    /\ handler' = [handler EXCEPT ![c] = "list"]
    /\ UNCHANGED <<hubVars, sendq, linkVars, storeVars, reqVars, auxVars>>

RegisterTooLate(c) ==
    /\ handler[c] = "list"
    /\ closed' = closed \cup ({conns[AgentOf[c]]} \ {NoConn})
    /\ conns' = [conns EXCEPT ![AgentOf[c]] = c]
    /\ handler' = [handler EXCEPT ![c] = "flush"]
    /\ UNCHANGED <<chanVars, linkVars, storeVars, reqVars, auxVars>>

HandshakeListsFirst(c) ==
    \/ ReadHello(c) \/ HelloFails(c) \/ RejectDuplicate(c) \/ AcceptHello(c)
    \/ UpsertAgent(c) \/ ListTooEarly(c) \/ RegisterTooLate(c)
    \/ (\E t \in Tasks : FlushTask(c, t)) \/ FlushPanics(c) \/ StartLoops(c)

Handshake(c) ==
    \/ ReadHello(c) \/ HelloFails(c) \/ RejectDuplicate(c) \/ AcceptHello(c)
    \/ UpsertAgent(c) \/ Register(c) \/ ListPending(c)
    \/ (\E t \in Tasks : FlushTask(c, t)) \/ FlushPanics(c) \/ StartLoops(c)

WriteLoop(c) == WriteFrame(c) \/ WriteDroppedFrame(c) \/ WriteIntoVoid(c) \/ StopWriter(c)

Results(c) == ResultRunning(c) \/ \E s \in Outcomes : ResultFinal(c, s)

CleanUp(c) == Unregister(c) \/ SetOffline(c)

Serve(r) ==
    \/ (\E a \in Agents : SkipAgent(r, a) \/ CreateTask(r, a)) \/ StartBroadcast(r)
    \/ PushFinds(r) \/ PushFindsNone(r) \/ PushSends(r) \/ PushFull(r) \/ PushPanics(r)

Post(r) == ListAgents(r) \/ \E a \in Agents : PostTask(r, a)

Next ==
    \/ \E c \in Conns : \/ Dial(c) \/ Handshake(c) \/ WriteLoop(c) \/ Results(c)
                        \/ CleanUp(c) \/ LoseConnection(c)
    \/ \E r \in Requests : Post(r) \/ Serve(r)
    \/ \E S \in SUBSET Agents : StaleSweep(S)
    \/ Restart

Spec == Init /\ [][Next]_vars

(* Goroutines that can run do run, and the sweep's ticker keeps ticking.   *)
(* Nothing makes an agent dial, a client post, or a connection fail.       *)
Fairness ==
    /\ \A c \in Conns : /\ WF_vars(Handshake(c)) /\ WF_vars(WriteLoop(c))
                        /\ WF_vars(CleanUp(c))
    /\ \A r \in Requests : WF_vars(Serve(r))
    /\ \A a \in Agents : WF_vars(\E S \in SUBSET Agents : a \in S /\ StaleSweep(S))

FairSpec == Spec /\ Fairness

-----------------------------------------------------------------------------
(* Safety *)

Registered == {"list", "flush", "serve"}

(* The hub's entry of an agent is exactly the handler that is past          *)
(* register, has not started its clean-up and has not been evicted. So no   *)
(* connection is orphaned (served but never pushed to), no dead one keeps   *)
(* its entry past the clean-up, and register never closes a channel twice.  *)
HubMatchesHandlers ==
    \A c \in Conns :
        conns[AgentOf[c]] = c <=> handler[c] \in Registered /\ c \notin closed

Dispatching(t) == current[t[1]] = t[2]

(* Registering before listing, and storing before looking up, leave no gap: *)
(* once a connection is served, every pending task of its agent has been    *)
(* flushed or pushed to it, unless its push is still under way. It holds    *)
(* across evictions and restarts; a push that found the channel full counts.*)
NoTaskOverlooked ==
    \A c \in Conns : \A t \in TasksOf(AgentOf[c]) :
        /\ conns[AgentOf[c]] = c
        /\ handler[c] = "serve"
        /\ taskStatus[t] = "pending"
        /\ ~Dispatching(t)
        => t \in reached[c]

(* An agent listed as online has a connection whose handler will mark it    *)
(* offline when it ends; the exception are agents read back from the data   *)
(* file, which only the sweep or a new connection corrects. Otherwise a     *)
(* broadcast would keep creating tasks for an agent that is gone.           *)
OnlineHasHandler ==
    \A a \in Agents : agentStatus[a] = "online" =>
        \/ a \in loaded
        \/ \E c \in Conns : /\ AgentOf[c] = a
                            /\ handler[c] \in Registered \cup {"register", "offline"}
                            /\ c \notin closed

(* A frame only ever waits for the agent it is addressed to: the connection *)
(* that push looked up still fits the task in hand when it sends.           *)
FramesAddressed ==
    \A c \in Conns : \A i \in 1..Len(sendq[c]) : sendq[c][i][2] = AgentOf[c]

(* On one channel, or on the channels of two connections. *)
OfferedTwice(t) ==
    \E c, d \in Conns : /\ offers[c, t] > 0 /\ offers[d, t] > 0
                        /\ c = d => offers[c, t] >= 2

(* A finished task returns to running only if it was put on a channel more  *)
(* than once, by a push and a flush or by two flushes: nothing else makes   *)
(* the server accept results of a task a second time.                       *)
RerunOnlyIfOfferedTwice ==
    [][\A t \in Tasks : taskStatus[t] \in Outcomes /\ taskStatus'[t] = "running"
                        => OfferedTwice(t)]_vars

-----------------------------------------------------------------------------
(* Liveness *)

(* dispatchTask never waits for an agent: a request that was accepted is    *)
(* answered or aborted, even while channels are full and flushes hang.      *)
RequestsFinish ==
    \A r \in Requests : request[r] \in {"select", "create"}
                        ~> request[r] \in {"done", "conflict", "panicked", "aborted"}

(* When the connections of an agent are gone for good, the agent ends up    *)
(* offline: by its handlers' clean-up or, for an agent read back from the   *)
(* data file or a handler stuck in its flush, by the sweep.                 *)
GoneAgentGoesOffline ==
    \A a \in Agents :
        <>[](\A c \in Conns : AgentOf[c] = a => sock[c] # "up")
        => <>[](agentStatus[a] # "online")

(* The two loops of an evicted connection come to an end without help from  *)
(* the agent: the writer drains the channel and closes the socket, the      *)
(* reader fails and cleans up; a handler still flushing panics.             *)
EvictedConnectionEnds ==
    \A c \in Conns : c \in closed ~> handler[c] \in {"ended", "panicked"}

-----------------------------------------------------------------------------
(* What the documentation says and the code does not do.                    *)

(* README.md 259: an agent that connects "is registered as online". So the  *)
(* agent of a served, working connection is online unless another handler   *)
(* of the same ID is between its own store call and its hub call. The       *)
(* clean-up of an evicted connection marks the ID offline all the same.     *)
ConnectedMeansOnline ==
    \A c \in Conns :
        /\ conns[AgentOf[c]] = c /\ handler[c] = "serve" /\ sock[c] = "up"
        /\ \A d \in Conns \ {c} : AgentOf[d] = AgentOf[c]
                                   => handler[d] \notin {"register", "offline"}
        => agentStatus[AgentOf[c]] = "online"

(* README.md 352: tasks created while the agent was offline "are flushed to  *)
(* it as soon as it reconnects". So every flush comes to its end: the send   *)
(* channel has room for all it may have to hold before the writer starts.    *)
FlushEnds ==
    \A c \in Conns : handler[c] = "flush" ~> handler[c] # "flush"
=============================================================================
