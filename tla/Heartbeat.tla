----------------------------- MODULE Heartbeat -----------------------------
(***************************************************************************)
(* The clocks of one agent's connection: the pings and read deadlines of   *)
(* both sides (internal/server/ws.go, internal/agent/client.go), the       *)
(* server's sweep for stale agents (internal/server/server.go) and the     *)
(* agent's backoff (cmd/agent/main.go).                                    *)
(*                                                                         *)
(* Time passes in whole units by Tick, which waits for everything that is  *)
(* due: timers are punctual, what a handler does takes no time, and a ping *)
(* is answered within Delay. A connection whose link has failed carries    *)
(* nothing more and neither side is told.                                  *)
(***************************************************************************)
EXTENDS Naturals

CONSTANTS
    PingPeriod,    \* WSPingPeriod (30 s)
    PongWait,      \* WSPongWait (60 s)
    AgentTimeout,  \* the server's --agent-timeout (90 s)
    SweepFloor,    \* the least period of the sweep (2 s)
    Base,          \* the first delay of the backoff (1 s)
    MaxRetry,      \* its limit, the agent's --interval (60 s)
    RestartSec,    \* systemd's delay before a restart (5 s)
    Delay,         \* bound on the time from a ping to its pong
    AttemptTime    \* bound on an attempt to reach a server out of reach

ASSUME HeartbeatAssumption ==
    /\ {PingPeriod, PongWait, SweepFloor, Base, RestartSec} \subseteq Nat \ {0}
    /\ {AgentTimeout, MaxRetry, Delay, AttemptTime} \subseteq Nat
    /\ Delay < PingPeriod

VARIABLES
    open,      \* the sides that hold the connection: "server", "agent"
    linked,    \* what one side sends on it reaches the other
    net,       \* the server can be reached by a new connection
    deadline,  \* time since each side set its read deadline
    ping,      \* time since each side's ping ticker fired
    pong,      \* age of each side's unanswered ping, or NoPing
    status,    \* the agent's status in the store
    heard,     \* age of its LastHeartbeat
    sweep,     \* time since the sweep's ticker fired
    process,   \* the agent: connected, waiting to dial, or exited
    wait,      \* time until it dials or systemd starts it again
    current,   \* backoff.current
    key,       \* the agent's verify key: none, the server's, or another one
    \* History, read by no guard.
    broken,    \* time since the link failed
    unheard,   \* time since the server heard of the agent or was started
    apart      \* for how long the server has been Reachable and not connected

sideVars == <<deadline, ping, pong>>
storeVars == <<status, heard>>
agentVars == <<process, wait, current>>
histVars == <<broken, unheard, apart>>
vars == <<open, linked, net, sideVars, storeVars, sweep, agentVars, key, histVars>>

Sides == {"server", "agent"}
NoPing == Delay + 1

Least(x, y) == IF x <= y THEN x ELSE y

(* staleSweep: a third of the timeout, but not less than the floor. *)
Interval == AgentTimeout \div 3
SweepPeriod == IF Interval < SweepFloor THEN SweepFloor ELSE Interval

(* newBackoff, and next: the limit applies before the jitter. *)
Limit == IF MaxRetry < Base THEN Base ELSE MaxRetry
NextCurrent(c) == IF c < Base THEN Base ELSE Least(2 * c, Limit)
Jittered(c) == (c - c \div 4)..(c + c \div 4)

LongestWait == Limit + Limit \div 4

(* From the moment the server can be reached, an agent is connected after   *)
(* the read deadline of the side that holds the old connection longest and  *)
(* one delay, if an attempt and a restart fit into that deadline.          *)
ReconnectTime == PongWait + LongestWait

OldestHeard == AgentTimeout + SweepPeriod + 1

TypeOK ==
    /\ open \in SUBSET Sides /\ linked \in BOOLEAN /\ net \in BOOLEAN
    /\ deadline \in [Sides -> 0..PongWait]
    /\ ping \in [Sides -> 0..PingPeriod]
    /\ pong \in [Sides -> 0..NoPing]
    /\ status \in {"absent", "online", "offline"}
    /\ heard \in 0..OldestHeard
    /\ sweep \in 0..SweepPeriod
    /\ process \in {"connected", "waiting", "exited"}
    /\ wait \in 0..(LongestWait + AttemptTime + RestartSec)
    /\ current \in 0..Limit /\ key \in {"none", "servers", "other"}
    /\ broken \in 0..(PongWait + 1) /\ unheard \in 0..OldestHeard
    /\ apart \in 0..(ReconnectTime + 1)

Init ==
    /\ open = {} /\ linked = FALSE /\ net = TRUE
    /\ deadline = [s \in Sides |-> 0] /\ ping = [s \in Sides |-> 0]
    /\ pong = [s \in Sides |-> NoPing]
    /\ status = "absent" /\ heard = 0 /\ sweep = 0
    /\ process = "waiting" /\ wait = 0 /\ current = 0 /\ key \in {"none", "servers"}
    /\ broken = 0 /\ unheard = 0 /\ apart = 0

-----------------------------------------------------------------------------
(* Pings. Each side's ticker sends one; the other side answers by itself.   *)

Ping(s) ==
    /\ s \in open /\ ping[s] = PingPeriod
    /\ ping' = [ping EXCEPT ![s] = 0]
    /\ pong' = IF linked THEN [pong EXCEPT ![s] = 0] ELSE pong
    /\ UNCHANGED <<open, linked, net, deadline, storeVars, sweep, agentVars, key, histVars>>

(* Mutants of Pong: the handler does not move the deadline; the server's    *)
(* does not touch the agent.                                                *)
PongKeepsDeadline(s) ==
    /\ linked /\ pong[s] # NoPing
    /\ pong' = [pong EXCEPT ![s] = NoPing]
    /\ heard' = IF s = "server" THEN 0 ELSE heard
    /\ unheard' = IF s = "server" THEN 0 ELSE unheard
    /\ UNCHANGED <<open, linked, net, deadline, ping, status, sweep, agentVars, key, broken, apart>>
PongWithoutTouch(s) ==
    /\ linked /\ pong[s] # NoPing
    /\ pong' = [pong EXCEPT ![s] = NoPing]
    /\ deadline' = [deadline EXCEPT ![s] = 0]
    /\ UNCHANGED <<open, linked, net, ping, storeVars, sweep, agentVars, key, histVars>>

(* The pong handler moves the deadline; the server's calls touchAgent, too, *)
(* which leaves the status alone.                                           *)
Pong(s) ==
    /\ linked /\ pong[s] # NoPing
    /\ pong' = [pong EXCEPT ![s] = NoPing]
    /\ deadline' = [deadline EXCEPT ![s] = 0]
    /\ heard' = IF s = "server" THEN 0 ELSE heard
    /\ unheard' = IF s = "server" THEN 0 ELSE unheard
    /\ UNCHANGED <<open, linked, net, ping, status, sweep, agentVars, key, broken, apart>>

(* A report of the agent touches it as well. *)
Report ==
    /\ linked /\ heard # 0
    /\ heard' = 0 /\ unheard' = 0
    /\ UNCHANGED <<open, linked, net, sideVars, status, sweep, agentVars, key, broken, apart>>

-----------------------------------------------------------------------------
(* Connections. *)

(* Mutant of Backoff: the limit is not applied. *)
BackoffUnlimited(tried) ==
    /\ current' = IF current < Base THEN Base ELSE 2 * current
    /\ process' = "waiting"
    /\ \E d \in Jittered(current'), t \in 0..tried : wait' = d + t

(* The loop of run: after a failure the agent waits. The backoff is never   *)
(* reset, so the delays of all failures of a process add to one sequence.   *)
Backoff(tried) ==
    /\ current' = NextCurrent(current)
    /\ process' = "waiting"
    /\ \E d \in Jittered(current'), t \in 0..tried : wait' = d + t

Unreachable ==
    /\ process = "waiting" /\ wait = 0 /\ ~net
    /\ Backoff(AttemptTime)
    /\ UNCHANGED <<open, linked, net, sideVars, storeVars, sweep, key, histVars>>

(* The server accepts the hello and registers the agent. *)
Connect ==
    /\ process = "waiting" /\ wait = 0 /\ net
    /\ "server" \notin open
    /\ open' = Sides /\ linked' = TRUE
    /\ deadline' = [s \in Sides |-> 0] /\ ping' = [s \in Sides |-> 0]
    /\ pong' = [s \in Sides |-> NoPing]
    /\ status' = "online" /\ heard' = 0
    /\ process' = "connected"
    /\ broken' = 0 /\ unheard' = 0 /\ apart' = 0
    /\ UNCHANGED <<net, sweep, wait, current, key>>

(* The server still holds the agent's old connection: the agent exits. *)
Rejected ==
    /\ process = "waiting" /\ wait = 0 /\ net
    /\ "server" \in open
    /\ process' = "exited" /\ wait' = RestartSec
    /\ UNCHANGED <<open, linked, net, sideVars, storeVars, sweep, current, key, histVars>>

(* VerifyServerPublicKey: with a verify key, the server's is fetched and    *)
(* has to be the same.                                                      *)
KeyVerified == key = "none" \/ (key = "servers" /\ net)

(* systemd starts a new process, which dials at once or exits again. *)
Restart ==
    /\ process = "exited" /\ wait = 0
    /\ current' = 0
    /\ \/ KeyVerified /\ process' = "waiting" /\ wait' = 0
       \/ ~KeyVerified /\ process' = "exited" /\ \E t \in 0..AttemptTime : wait' = RestartSec + t
    /\ UNCHANGED <<open, linked, net, sideVars, storeVars, sweep, key, histVars>>

(* The operator gives the agent the key of the server. *)
InstallKey ==
    /\ key = "other" /\ key' = "servers"
    /\ UNCHANGED <<open, linked, net, sideVars, storeVars, sweep, agentVars, histVars>>

(* A side that holds the connection closes it. Over a working link the      *)
(* other side's read fails at once; the server marks the agent offline.     *)
Close(s) ==
    /\ open' = IF linked THEN {} ELSE open \ {s}
    /\ linked' = FALSE
    /\ pong' = [x \in Sides |-> NoPing]
    /\ status' = IF "server" \in open \ open' THEN "offline" ELSE status
    /\ IF "agent" \in open \ open' THEN Backoff(0) ELSE UNCHANGED agentVars

ReadTimesOut(s) ==
    /\ s \in open /\ deadline[s] = PongWait
    /\ Close(s)
    /\ UNCHANGED <<net, deadline, ping, heard, sweep, key, histVars>>

(* The link fails, with or without the network behind it. *)
LinkFails ==
    /\ linked
    /\ linked' = FALSE /\ net' \in BOOLEAN
    /\ pong' = [s \in Sides |-> NoPing]
    /\ broken' = 0 /\ apart' = 0
    /\ UNCHANGED <<open, deadline, ping, storeVars, sweep, agentVars, key, unheard>>

NetworkBack ==
    /\ ~net /\ net' = TRUE
    /\ apart' = 0
    /\ UNCHANGED <<open, linked, sideVars, storeVars, sweep, agentVars, key, broken, unheard>>

-----------------------------------------------------------------------------
(* The store. *)

(* Mutant of Sweep: the comparison is the wrong way round. *)
SweepFresh ==
    /\ sweep = SweepPeriod /\ sweep' = 0
    /\ status' = IF status = "online" /\ heard < AgentTimeout THEN "offline" ELSE status
    /\ UNCHANGED <<open, linked, net, sideVars, heard, agentVars, key, histVars>>

(* staleSweep and markStaleAgents *)
Sweep ==
    /\ sweep = SweepPeriod /\ sweep' = 0
    /\ status' = IF status = "online" /\ heard > AgentTimeout THEN "offline" ELSE status
    /\ UNCHANGED <<open, linked, net, sideVars, heard, agentVars, key, histVars>>

(* loadOrGenerateSigningKey: a key that is not configured is a new one.     *)
KeyAfterStart == IF key = "none" THEN {"none"} ELSE {key, "other"}

(* The server starts again with the status and an older heartbeat from its  *)
(* file: touchAgent does not persist. Its connections are gone.             *)
ServerRestarts ==
    /\ open' = IF linked THEN {} ELSE open \ {"server"}
    /\ linked' = FALSE
    /\ pong' = [s \in Sides |-> NoPing]
    /\ heard' \in heard..OldestHeard
    /\ sweep' = 0
    /\ key' \in KeyAfterStart
    /\ unheard' = 0 /\ apart' = 0
    /\ IF linked THEN Backoff(0) ELSE UNCHANGED agentVars
    /\ UNCHANGED <<net, deadline, ping, status, broken>>

-----------------------------------------------------------------------------
Due ==
    \/ \E s \in open : \/ deadline[s] = PongWait \/ ping[s] = PingPeriod
                       \/ linked /\ pong[s] = Delay
    \/ sweep = SweepPeriod
    \/ process # "connected" /\ wait = 0

(* An agent that has exited and has another verify key than the server is   *)
(* kept out by run, however long the network is up.                         *)
Reachable == net /\ (process = "exited" => key # "other")

Tick ==
    /\ ~Due
    /\ deadline' = [s \in Sides |-> IF s \in open THEN deadline[s] + 1 ELSE 0]
    /\ ping' = [s \in Sides |-> IF s \in open THEN ping[s] + 1 ELSE 0]
    /\ pong' = [s \in Sides |-> IF pong[s] = NoPing THEN NoPing ELSE pong[s] + 1]
    /\ heard' = Least(heard + 1, OldestHeard)
    /\ sweep' = sweep + 1
    /\ wait' = IF process = "connected" THEN 0 ELSE wait - 1
    /\ unheard' = Least(unheard + 1, OldestHeard)
    /\ broken' = IF linked \/ open = {} THEN 0 ELSE Least(broken + 1, PongWait + 1)
    /\ apart' = IF linked \/ ~Reachable THEN 0 ELSE Least(apart + 1, ReconnectTime + 1)
    /\ UNCHANGED <<open, linked, net, status, process, current, key>>

Next ==
    \/ \E s \in Sides : Ping(s) \/ Pong(s) \/ ReadTimesOut(s)
    \/ Report \/ Unreachable \/ Connect \/ Rejected \/ Restart \/ InstallKey
    \/ LinkFails \/ NetworkBack \/ Sweep \/ ServerRestarts \/ Tick

Spec == Init /\ [][Next]_vars

-----------------------------------------------------------------------------
(* A connection whose link works is not ended by a read deadline. *)
LiveConnectionKept == linked => \A s \in Sides : deadline[s] < PongWait

(* An agent with a working connection is online: no sweep takes it for      *)
(* stale, although nothing but its next connection could undo that.         *)
LiveAgentOnline == linked => status = "online"

(* An agent whose link has failed is not called online for longer than the  *)
(* read deadline, and one whose server has restarted not for longer than    *)
(* the timeout and one period of the sweep.                                 *)
GoneAgentOffline ==
    status = "online" =>
        /\ "server" \in open /\ ~linked => broken <= PongWait
        /\ unheard <= AgentTimeout + SweepPeriod

(* An agent whose server can be reached is connected after ReconnectTime,   *)
(* even if its own old connection got it rejected. Excepted is the one that *)
(* has exited after the server changed its key, until the operator gives it *)
(* the new one: from then on the same bound holds for it.                   *)
ReconnectsInTime == apart <= ReconnectTime
=============================================================================
