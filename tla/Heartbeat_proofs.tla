-------------------------- MODULE Heartbeat_proofs --------------------------
(***************************************************************************)
(* Heartbeat's safety for all periods, deadlines and timeouts.  What the   *)
(* constants have to satisfy for a working connection to be left alone is  *)
(* a hypothesis of the theorems that need it.                              *)
(***************************************************************************)
EXTENDS Heartbeat, TLAPS

(* A connection with a working link is held by both sides, and a ping is    *)
(* under way on no other.                                                   *)
LinkInv ==
    /\ linked => open = Sides
    /\ ~linked => \A s \in Sides : pong[s] = NoPing

TypeInv == TypeOK /\ LinkInv

(* A side's deadline was set when its last ping was answered: not longer    *)
(* ago than the ticker fired, or one period before the ping under way.      *)
PingInv ==
    linked => \A s \in Sides :
        IF pong[s] = NoPing THEN deadline[s] <= ping[s]
        ELSE ping[s] = pong[s] /\ deadline[s] <= PingPeriod + pong[s]

(* The server's pong handler touches the agent whenever it sets a deadline. *)
HeardInv == linked => heard <= deadline["server"]

(* A failed link is not older than the deadline that the server has set.    *)
BrokenInv == "server" \in open /\ ~linked => broken <= deadline["server"]

(* An online agent was not stale at the last sweep. *)
SweepInv ==
    status = "online" => unheard <= heard /\ unheard <= AgentTimeout + sweep

(* The server has not been in reach for longer than the read deadline of a  *)
(* side that still holds the failed connection, nor for so long that an     *)
(* agent which waits to dial, or for systemd, would dial too late. For one  *)
(* that has exited with another key that time does not pass.                *)
ApartInv ==
    /\ linked \/ ~net => apart = 0
    /\ process = "exited" /\ key = "other" => apart = 0 \/ wait # 0
    /\ process = "connected" <=> "agent" \in open
    /\ \A s \in open : apart <= deadline[s]
    /\ process # "connected" =>
           wait <= LongestWait + AttemptTime /\ apart + wait <= ReconnectTime

-----------------------------------------------------------------------------
LEMMA ConstantTypes ==
    /\ PingPeriod \in Nat \ {0} /\ PongWait \in Nat \ {0} /\ AgentTimeout \in Nat
    /\ SweepPeriod \in Nat \ {0} /\ Base \in Nat \ {0} /\ RestartSec \in Nat \ {0}
    /\ Delay \in Nat /\ AttemptTime \in Nat /\ Delay < PingPeriod
    /\ Limit \in Nat \ {0} /\ Base <= Limit /\ LongestWait \in Nat
    /\ NoPing = Delay + 1 /\ OldestHeard = AgentTimeout + SweepPeriod + 1
    /\ ReconnectTime \in Nat
<1>1. /\ {PingPeriod, PongWait, SweepFloor, Base, RestartSec} \subseteq Nat \ {0}
      /\ {AgentTimeout, MaxRetry, Delay, AttemptTime} \subseteq Nat /\ Delay < PingPeriod
  BY HeartbeatAssumption DEF HeartbeatAssumption
<1>2. SweepPeriod \in Nat \ {0}
  BY <1>1 DEF SweepPeriod, Interval
<1>3. Limit \in Nat \ {0} /\ Base <= Limit
  BY <1>1 DEF Limit
<1>4. LongestWait \in Nat
  BY <1>3 DEF LongestWait
<1> QED BY <1>1, <1>2, <1>3, <1>4 DEF NoPing, OldestHeard, ReconnectTime

LEMMA NextCurrentType ==
    ASSUME NEW c \in 0..Limit PROVE NextCurrent(c) \in 0..Limit
BY ConstantTypes DEF NextCurrent, Least

LEMMA JitterBound ==
    ASSUME NEW c \in 0..Limit, NEW d \in Jittered(c) PROVE d \in 0..LongestWait
<1>1. c \div 4 \in Nat /\ c \div 4 <= c /\ c \div 4 <= Limit \div 4
  BY ConstantTypes
<1> QED BY <1>1, ConstantTypes DEF Jittered, LongestWait

(* The state that Backoff leaves, after an attempt of any length. *)
LEMMA BackoffType ==
    ASSUME TypeOK, NEW tried \in 0..AttemptTime, Backoff(tried)
    PROVE /\ current' \in 0..Limit /\ process' = "waiting"
          /\ wait' \in 0..(LongestWait + AttemptTime + RestartSec)
<1>1. current' \in 0..Limit /\ process' = "waiting"
  BY NextCurrentType DEF TypeOK, Backoff
<1>2. PICK d \in Jittered(current'), t \in 0..tried : wait' = d + t
  BY DEF Backoff
<1>3. d \in 0..LongestWait
  BY <1>1, <1>2, JitterBound
<1> QED BY <1>1, <1>2, <1>3, ConstantTypes

(***************************************************************************)
(* Every clock stays in its range: whatever would take one past its bound  *)
(* is due, and time waits for it.  With it, a ping is under way only on a  *)
(* connection that both sides hold.                                        *)
(***************************************************************************)
LEMMA NoPingType ==
    /\ [s \in Sides |-> NoPing] \in [Sides -> 0..NoPing]
    /\ \A s \in Sides : [x \in Sides |-> NoPing][s] = NoPing
BY ConstantTypes

LEMMA TypeInit == Init => TypeInv
<1> SUFFICES ASSUME Init PROVE TypeInv
  OBVIOUS
<1>1. /\ deadline \in [Sides -> 0..PongWait] /\ ping \in [Sides -> 0..PingPeriod]
      /\ pong \in [Sides -> 0..NoPing]
  BY ConstantTypes DEF Init
<1>2. /\ heard \in 0..OldestHeard /\ unheard \in 0..OldestHeard
      /\ sweep \in 0..SweepPeriod /\ current \in 0..Limit
      /\ wait \in 0..(LongestWait + AttemptTime + RestartSec)
      /\ broken \in 0..(PongWait + 1) /\ apart \in 0..(ReconnectTime + 1)
  BY ConstantTypes DEF Init
<1> QED BY <1>1, <1>2, NoPingType DEF Init, TypeInv, TypeOK, LinkInv

LEMMA TypeNext == TypeInv /\ [Next]_vars => TypeInv'
<1> SUFFICES ASSUME TypeInv, [Next]_vars PROVE TypeInv'
  OBVIOUS
<1> USE ConstantTypes
<1>1. ASSUME NEW s \in Sides, Ping(s) PROVE TypeInv'
  BY <1>1 DEF TypeInv, TypeOK, LinkInv, Ping, storeVars, agentVars, histVars
<1>2. ASSUME NEW s \in Sides, Pong(s) PROVE TypeInv'
  BY <1>2 DEF TypeInv, TypeOK, LinkInv, Pong, agentVars
<1>3. ASSUME NEW s \in Sides, ReadTimesOut(s) PROVE TypeInv'
  <2>1. /\ current' \in 0..Limit /\ process' \in {"connected", "waiting", "exited"}
        /\ wait' \in 0..(LongestWait + AttemptTime + RestartSec)
    <3>1. CASE Backoff(0)
      BY <3>1, BackoffType DEF TypeInv
    <3>2. CASE UNCHANGED agentVars
      BY <3>2 DEF TypeInv, TypeOK, agentVars
    <3> QED BY <1>3, <3>1, <3>2 DEF ReadTimesOut, Close
  <2>2. /\ open' \in SUBSET Sides /\ linked' = FALSE
        /\ pong' = [x \in Sides |-> NoPing]
        /\ status' \in {"absent", "online", "offline"}
        /\ UNCHANGED <<net, deadline, ping, heard, sweep, key, histVars>>
    BY <1>3 DEF TypeInv, TypeOK, ReadTimesOut, Close
  <2>3. LinkInv' /\ pong' \in [Sides -> 0..NoPing]
    BY <2>2, NoPingType DEF LinkInv
  <2> QED BY <2>1, <2>2, <2>3 DEF TypeInv, TypeOK, histVars
<1>4. ASSUME Report PROVE TypeInv'
  BY <1>4 DEF TypeInv, TypeOK, LinkInv, Report, sideVars, agentVars
<1>5. ASSUME Unreachable PROVE TypeInv'
  <2>1. /\ current' \in 0..Limit /\ process' = "waiting"
        /\ wait' \in 0..(LongestWait + AttemptTime + RestartSec)
    BY <1>5, BackoffType DEF TypeInv, Unreachable
  <2> QED BY <1>5, <2>1
          DEF TypeInv, TypeOK, LinkInv, Unreachable, sideVars, storeVars, histVars
<1>6. ASSUME Connect PROVE TypeInv'
  BY <1>6 DEF TypeInv, TypeOK, LinkInv, Connect
<1>7. ASSUME Rejected PROVE TypeInv'
  BY <1>7 DEF TypeInv, TypeOK, LinkInv, Rejected, sideVars, storeVars, histVars
<1>8. ASSUME Restart PROVE TypeInv'
  BY <1>8 DEF TypeInv, TypeOK, LinkInv, Restart, sideVars, storeVars, histVars
<1>9. ASSUME LinkFails PROVE TypeInv'
  <2>1. LinkInv' /\ pong' \in [Sides -> 0..NoPing]
    BY <1>9, NoPingType DEF LinkInv, LinkFails
  <2>2. broken' \in 0..(PongWait + 1) /\ apart' \in 0..(ReconnectTime + 1)
    BY <1>9 DEF LinkFails
  <2> QED BY <1>9, <2>1, <2>2 DEF TypeInv, TypeOK, LinkFails, storeVars, agentVars
<1>10. ASSUME NetworkBack PROVE TypeInv'
  BY <1>10 DEF TypeInv, TypeOK, LinkInv, NetworkBack, sideVars, storeVars, agentVars
<1>11. ASSUME Sweep PROVE TypeInv'
  BY <1>11 DEF TypeInv, TypeOK, LinkInv, Sweep, sideVars, agentVars, histVars
<1>12. ASSUME ServerRestarts PROVE TypeInv'
  <2>1. /\ current' \in 0..Limit /\ process' \in {"connected", "waiting", "exited"}
        /\ wait' \in 0..(LongestWait + AttemptTime + RestartSec)
    <3>1. CASE Backoff(0)
      BY <3>1, BackoffType DEF TypeInv
    <3>2. CASE UNCHANGED agentVars
      BY <3>2 DEF TypeInv, TypeOK, agentVars
    <3> QED BY <1>12, <3>1, <3>2 DEF ServerRestarts
  <2>2. /\ open' \in SUBSET Sides /\ linked' = FALSE
        /\ pong' = [s \in Sides |-> NoPing]
        /\ heard' \in heard..OldestHeard
        /\ sweep' = 0 /\ unheard' = 0 /\ apart' = 0
        /\ key' \in {"none", "servers", "other"}
        /\ UNCHANGED <<net, deadline, ping, status, broken>>
    <3>1. heard \in 0..OldestHeard
      BY DEF TypeInv, TypeOK
    <3> QED BY <1>12, <3>1 DEF TypeInv, TypeOK, ServerRestarts, KeyAfterStart
  <2>3. LinkInv' /\ pong' \in [Sides -> 0..NoPing]
    BY <2>2, NoPingType DEF LinkInv
  <2>4. heard' \in 0..OldestHeard /\ unheard' \in 0..OldestHeard
        /\ sweep' \in 0..SweepPeriod /\ apart' \in 0..(ReconnectTime + 1)
    BY <2>2 DEF TypeInv, TypeOK
  <2> QED BY <2>1, <2>2, <2>3, <2>4 DEF TypeInv, TypeOK
<1>13. ASSUME InstallKey PROVE TypeInv'
  BY <1>13 DEF TypeInv, TypeOK, LinkInv, InstallKey, sideVars, storeVars, agentVars, histVars
<1>14. ASSUME Tick PROVE TypeInv'
  <2>1. /\ deadline' \in [Sides -> 0..PongWait]
        /\ ping' \in [Sides -> 0..PingPeriod]
    BY <1>14 DEF TypeInv, TypeOK, Tick, Due
  <2>2. pong' \in [Sides -> 0..NoPing]
    BY <1>14 DEF TypeInv, TypeOK, Tick
  <2>3. /\ sweep' \in 0..SweepPeriod
        /\ wait' \in 0..(LongestWait + AttemptTime + RestartSec)
    BY <1>14 DEF TypeInv, TypeOK, Tick, Due
  <2>4. heard' \in 0..OldestHeard /\ unheard' \in 0..OldestHeard
    BY <1>14 DEF TypeInv, TypeOK, Tick, Least
  <2>5. broken' \in 0..(PongWait + 1) /\ apart' \in 0..(ReconnectTime + 1)
    BY <1>14 DEF TypeInv, TypeOK, Tick, Least
  <2>6. LinkInv'
    BY <1>14 DEF TypeInv, LinkInv, Tick
  <2> QED BY <1>14, <2>1, <2>2, <2>3, <2>4, <2>5, <2>6 DEF TypeInv, TypeOK, Tick
<1>15. ASSUME UNCHANGED vars PROVE TypeInv'
  BY <1>15 DEF TypeInv, TypeOK, LinkInv, vars, sideVars, storeVars, agentVars, histVars
<1> QED BY <1>1, <1>2, <1>3, <1>4, <1>5, <1>6, <1>7, <1>8, <1>9, <1>10, <1>11, <1>12,
           <1>13, <1>14, <1>15 DEF Next

(* Every clock, timer and age of Heartbeat keeps to its bound, and so does  *)
(* the backoff: no delay of cmd/agent/main.go exceeds its limit by more     *)
(* than the jitter.                                                         *)
THEOREM TypeCorrect == Spec => []TypeOK
<1>1. Spec => []TypeInv
  BY TypeInit, TypeNext, PTL DEF Spec
<1> QED BY <1>1, PTL DEF TypeInv

-----------------------------------------------------------------------------
(* Read deadlines. *)
LEMMA PingInit == Init => PingInv
BY DEF Init, PingInv

LEMMA PingNext ==
    TypeInv /\ PingInv /\ [Next]_vars => PingInv'
<1> SUFFICES ASSUME TypeInv, PingInv, [Next]_vars PROVE PingInv'
  OBVIOUS
<1> USE ConstantTypes DEF PingInv
<1>1. ASSUME NEW s \in Sides, Ping(s) PROVE PingInv'
  BY <1>1 DEF TypeInv, TypeOK, LinkInv, Ping
<1>2. ASSUME NEW s \in Sides, Pong(s) PROVE PingInv'
  BY <1>2 DEF TypeInv, TypeOK, Pong
<1>3. ASSUME NEW s \in Sides, ReadTimesOut(s) PROVE PingInv'
  BY <1>3 DEF ReadTimesOut, Close
<1>4. CASE Report
  BY <1>4 DEF Report, sideVars
<1>5. CASE Unreachable
  BY <1>5 DEF Unreachable, sideVars
<1>6. CASE Connect
  BY <1>6 DEF Connect
<1>7. CASE Rejected
  BY <1>7 DEF Rejected, sideVars
<1>8. CASE Restart
  BY <1>8 DEF Restart, sideVars
<1>9. CASE LinkFails
  BY <1>9 DEF LinkFails
<1>10. CASE NetworkBack
  BY <1>10 DEF NetworkBack, sideVars
<1>11. CASE Sweep
  BY <1>11 DEF Sweep, sideVars
<1>12. CASE ServerRestarts
  BY <1>12 DEF ServerRestarts
<1>13. CASE InstallKey
  BY <1>13 DEF InstallKey, sideVars
<1>14. CASE Tick
  <2> SUFFICES ASSUME linked, NEW s \in Sides
               PROVE IF pong'[s] = NoPing THEN deadline'[s] <= ping'[s]
                     ELSE ping'[s] = pong'[s] /\ deadline'[s] <= PingPeriod + pong'[s]
    BY <1>14 DEF Tick
  <2>1. /\ s \in open /\ pong[s] # Delay
        /\ deadline'[s] = deadline[s] + 1 /\ ping'[s] = ping[s] + 1
        /\ pong'[s] = IF pong[s] = NoPing THEN NoPing ELSE pong[s] + 1
    BY <1>14 DEF TypeInv, LinkInv, Tick, Due
  <2>2. /\ deadline[s] \in Nat /\ ping[s] \in Nat /\ pong[s] \in 0..NoPing
    BY DEF TypeInv, TypeOK
  <2> QED BY <2>1, <2>2
<1>15. CASE UNCHANGED vars
  BY <1>15 DEF vars, sideVars
<1> QED BY <1>1, <1>2, <1>3, <1>4, <1>5, <1>6, <1>7, <1>8, <1>9, <1>10, <1>11, <1>12,
           <1>13, <1>14, <1>15 DEF Next

(* What the pings are for: if a pong arrives within the read deadline,      *)
(* counted from the ping before it, no read times out on a working link,    *)
(* however the two sides' tickers lie to each other.                        *)
THEOREM LiveConnectionCorrect ==
    ASSUME PingPeriod + Delay < PongWait
    PROVE  Spec => []LiveConnectionKept
<1>1. TypeInv /\ PingInv => LiveConnectionKept
  BY ConstantTypes DEF TypeInv, TypeOK, PingInv, LiveConnectionKept
<1>2. Spec => [](TypeInv /\ PingInv)
  BY TypeInit, TypeNext, PingInit, PingNext, PTL DEF Spec
<1> QED BY <1>1, <1>2, PTL

-----------------------------------------------------------------------------
(* Heartbeats and the sweep. *)

LEMMA HeardInit == Init => HeardInv /\ LiveAgentOnline
BY DEF Init, HeardInv, LiveAgentOnline

LEMMA HeardNext ==
    ASSUME PingPeriod + Delay <= AgentTimeout
    PROVE  TypeInv /\ PingInv /\ HeardInv /\ LiveAgentOnline /\ [Next]_vars
             => HeardInv' /\ LiveAgentOnline'
<1> SUFFICES ASSUME TypeInv, PingInv, HeardInv, LiveAgentOnline, [Next]_vars
             PROVE  HeardInv' /\ LiveAgentOnline'
  OBVIOUS
<1> USE ConstantTypes DEF HeardInv, LiveAgentOnline
<1>1. ASSUME NEW s \in Sides, Ping(s) PROVE HeardInv' /\ LiveAgentOnline'
  BY <1>1 DEF Ping, storeVars
<1>2. ASSUME NEW s \in Sides, Pong(s) PROVE HeardInv' /\ LiveAgentOnline'
  BY <1>2 DEF TypeInv, TypeOK, Pong
<1>3. ASSUME NEW s \in Sides, ReadTimesOut(s) PROVE HeardInv' /\ LiveAgentOnline'
  BY <1>3 DEF ReadTimesOut, Close
<1>4. CASE Report
  BY <1>4 DEF TypeInv, TypeOK, Sides, Report, sideVars
<1>5. CASE Unreachable
  BY <1>5 DEF Unreachable, sideVars, storeVars
<1>6. CASE Connect
  BY <1>6 DEF Sides, Connect
<1>7. CASE Rejected
  BY <1>7 DEF Rejected, sideVars, storeVars
<1>8. CASE Restart
  BY <1>8 DEF Restart, sideVars, storeVars
<1>9. CASE LinkFails
  BY <1>9 DEF LinkFails
<1>10. CASE NetworkBack
  BY <1>10 DEF NetworkBack, sideVars, storeVars
<1>11. CASE Sweep
  <2>1. linked => heard <= AgentTimeout
    BY DEF TypeInv, TypeOK, PingInv, Sides
  <2> QED BY <1>11, <2>1 DEF TypeInv, TypeOK, Sweep, sideVars
<1>12. CASE ServerRestarts
  BY <1>12 DEF ServerRestarts
<1>13. CASE InstallKey
  BY <1>13 DEF InstallKey, sideVars, storeVars
<1>14. CASE Tick
  <2>1. linked => deadline'["server"] = deadline["server"] + 1
    BY <1>14 DEF TypeInv, LinkInv, Sides, Tick
  <2>2. deadline["server"] \in Nat /\ heard \in Nat
    BY DEF TypeInv, TypeOK, Sides
  <2> QED BY <1>14, <2>1, <2>2 DEF Tick, Least
<1>15. CASE UNCHANGED vars
  BY <1>15 DEF vars, sideVars, storeVars
<1> QED BY <1>1, <1>2, <1>3, <1>4, <1>5, <1>6, <1>7, <1>8, <1>9, <1>10, <1>11, <1>12,
           <1>13, <1>14, <1>15 DEF Next

(* No sweep takes an agent with a working connection for stale, if a pong   *)
(* arrives within the agent timeout, counted from the ping before it.       *)
THEOREM LiveAgentCorrect ==
    ASSUME PingPeriod + Delay <= AgentTimeout
    PROVE  Spec => []LiveAgentOnline
<1>1. Spec => [](TypeInv /\ PingInv /\ HeardInv /\ LiveAgentOnline)
  BY TypeInit, TypeNext, PingInit, PingNext, HeardInit, HeardNext, PTL DEF Spec
<1> QED BY <1>1, PTL

LEMMA GoneInit == Init => BrokenInv /\ SweepInv
BY DEF Init, BrokenInv, SweepInv

LEMMA GoneNext ==
    TypeInv /\ BrokenInv /\ SweepInv /\ [Next]_vars => BrokenInv' /\ SweepInv'
<1> SUFFICES ASSUME TypeInv, BrokenInv, SweepInv, [Next]_vars
             PROVE  BrokenInv' /\ SweepInv'
  OBVIOUS
<1> USE ConstantTypes DEF BrokenInv, SweepInv
<1>1. ASSUME NEW s \in Sides, Ping(s) PROVE BrokenInv' /\ SweepInv'
  BY <1>1 DEF Ping, storeVars, histVars
<1>2. ASSUME NEW s \in Sides, Pong(s) PROVE BrokenInv' /\ SweepInv'
  BY <1>2 DEF TypeInv, TypeOK, Pong
<1>3. ASSUME NEW s \in Sides, ReadTimesOut(s) PROVE BrokenInv' /\ SweepInv'
  <2>1. /\ "server" \in open' => "server" \in open /\ ~linked
        /\ status' = "online" => status = "online"
        /\ UNCHANGED <<deadline, heard, sweep, histVars>>
    BY <1>3 DEF TypeInv, LinkInv, ReadTimesOut, Close
  <2> QED BY <2>1 DEF histVars
<1>4. CASE Report
  BY <1>4 DEF TypeInv, TypeOK, Report, sideVars
<1>5. CASE Unreachable
  BY <1>5 DEF Unreachable, sideVars, storeVars, histVars
<1>6. CASE Connect
  BY <1>6 DEF TypeInv, TypeOK, Connect
<1>7. CASE Rejected
  BY <1>7 DEF Rejected, sideVars, storeVars, histVars
<1>8. CASE Restart
  BY <1>8 DEF Restart, sideVars, storeVars, histVars
<1>9. CASE LinkFails
  BY <1>9 DEF TypeInv, TypeOK, Sides, LinkFails, storeVars
<1>10. CASE NetworkBack
  BY <1>10 DEF NetworkBack, sideVars, storeVars
<1>11. CASE Sweep
  BY <1>11 DEF TypeInv, TypeOK, Sweep, sideVars, histVars
<1>12. CASE ServerRestarts
  <2>1. "server" \notin open' /\ UNCHANGED status
    BY <1>12 DEF ServerRestarts
  <2>2. unheard' = 0 /\ heard' \in Nat /\ sweep' = 0
    BY <1>12 DEF TypeInv, TypeOK, ServerRestarts
  <2> QED BY <2>1, <2>2
<1>13. CASE InstallKey
  BY <1>13 DEF InstallKey, sideVars, storeVars, histVars
<1>14. CASE Tick
  <2>1. "server" \in open /\ ~linked =>
            deadline'["server"] = deadline["server"] + 1 /\ broken' <= broken + 1
    BY <1>14 DEF TypeInv, TypeOK, Sides, Tick, Least
  <2>2. deadline["server"] \in Nat /\ broken \in Nat /\ broken' \in Nat
    BY <1>14 DEF TypeInv, TypeOK, Sides, Tick, Least
  <2>3. BrokenInv'
    BY <1>14, <2>1, <2>2 DEF Tick
  <2>4. SweepInv'
    BY <1>14 DEF TypeInv, TypeOK, Tick, Least
  <2> QED BY <2>3, <2>4
<1>15. CASE UNCHANGED vars
  BY <1>15 DEF vars, sideVars, storeVars, histVars
<1> QED BY <1>1, <1>2, <1>3, <1>4, <1>5, <1>6, <1>7, <1>8, <1>9, <1>10, <1>11, <1>12,
           <1>13, <1>14, <1>15 DEF Next

(* How late the server finds out, whatever the timeouts are: a connection   *)
(* whose link fails keeps its agent online until the read deadline at most, *)
(* and no agent stays online that the server has not heard of for the agent *)
(* timeout and one period of the sweep, restarts included.                  *)
THEOREM GoneAgentCorrect == Spec => []GoneAgentOffline
<1>1. TypeInv /\ BrokenInv /\ SweepInv => GoneAgentOffline
  <2> SUFFICES ASSUME TypeInv, BrokenInv, SweepInv, status = "online"
               PROVE  /\ "server" \in open /\ ~linked => broken <= PongWait
                      /\ unheard <= AgentTimeout + SweepPeriod
    BY DEF GoneAgentOffline
  <2>1. deadline["server"] \in 0..PongWait /\ broken \in Nat
        /\ sweep \in 0..SweepPeriod /\ unheard \in Nat
    BY ConstantTypes DEF TypeInv, TypeOK, Sides
  <2> QED BY <2>1, ConstantTypes DEF BrokenInv, SweepInv
<1>2. Spec => [](TypeInv /\ BrokenInv /\ SweepInv)
  BY TypeInit, TypeNext, GoneInit, GoneNext, PTL DEF Spec
<1> QED BY <1>1, <1>2, PTL

-----------------------------------------------------------------------------
(* Reconnecting. *)

(* The delay that Backoff leaves, on top of the attempt that failed. *)
LEMMA BackoffDelay ==
    ASSUME TypeOK, NEW tried \in 0..AttemptTime, Backoff(tried)
    PROVE  \E w \in 0..(LongestWait + tried) : wait' = w
<1>1. current' \in 0..Limit
  BY BackoffType
<1>2. PICK d \in Jittered(current'), t \in 0..tried : wait' = d + t
  BY DEF Backoff
<1>3. d \in 0..LongestWait
  BY <1>1, <1>2, JitterBound
<1>4. d + t \in 0..(LongestWait + tried)
  BY <1>3, ConstantTypes
<1> QED BY <1>2, <1>4

LEMMA ApartInit == Init => ApartInv
BY ConstantTypes DEF Init, ApartInv

LEMMA ApartNext ==
    ASSUME AttemptTime <= PongWait, RestartSec <= LongestWait
    PROVE  TypeInv /\ ApartInv /\ [Next]_vars => ApartInv'
<1> SUFFICES ASSUME TypeInv, ApartInv, [Next]_vars PROVE ApartInv'
  OBVIOUS
<1> USE ConstantTypes DEF ApartInv
<1>0. /\ apart \in Nat /\ wait \in Nat /\ "agent" \in Sides /\ "server" \in Sides
      /\ \A s \in Sides : deadline[s] \in 0..PongWait
      /\ ReconnectTime = PongWait + LongestWait /\ open \in SUBSET Sides
  BY DEF TypeInv, TypeOK, ReconnectTime, Sides
<1>1. ASSUME NEW s \in Sides, Ping(s) PROVE ApartInv'
  BY <1>1 DEF Ping, agentVars, histVars
<1>2. ASSUME NEW s \in Sides, Pong(s) PROVE ApartInv'
  BY <1>0, <1>2 DEF TypeInv, TypeOK, Pong, agentVars
<1>3. ASSUME NEW s \in Sides, ReadTimesOut(s) PROVE ApartInv'
  <2>1. /\ open' \subseteq open /\ linked' = FALSE
        /\ UNCHANGED <<net, deadline, apart>>
        /\ apart <= PongWait /\ ~net => apart = 0
    BY <1>0, <1>3 DEF ReadTimesOut, Close, histVars
  <2>2. CASE "agent" \in open \ open'
    <3>1. Backoff(0)
      BY <1>3, <2>2 DEF ReadTimesOut, Close
    <3>2. PICK w \in 0..(LongestWait + 0) : wait' = w
      BY <3>1, BackoffDelay DEF TypeInv
    <3>3. process' = "waiting"
      BY <3>1 DEF Backoff
    <3> QED BY <1>0, <2>1, <2>2, <3>2, <3>3
  <2>3. CASE "agent" \notin open \ open'
    BY <1>0, <1>3, <2>1, <2>3 DEF ReadTimesOut, Close, agentVars
  <2> QED BY <2>2, <2>3
<1>4. CASE Report
  BY <1>4 DEF Report, sideVars, agentVars
<1>5. CASE Unreachable
  <2>1. PICK w \in 0..(LongestWait + AttemptTime) : wait' = w
    BY <1>5, BackoffDelay DEF TypeInv, Unreachable
  <2>2. process' = "waiting"
    BY <1>5 DEF Unreachable, Backoff
  <2> QED BY <1>0, <1>5, <2>1, <2>2 DEF Unreachable, sideVars, histVars
<1>6. CASE Connect
  BY <1>0, <1>6 DEF Connect
<1>7. CASE Rejected
  <2>1. apart <= PongWait
    BY <1>0, <1>7 DEF Rejected
  <2> QED BY <1>0, <1>7, <2>1 DEF Rejected, sideVars, histVars
<1>8. CASE Restart
  <2>1. /\ process = "exited" /\ wait = 0 /\ process' # "connected"
        /\ UNCHANGED <<open, linked, net, deadline, apart, key>>
    BY <1>8 DEF Restart, sideVars, histVars
  <2>2. CASE KeyVerified
    BY <1>0, <1>8, <2>1, <2>2 DEF Restart
  <2>3. CASE ~KeyVerified
    <3>1. PICK t \in 0..AttemptTime : wait' = RestartSec + t
      BY <1>8, <2>3 DEF Restart
    <3>2. apart = 0
      <4>1. key = "none" \/ key = "servers" \/ key = "other"
        BY DEF TypeInv, TypeOK
      <4> QED BY <2>1, <2>3, <4>1 DEF KeyVerified
    <3> QED BY <1>0, <2>1, <3>1, <3>2
  <2> QED BY <2>2, <2>3
<1>9. CASE LinkFails
  BY <1>0, <1>9 DEF LinkFails, agentVars
<1>10. CASE NetworkBack
  BY <1>0, <1>10 DEF NetworkBack, sideVars, agentVars
<1>11. CASE Sweep
  BY <1>11 DEF Sweep, sideVars, agentVars, histVars
<1>12. CASE ServerRestarts
  <2>1. /\ open' \subseteq open /\ linked' = FALSE /\ apart' = 0
        /\ UNCHANGED <<net, deadline>>
    BY <1>12 DEF ServerRestarts
  <2>2. CASE linked
    <3>1. open' = {} /\ Backoff(0)
      BY <1>12, <2>2 DEF ServerRestarts
    <3>2. PICK w \in 0..(LongestWait + 0) : wait' = w
      BY <3>1, BackoffDelay DEF TypeInv
    <3>3. process' = "waiting"
      BY <3>1 DEF Backoff
    <3> QED BY <1>0, <2>1, <3>1, <3>2, <3>3
  <2>3. CASE ~linked
    BY <1>0, <1>12, <2>1, <2>3 DEF ServerRestarts, agentVars
  <2> QED BY <2>2, <2>3
<1>13. CASE InstallKey
  BY <1>13 DEF InstallKey, sideVars, agentVars, histVars
<1>14. CASE Tick
  <2>1. \A s \in open : deadline'[s] = deadline[s] + 1
    BY <1>0, <1>14 DEF Tick
  <2>2. apart' \in Nat /\ apart' <= apart + 1 /\ (linked \/ ~net => apart' = 0)
    BY <1>0, <1>14 DEF Tick, Reachable, Least
  <2>3. process # "connected" => wait' = wait - 1 /\ wait' \in Nat
    BY <1>0, <1>14 DEF Tick, Due
  <2>4. process = "exited" /\ key = "other" => apart' = 0
    BY <1>14 DEF Tick, Reachable
  <2>5. UNCHANGED <<open, linked, net, process, key>>
    BY <1>14 DEF Tick
  <2> QED BY <1>0, <2>1, <2>2, <2>3, <2>4, <2>5
<1>15. CASE UNCHANGED vars
  BY <1>15 DEF vars, sideVars, agentVars, histVars
<1> QED BY <1>1, <1>2, <1>3, <1>4, <1>5, <1>6, <1>7, <1>8, <1>9, <1>10, <1>11, <1>12,
           <1>13, <1>14, <1>15 DEF Next

(* An agent comes back within the read deadline of whichever side holds the *)
(* old connection longest and one delay of its backoff, for all periods: a  *)
(* rejected process that exits loses nothing, nor does one that the server  *)
(* has shut out by a new key, counted from the moment at which its own key  *)
(* is replaced. That holds provided an attempt to dial or to fetch the key  *)
(* fails within the read deadline and systemd does not wait longer than the *)
(* backoff does.                                                            *)
THEOREM ReconnectCorrect ==
    ASSUME AttemptTime <= PongWait, RestartSec <= LongestWait
    PROVE  Spec => []ReconnectsInTime
<1>1. TypeInv /\ ApartInv => ReconnectsInTime
  <2> SUFFICES ASSUME TypeInv, ApartInv PROVE apart <= ReconnectTime
    BY DEF ReconnectsInTime
  <2>1. /\ apart \in Nat /\ wait \in Nat /\ ReconnectTime = PongWait + LongestWait
        /\ "agent" \in open => deadline["agent"] \in 0..PongWait
    BY DEF TypeInv, TypeOK, Sides, ReconnectTime
  <2> QED BY <2>1, ConstantTypes DEF ApartInv
<1>2. Spec => [](TypeInv /\ ApartInv)
  BY TypeInit, TypeNext, ApartInit, ApartNext, PTL DEF Spec
<1> QED BY <1>1, <1>2, PTL
=============================================================================
