------------------------- MODULE AgentClient_proofs -------------------------
(* What the agent's goroutines keep in step on each connection, and what    *)
(* each of their steps does to the tasks that the server still has to hear  *)
(* of. Delivery_proofs combines these facts with those about the hub.       *)
EXTENDS AgentClient, QueueCounts, SequenceTheorems, TLAPS

(* Every step of the agent, whoever takes the other half of it. *)
ClientNext ==
    \/ \E c \in Conns : \/ Dial(c) \/ (\E t \in Tasks : Receive(c, t) \/ Drop(c, t))
                        \/ Disconnected(c) \/ Rejected(c) \/ Execute(c) \/ Transmit(c)
                        \/ TransmitIntoVoid(c) \/ PingFails(c)
    \/ Terminate \/ ServiceRestart

(* Running and final reports take turns. *)
Alternates(s) ==
    \A i \in 1..Len(s) : s[i][2] = "running" <=> (i + FirstFinal(s)) % 2 = 1

(* A running report is followed by one on the same task. *)
Paired(s) ==
    \A i \in 1..(Len(s) - 1) : s[i][2] = "running" => s[i + 1][1] = s[i][1]

Executing(c) == executor[c] \in {"run", "report"}

(* The last report that waits is the running one of the task in hand while  *)
(* its script has been started, and otherwise a final one.                  *)
EndsInHand(c) ==
    LET s == send[c] IN
    s # <<>> => IF Executing(c) THEN s[Len(s)] = <<hand[c], "running">>
                ELSE s[Len(s)][2] # "running"

(* A connection that was never dialed has left no trace. *)
Untouched(c) ==
    executor[c] = "none" => /\ taskCh[c] = <<>> /\ send[c] = <<>>
                            /\ sender[c] = "none"
                            /\ \A t \in Tasks : starts[c][t] = 0

(* What is reported on was started on this connection. *)
ReportsStarted(c) ==
    /\ \A i \in 1..Len(send[c]) : starts[c][send[c][i][1]] > 0
    /\ Executing(c) => starts[c][hand[c]] > 0

ExecutorInv(c) ==
    /\ hand[c] = NoTask <=> executor[c] \in {"none", "wait", "gone"}
    /\ Alternates(send[c]) /\ Paired(send[c])
    /\ EndsInHand(c) /\ Untouched(c) /\ ReportsStarted(c)

(* Connect reads from a connection that it has dialed. *)
LoopInv ==
    /\ live # NoConn => main = "read" /\ executor[live] # "none"
    /\ main # "read" => live = NoConn

ClientInv == ClientTypeOK /\ LoopInv /\ \A c \in Conns : ExecutorInv(c)

(* What the proofs need to know of the constants. *)
ClientConstants ==
    NoConn \notin Conns /\ NoTask \notin Tasks /\ "running" \notin Outcomes

-----------------------------------------------------------------------------
(* Queues that are read one after the other. *)

LEMMA ConcatTasks ==
    \A s, t, u \in Seq(Tasks) : s \o t \in Seq(Tasks) /\ (s \o t) \o u = s \o (t \o u)
BY ConcatProperties, ConcatAssociative

LEMMA ConcatAppend ==
    \A s, t \in Seq(Tasks) : \A e \in Tasks : s \o Append(t, e) = Append(s \o t, e)
<1> SUFFICES ASSUME NEW s \in Seq(Tasks), NEW t \in Seq(Tasks), NEW e \in Tasks
             PROVE  s \o Append(t, e) = Append(s \o t, e)
  OBVIOUS
<1> DEFINE u == s \o Append(t, e)
           v == Append(s \o t, e)
<1>1. u \in Seq(Tasks) /\ v \in Seq(Tasks) /\ Len(u) = Len(v)
  OBVIOUS
<1>2. \A i \in 1..Len(u) : u[i] = v[i]
  OBVIOUS
<1> HIDE DEF u, v
<1>3. u = v
  BY <1>1, <1>2, SeqEqual
<1> QED BY <1>3 DEF u, v

LEMMA AppendConcat ==
    ASSUME NEW T, NEW s \in Seq(T), NEW e \in T
    PROVE  Append(s, e) = s \o <<e>>
<1>1. <<e>> \in Seq(T) /\ Append(s, e) \in Seq(T) /\ s \o <<e>> \in Seq(T)
      /\ Len(Append(s, e)) = Len(s \o <<e>>)
      /\ \A i \in 1..Len(Append(s, e)) : Append(s, e)[i] = (s \o <<e>>)[i]
  OBVIOUS
<1> QED BY <1>1, SeqEqual

LEMMA HeadAppended ==
    \A s \in Seq(Reports) : \A e \in Reports :
        Append(s, e) # <<>> /\ Head(Append(s, e)) = IF s = <<>> THEN e ELSE Head(s)
<1> SUFFICES ASSUME NEW s \in Seq(Reports), NEW e \in Reports
             PROVE  /\ Append(s, e) # <<>>
                    /\ Head(Append(s, e)) = IF s = <<>> THEN e ELSE Head(s)
  OBVIOUS
<1>1. Len(Append(s, e)) = Len(s) + 1 /\ Len(s) \in Nat /\ Append(s, e) \in Seq(Reports)
  OBVIOUS
<1>2. CASE s = <<>>
  BY <1>1, <1>2
<1>3. CASE s # <<>>
  <2>1. 1 \in 1..Len(s)
    BY <1>1, <1>3
  <2> QED BY <1>1, <1>3, <2>1
<1> QED BY <1>2, <1>3

LEMMA ConcatHead ==
    ASSUME NEW T, NEW s \in Seq(T), NEW t \in Seq(T), s # <<>>
    PROVE  s \o t # <<>> /\ Head(s \o t) = Head(s) /\ Tail(s \o t) = Tail(s) \o t
<1> DEFINE u == Tail(s \o t)
           v == Tail(s) \o t
<1>1. /\ s \o t \in Seq(T) /\ Len(s \o t) = Len(s) + Len(t) /\ Len(s) \in Nat \ {0}
      /\ Len(t) \in Nat /\ (s \o t)[1] = s[1]
  OBVIOUS
<1>2. s \o t # <<>> /\ Head(s \o t) = Head(s)
  BY <1>1
<1>3. u \in Seq(T) /\ v \in Seq(T) /\ Len(u) = Len(v)
  BY <1>1, <1>2
<1>4. \A i \in 1..Len(u) : u[i] = v[i]
  BY <1>1, <1>2
<1> HIDE DEF u, v
<1>5. u = v
  BY <1>3, <1>4, SeqEqual
<1> QED BY <1>2, <1>5 DEF u, v

LEMMA HeadConcatTail ==
    ASSUME NEW T, NEW q \in Seq(T), q # <<>>
    PROVE  q = <<Head(q)>> \o Tail(q)
<1> DEFINE u == <<Head(q)>> \o Tail(q)
<1>1. <<Head(q)>> \in Seq(T) /\ Tail(q) \in Seq(T) /\ Len(Tail(q)) = Len(q) - 1
      /\ Len(q) \in Nat \ {0}
  OBVIOUS
<1>2. u \in Seq(T) /\ Len(u) = Len(q)
  BY <1>1
<1>3. \A i \in 1..Len(q) : q[i] = u[i]
  BY <1>1
<1> HIDE DEF u
<1>4. u = q
  BY <1>2, <1>3, SeqEqual
<1> QED BY <1>4 DEF u

-----------------------------------------------------------------------------
(* Sequences of reports: what a new report, or the first one leaving, does   *)
(* to the order, and to the tasks of the final reports.                     *)

LEMMA AlternatesAppend ==
    ASSUME NEW s \in Seq(Reports), NEW e \in Reports, Alternates(s),
           s # <<>> => (e[2] = "running" <=> s[Len(s)][2] # "running")
    PROVE  Alternates(Append(s, e))
<1> DEFINE p == Append(s, e)
<1>1. /\ Len(s) \in Nat /\ Len(p) = Len(s) + 1 /\ p[Len(s) + 1] = e
      /\ \A i \in 1..Len(s) : p[i] = s[i]
  OBVIOUS
<1>2. CASE s = <<>>
  <2>1. Len(p) = 1 /\ p[1] = e /\ p # <<>>
    BY <1>1, <1>2
  <2> HIDE DEF p
  <2> QED BY <2>1 DEF Alternates, FirstFinal
<1>3. CASE s # <<>>
  <2>1. FirstFinal(p) = FirstFinal(s) /\ FirstFinal(s) \in {1, 2}
    BY <1>1, <1>3 DEF FirstFinal
  <2>2. s[Len(s)][2] = "running" <=> (Len(s) + FirstFinal(s)) % 2 = 1
    BY <1>1, <1>3 DEF Alternates
  <2>3. e[2] = "running" <=> (Len(s) + 1 + FirstFinal(s)) % 2 = 1
    BY <1>1, <1>3, <2>1, <2>2, SMTT(30)
  <2>4. Alternates(p)
    <3> SUFFICES ASSUME NEW i \in 1..Len(p)
                 PROVE  p[i][2] = "running" <=> (i + FirstFinal(p)) % 2 = 1
      BY DEF Alternates
    <3>1. i \in 1..Len(s) \/ i = Len(s) + 1
      BY <1>1
    <3> HIDE DEF p
    <3>2. CASE i \in 1..Len(s)
      BY <1>1, <2>1, <3>2 DEF Alternates
    <3> QED BY <1>1, <2>1, <2>3, <3>1, <3>2
  <2> QED BY <2>4
<1> QED BY <1>2, <1>3

LEMMA AlternatesTail ==
    ASSUME NEW s \in Seq(Reports), s # <<>>, Alternates(s)
    PROVE  /\ Alternates(Tail(s))
           /\ Tail(s) # <<>> => (Head(Tail(s))[2] = "running" <=> Head(s)[2] # "running")
<1> DEFINE p == Tail(s)
<1>1. /\ Len(s) \in Nat \ {0} /\ Len(p) = Len(s) - 1 /\ Head(s) = s[1]
      /\ \A i \in 1..(Len(s) - 1) : p[i] = s[i + 1]
  OBVIOUS
<1>0. p # <<>> => Len(p) > 0 /\ Head(p) = p[1]
  <2>1. p \in Seq(Reports)
    OBVIOUS
  <2> HIDE DEF p
  <2> QED BY <2>1
<1>2. FirstFinal(s) \in {1, 2} /\ (s[1][2] = "running" <=> FirstFinal(s) = 2)
  BY DEF FirstFinal
<1> HIDE DEF p
<1>3. p # <<>> => FirstFinal(p) = 3 - FirstFinal(s) /\ (p[1][2] = "running" <=> s[1][2] # "running")
  <2> SUFFICES ASSUME p # <<>>
               PROVE  FirstFinal(p) = 3 - FirstFinal(s) /\ (p[1][2] = "running" <=> s[1][2] # "running")
    OBVIOUS
  <2>1. 2 \in 1..Len(s) /\ p[1] = s[2]
    BY <1>0, <1>1
  <2>2. s[2][2] = "running" <=> (2 + FirstFinal(s)) % 2 = 1
    BY <2>1 DEF Alternates
  <2>3. p[1][2] = "running" <=> s[1][2] # "running"
    BY <1>2, <2>1, <2>2
  <2> QED BY <1>2, <2>3 DEF FirstFinal
<1>4. Alternates(p)
  <2> SUFFICES ASSUME NEW i \in 1..Len(p)
               PROVE  p[i][2] = "running" <=> (i + FirstFinal(p)) % 2 = 1
    BY DEF Alternates
  <2>1. p[i] = s[i + 1] /\ i + 1 \in 1..Len(s)
    BY <1>1
  <2>2. p[i][2] = "running" <=> (i + 1 + FirstFinal(s)) % 2 = 1
    BY <2>1 DEF Alternates
  <2>3. FirstFinal(p) = 3 - FirstFinal(s) /\ i \in Nat
    BY <1>1, <1>3
  <2> QED BY <1>2, <2>2, <2>3
<1> QED BY <1>0, <1>1, <1>3, <1>4 DEF p
(* The tasks of the final reports, position by position. *)
LEMMA FinalTasksType ==
    ASSUME NEW s \in Seq(Reports)
    PROVE  /\ FinalTasks(s) \in Seq(Tasks)
           /\ Len(FinalTasks(s)) = (Len(s) + 2 - FirstFinal(s)) \div 2
           /\ \A i \in 1..Len(FinalTasks(s)) :
                 /\ FirstFinal(s) + 2 * i - 2 \in 1..Len(s)
                 /\ FinalTasks(s)[i] = s[FirstFinal(s) + 2 * i - 2][1]
<1> DEFINE n == (Len(s) + 2 - FirstFinal(s)) \div 2
           at(i) == FirstFinal(s) + 2 * i - 2
<1>1. Len(s) \in Nat /\ FirstFinal(s) \in {1, 2} /\ (s = <<>> => FirstFinal(s) = 2)
  BY DEF FirstFinal
<1>2. n \in Nat
  BY <1>1
<1>3. ASSUME NEW i \in 1..n PROVE at(i) \in 1..Len(s) /\ s[at(i)][1] \in Tasks
  <2>1. at(i) \in 1..Len(s)
    BY <1>1, <1>3
  <2> HIDE DEF at
  <2> QED BY <2>1 DEF Reports
<1>4. FinalTasks(s) = [i \in 1..n |-> s[at(i)][1]]
  BY DEF FinalTasks
<1> HIDE DEF n, at
<1>5. FinalTasks(s) \in Seq(Tasks) /\ Len(FinalTasks(s)) = n
  BY <1>2, <1>3, <1>4
<1>6. \A i \in 1..n : at(i) \in 1..Len(s) /\ FinalTasks(s)[i] = s[at(i)][1]
  BY <1>3, <1>4
<1> QED BY <1>5, <1>6 DEF n, at

LEMMA FinalTasksEmpty == FinalTasks(<<>>) = <<>>
<1>1. Len(FinalTasks(<<>>)) = 0 /\ FinalTasks(<<>>) \in Seq(Tasks)
  <2>1. <<>> \in Seq(Reports) /\ Len(<<>>) = 0 /\ FirstFinal(<<>>) = 2
    BY DEF FirstFinal
  <2>2. FinalTasks(<<>>) \in Seq(Tasks) /\ Len(FinalTasks(<<>>)) = (0 + 2 - 2) \div 2
    BY <2>1, FinalTasksType
  <2> QED BY <2>2
<1> QED BY <1>1

(* A running report adds no task, a final one adds its own. *)
LEMMA FinalTasksAppend ==
    ASSUME NEW s \in Seq(Reports), NEW e \in Reports, Alternates(s),
           s # <<>> => (e[2] = "running" <=> s[Len(s)][2] # "running")
    PROVE  FinalTasks(Append(s, e)) =
               IF e[2] = "running" THEN FinalTasks(s) ELSE Append(FinalTasks(s), e[1])
<1> DEFINE p == Append(s, e)
           f == FinalTasks(s)
           g == FinalTasks(p)
           h == IF e[2] = "running" THEN f ELSE Append(f, e[1])
<1>1. /\ Len(s) \in Nat /\ Len(p) = Len(s) + 1 /\ p[Len(s) + 1] = e /\ p \in Seq(Reports)
      /\ \A i \in 1..Len(s) : p[i] = s[i]
      /\ p # <<>>
  OBVIOUS
<1>2. /\ FirstFinal(p) \in {1, 2} /\ FirstFinal(s) \in {1, 2}
      /\ s # <<>> => FirstFinal(p) = FirstFinal(s)
      /\ s = <<>> => /\ FirstFinal(s) = 2 /\ Len(s) = 0
                     /\ FirstFinal(p) = IF e[2] = "running" THEN 2 ELSE 1
  BY <1>1 DEF FirstFinal
<1>3. s # <<>> => (e[2] = "running" <=> (Len(s) + FirstFinal(s)) % 2 # 1)
  BY <1>1 DEF Alternates
<1> HIDE DEF p
<1>4. /\ f \in Seq(Tasks) /\ Len(f) = (Len(s) + 2 - FirstFinal(s)) \div 2
      /\ \A i \in 1..Len(f) : /\ FirstFinal(s) + 2 * i - 2 \in 1..Len(s)
                              /\ f[i] = s[FirstFinal(s) + 2 * i - 2][1]
  BY FinalTasksType
<1>5. /\ g \in Seq(Tasks) /\ Len(g) = (Len(s) + 3 - FirstFinal(p)) \div 2
      /\ \A i \in 1..Len(g) : /\ FirstFinal(p) + 2 * i - 2 \in 1..(Len(s) + 1)
                              /\ g[i] = p[FirstFinal(p) + 2 * i - 2][1]
  <2>1. /\ g \in Seq(Tasks) /\ Len(g) = (Len(p) + 2 - FirstFinal(p)) \div 2
        /\ \A i \in 1..Len(g) : /\ FirstFinal(p) + 2 * i - 2 \in 1..Len(p)
                                /\ g[i] = p[FirstFinal(p) + 2 * i - 2][1]
    BY <1>1, FinalTasksType
  <2> QED BY <1>1, <1>2, <2>1
<1> HIDE DEF f, g
<1>6. e[1] \in Tasks
  BY DEF Reports
<1>9. ASSUME NEW i \in 1..Len(f), i \in 1..Len(g) PROVE g[i] = f[i]
  <2> DEFINE k == FirstFinal(s) + 2 * i - 2
  <2>1. k \in 1..Len(s) /\ f[i] = s[k][1]
    BY <1>4
  <2>2. s # <<>>
    BY <1>1, <1>2, <2>1
  <2>3. g[i] = p[k][1]
    BY <1>2, <1>5, <1>9, <2>2
  <2> HIDE DEF k
  <2> QED BY <1>1, <2>1, <2>3
<1>7. CASE e[2] = "running"
  <2>1. Len(g) = Len(f)
    BY <1>1, <1>2, <1>3, <1>4, <1>5, <1>7, SMTT(30)
  <2>2. ASSUME NEW i \in 1..Len(f) PROVE g[i] = f[i]
    BY <1>9, <2>1
  <2>3. g = f
    BY <1>4, <1>5, <2>1, <2>2, SeqEqual
  <2> QED BY <1>7, <2>3 DEF f, g, p
<1>8. CASE e[2] # "running"
  <2>1. Len(g) = Len(f) + 1 /\ FirstFinal(p) + 2 * Len(g) - 2 = Len(s) + 1
    <3>1. CASE s = <<>>
      BY <1>1, <1>2, <1>4, <1>5, <1>8, <3>1
    <3>2. CASE s # <<>>
      <4>1. (Len(s) + FirstFinal(s)) % 2 = 1 /\ FirstFinal(p) = FirstFinal(s)
        BY <1>1, <1>2, <1>3, <1>8, <3>2
      <4>2. Len(g) = (Len(s) + 3 - FirstFinal(s)) \div 2
        BY <1>5, <4>1
      <4>3. Len(f) = (Len(s) + 2 - FirstFinal(s)) \div 2
        BY <1>4
      <4>4. FirstFinal(s) \in {1, 2} /\ Len(s) \in Nat
        BY <1>1, <1>2
      <4>5. CASE FirstFinal(s) = 1
        BY <4>1, <4>2, <4>3, <4>4, <4>5, SMTT(30)
      <4>6. CASE FirstFinal(s) = 2
        BY <4>1, <4>2, <4>3, <4>4, <4>6
      <4> QED BY <4>4, <4>5, <4>6
    <3> QED BY <3>1, <3>2
  <2>2. g[Len(g)] = e[1]
    <3>1. Len(g) \in 1..Len(g) /\ Len(f) \in Nat
      BY <1>4, <1>5, <2>1
    <3>2. g[Len(g)] = p[Len(s) + 1][1]
      BY <1>5, <2>1, <3>1
    <3> QED BY <1>1, <3>2
  <2>3. ASSUME NEW i \in 1..Len(f) PROVE g[i] = f[i]
    BY <1>4, <1>9, <2>1
  <2>4. /\ Append(f, e[1]) \in Seq(Tasks) /\ Len(Append(f, e[1])) = Len(f) + 1
        /\ Append(f, e[1])[Len(f) + 1] = e[1]
        /\ \A i \in 1..Len(f) : Append(f, e[1])[i] = f[i]
    BY <1>4, <1>6
  <2>5. ASSUME NEW i \in 1..Len(g) PROVE g[i] = Append(f, e[1])[i]
    <3>1. i \in 1..Len(f) \/ i = Len(g)
      BY <1>4, <2>1
    <3> QED BY <2>1, <2>2, <2>3, <2>4, <3>1
  <2>6. g = Append(f, e[1])
    <3>1. Len(g) = Len(Append(f, e[1]))
      BY <2>1, <2>4
    <3> QED BY <1>5, <2>4, <2>5, <3>1, SeqEqual
  <2> QED BY <1>8, <2>6 DEF f, g, p
<1> QED BY <1>7, <1>8

(* When a final report leaves, its task was the first. *)
LEMMA FinalTasksTail ==
    ASSUME NEW s \in Seq(Reports), s # <<>>, Alternates(s)
    PROVE  IF Head(s)[2] = "running" THEN FinalTasks(Tail(s)) = FinalTasks(s)
           ELSE /\ FinalTasks(s) # <<>> /\ Head(FinalTasks(s)) = Head(s)[1]
                /\ FinalTasks(Tail(s)) = Tail(FinalTasks(s))
<1> DEFINE p == Tail(s)
           f == FinalTasks(s)
           g == FinalTasks(p)
<1>1. /\ Len(s) \in Nat \ {0} /\ Len(p) = Len(s) - 1 /\ Head(s) = s[1] /\ p \in Seq(Reports)
      /\ \A i \in 1..(Len(s) - 1) : p[i] = s[i + 1]
  OBVIOUS
<1>2. /\ FirstFinal(s) \in {1, 2} /\ (s[1][2] = "running" <=> FirstFinal(s) = 2)
      /\ p # <<>> => FirstFinal(p) = 3 - FirstFinal(s)
      /\ p = <<>> => FirstFinal(p) = 2 /\ Len(p) = 0
      /\ p # <<>> => Len(p) > 0
  <2>1. p # <<>> => (Head(p)[2] = "running" <=> s[1][2] # "running")
    BY <1>1, AlternatesTail
  <2>2. p # <<>> => Head(p) = p[1] /\ Len(p) > 0
    <3> HIDE DEF p
    <3> QED BY <1>1
  <2>3. /\ FirstFinal(s) \in {1, 2} /\ (s[1][2] = "running" <=> FirstFinal(s) = 2)
        /\ p = <<>> => FirstFinal(p) = 2
        /\ p # <<>> => (FirstFinal(p) = IF p[1][2] = "running" THEN 2 ELSE 1)
    <3> HIDE DEF p
    <3> QED BY DEF FirstFinal
  <2>4. p = <<>> => Len(p) = 0
    <3> HIDE DEF p
    <3> QED OBVIOUS
  <2> HIDE DEF p
  <2> QED BY <2>1, <2>2, <2>3, <2>4
<1> HIDE DEF p
<1>3. /\ f \in Seq(Tasks) /\ Len(f) = (Len(s) + 2 - FirstFinal(s)) \div 2
      /\ \A i \in 1..Len(f) : /\ FirstFinal(s) + 2 * i - 2 \in 1..Len(s)
                              /\ f[i] = s[FirstFinal(s) + 2 * i - 2][1]
  BY FinalTasksType
<1>4. /\ g \in Seq(Tasks) /\ Len(g) = (Len(s) + 1 - FirstFinal(p)) \div 2
      /\ \A i \in 1..Len(g) : /\ FirstFinal(p) + 2 * i - 2 \in 1..(Len(s) - 1)
                              /\ g[i] = s[FirstFinal(p) + 2 * i - 1][1]
  <2>1. /\ g \in Seq(Tasks) /\ Len(g) = (Len(p) + 2 - FirstFinal(p)) \div 2
        /\ \A i \in 1..Len(g) : /\ FirstFinal(p) + 2 * i - 2 \in 1..Len(p)
                                /\ g[i] = p[FirstFinal(p) + 2 * i - 2][1]
    BY <1>1, FinalTasksType
  <2>2. FirstFinal(p) \in {1, 2}
    BY DEF FirstFinal
  <2>3. Len(g) = (Len(s) + 1 - FirstFinal(p)) \div 2
    BY <1>1, <2>1, <2>2
  <2>4. ASSUME NEW i \in 1..Len(g) PROVE g[i] = s[FirstFinal(p) + 2 * i - 1][1]
    <3> DEFINE k == FirstFinal(p) + 2 * i - 2
    <3>1. k \in 1..Len(p) /\ g[i] = p[k][1] /\ k + 1 = FirstFinal(p) + 2 * i - 1
      BY <2>1, <2>2
    <3> HIDE DEF k
    <3>2. p[k] = s[k + 1]
      BY <1>1, <3>1
    <3> QED BY <3>1, <3>2
  <2> QED BY <1>1, <2>1, <2>3, <2>4
<1> HIDE DEF f, g
<1>5. CASE s[1][2] = "running"
  <2>1. Len(g) = Len(f)
    BY <1>1, <1>2, <1>3, <1>4, <1>5
  <2>2. ASSUME NEW i \in 1..Len(g) PROVE g[i] = f[i]
    <3>1. p # <<>>
      BY <1>1, <1>2, <1>4
    <3>2. FirstFinal(s) = 2 /\ FirstFinal(p) = 1
      BY <1>2, <1>5, <3>1
    <3>3. g[i] = s[1 + 2 * i - 1][1] /\ f[i] = s[2 + 2 * i - 2][1] /\ i \in Nat
      BY <1>3, <1>4, <2>1, <3>2
    <3>4. 1 + 2 * i - 1 = 2 + 2 * i - 2
      BY <3>3
    <3> QED BY <3>3, <3>4
  <2>3. g = f
    BY <1>3, <1>4, <2>1, <2>2, SeqEqual
  <2> QED BY <1>1, <1>5, <2>3 DEF f, g, p
<1>6. CASE s[1][2] # "running"
  <2>1. Len(f) = Len(g) + 1 /\ f[1] = s[1][1]
    <3>1. FirstFinal(s) = 1 /\ (p # <<>> => FirstFinal(p) = 2)
      BY <1>2, <1>6
    <3>2. Len(f) = (Len(s) + 1) \div 2
      BY <1>1, <1>3, <3>1
    <3>3. 1 \in 1..Len(f)
      BY <1>1, <3>2
    <3>4. f[1] = s[1 + 2 * 1 - 2][1]
      BY <1>3, <3>1, <3>3
    <3>5. Len(g) = (Len(s) - 1) \div 2
      BY <1>1, <1>2, <1>4, <3>1
    <3> QED BY <1>1, <3>2, <3>4, <3>5
  <2>2. /\ f # <<>> /\ Head(f) = f[1] /\ Tail(f) \in Seq(Tasks) /\ Len(Tail(f)) = Len(g)
        /\ \A i \in 1..Len(g) : Tail(f)[i] = f[i + 1]
    BY <1>3, <1>4, <2>1
  <2>3. ASSUME NEW i \in 1..Len(g) PROVE g[i] = Tail(f)[i]
    <3>1. p # <<>>
      BY <1>1, <1>2, <1>4
    <3>2. f[i + 1] = s[2 * i + 1][1] /\ g[i] = s[2 * i + 1][1]
      <4>1. FirstFinal(s) = 1 /\ FirstFinal(p) = 2 /\ i \in Nat /\ i + 1 \in 1..Len(f)
        <5>1. FirstFinal(s) = 1 /\ FirstFinal(p) = 2
          BY <1>2, <1>6, <3>1
        <5>2. Len(g) \in Nat
          BY <1>4
        <5> QED BY <2>1, <5>1, <5>2
      <4>2. f[i + 1] = s[1 + 2 * (i + 1) - 2][1] /\ g[i] = s[2 + 2 * i - 1][1]
        BY <1>3, <1>4, <4>1
      <4>3. 1 + 2 * (i + 1) - 2 = 2 * i + 1 /\ 2 + 2 * i - 1 = 2 * i + 1
        BY <4>1
      <4> QED BY <4>2, <4>3
    <3> QED BY <2>2, <3>2
  <2>4. g = Tail(f)
    BY <1>4, <2>2, <2>3, SeqEqual
  <2> QED BY <1>1, <1>6, <2>1, <2>2, <2>4 DEF f, g, p
<1> QED BY <1>5, <1>6

-----------------------------------------------------------------------------
(* Every step of the agent keeps these facts. *)

LEMMA ClientInit == ASSUME ClientConstants PROVE Init => ClientInv
<1> SUFFICES ASSUME Init PROVE ClientInv
  OBVIOUS
<1> USE DEF ClientConstants, Init
<1>1. ClientTypeOK
  BY DEF ClientTypeOK
<1>2. LoopInv
  BY DEF LoopInv
<1>3. ASSUME NEW c \in Conns PROVE ExecutorInv(c)
  <2>1. send[c] = <<>> /\ Len(send[c]) = 0
    OBVIOUS
  <2>2. Alternates(send[c]) /\ Paired(send[c]) /\ EndsInHand(c)
    BY <2>1 DEF Alternates, Paired, EndsInHand
  <2>3. Untouched(c) /\ ReportsStarted(c)
    BY <2>1 DEF Untouched, ReportsStarted, Executing
  <2> QED BY <2>2, <2>3 DEF ExecutorInv
<1> QED BY <1>1, <1>2, <1>3 DEF ClientInv

LEMMA ClientTypeStep ==
    ASSUME ClientConstants PROVE ClientInv /\ [ClientNext]_clientVars => ClientTypeOK'
<1> SUFFICES ASSUME ClientInv, [ClientNext]_clientVars PROVE ClientTypeOK'
  OBVIOUS
<1> USE DEF ClientInv, ClientTypeOK, ClientConstants
<1>1. ASSUME NEW c \in Conns, Dial(c) PROVE ClientTypeOK'
  BY <1>1 DEF Dial
<1>2. ASSUME NEW c \in Conns, NEW t \in Tasks, Receive(c, t) \/ Drop(c, t) PROVE ClientTypeOK'
  <2>1. CASE Receive(c, t)
    BY <2>1 DEF Receive
  <2>2. CASE Drop(c, t)
    BY <2>2 DEF Drop, clientVars
  <2> QED BY <1>2, <2>1, <2>2
<1>3. ASSUME NEW c \in Conns, Disconnected(c) PROVE ClientTypeOK'
  BY <1>3 DEF Disconnected
<1>4. ASSUME ProcessEnds, main' \in {"exited", "stopped"} PROVE ClientTypeOK'
  BY <1>4 DEF ProcessEnds
<1>5. CASE ServiceRestart
  BY <1>5 DEF ServiceRestart
<1>6. ASSUME NEW c \in Conns, Take(c) PROVE ClientTypeOK'
  <2>1. Head(taskCh[c]) \in Tasks /\ Tail(taskCh[c]) \in Seq(Tasks)
    BY <1>6 DEF Take
  <2> QED BY <1>6, <2>1 DEF Take
<1>7. ASSUME NEW c \in Conns, Announce(c) PROVE ClientTypeOK'
  <2>1. hand[c] \in Tasks
    BY <1>7 DEF Announce, ExecutorInv
  <2>2. send' \in [Conns -> Seq(Reports)]
    <3>1. <<hand[c], "running">> \in Reports
      BY <2>1 DEF Reports
    <3> QED BY <1>7, <3>1 DEF Announce
  <2>3. starts' \in [Conns -> [Tasks -> Nat]]
    BY <1>7, <2>1 DEF Announce
  <2> QED BY <1>7, <2>2, <2>3 DEF Announce
<1>8. ASSUME NEW c \in Conns, ScriptEnds(c) \/ ExecutorEnds(c) PROVE ClientTypeOK'
  BY <1>8 DEF ScriptEnds, ExecutorEnds
<1>9. ASSUME NEW c \in Conns, NEW s \in Outcomes, Report(c, s) PROVE ClientTypeOK'
  <2>1. hand[c] \in Tasks
    BY <1>9 DEF Report, ExecutorInv
  <2>2. send' \in [Conns -> Seq(Reports)]
    <3>1. <<hand[c], s>> \in Reports
      BY <2>1 DEF Reports
    <3> QED BY <1>9, <3>1 DEF Report
  <2> QED BY <1>9, <2>2 DEF Report
<1>10. ASSUME NEW c \in Conns, Transmit(c) PROVE ClientTypeOK'
  BY <1>10 DEF Transmit
<1>11. ASSUME NEW c \in Conns, TransmitIntoVoid(c) PROVE ClientTypeOK'
  <2>1. send' \in [Conns -> Seq(Reports)]
    BY <1>11 DEF TransmitIntoVoid
  <2>2. sender' \in [Conns -> {"none", "run", "stopped"}]
    BY <1>11 DEF TransmitIntoVoid
  <2> QED BY <1>11, <2>1, <2>2 DEF TransmitIntoVoid
<1>12. ASSUME NEW c \in Conns, PingFails(c) PROVE ClientTypeOK'
  BY <1>12 DEF PingFails
<1>13. CASE UNCHANGED clientVars
  BY <1>13 DEF clientVars
<1> QED
  BY <1>1, <1>2, <1>3, <1>4, <1>5, <1>6, <1>7, <1>8, <1>9, <1>10, <1>11, <1>12, <1>13
  DEF ClientNext, Execute, Rejected, Terminate

LEMMA LoopStep ==
    ASSUME ClientConstants PROVE ClientInv /\ [ClientNext]_clientVars => LoopInv'
<1> SUFFICES ASSUME ClientInv, [ClientNext]_clientVars PROVE LoopInv'
  OBVIOUS
<1> USE DEF ClientInv, ClientTypeOK, ClientConstants, LoopInv
<1>1. CASE UNCHANGED <<main, live, executor>>
  BY <1>1
<1>2. ASSUME NEW c \in Conns, Dial(c) PROVE LoopInv'
  BY <1>2 DEF Dial
<1>3. ASSUME NEW c \in Conns, Disconnected(c) PROVE LoopInv'
  BY <1>3 DEF Disconnected
<1>4. CASE ProcessEnds \/ ServiceRestart
  BY <1>4 DEF ProcessEnds, ServiceRestart
<1>5. ASSUME NEW c \in Conns, Execute(c) PROVE LoopInv'
  BY <1>5 DEF Execute, Take, Announce, ScriptEnds, ExecutorEnds, Report
<1> QED
  BY <1>1, <1>2, <1>3, <1>4, <1>5
  DEF ClientNext, Receive, Drop, Transmit, TransmitIntoVoid, PingFails, Rejected, Terminate,
      clientVars

(* A connection that a step leaves alone, and one whose goroutines end.     *)
LEMMA ExecutorUnmoved ==
    ASSUME NEW c \in Conns, ExecutorInv(c), executor'[c] = executor[c], hand'[c] = hand[c],
           send'[c] = send[c], starts'[c] = starts[c],
           executor[c] = "none" => taskCh'[c] = <<>> /\ sender'[c] = "none"
    PROVE  ExecutorInv(c)'
<1>1. EndsInHand(c)' /\ ReportsStarted(c)'
  BY DEF ExecutorInv, EndsInHand, ReportsStarted, Executing
<1>2. Untouched(c)'
  BY DEF ExecutorInv, Untouched
<1> QED BY <1>1, <1>2 DEF ExecutorInv

LEMMA ExecutorStopped ==
    ASSUME NEW c \in Conns, ExecutorInv(c), ClientTypeOK, ProcessEnds
    PROVE  ExecutorInv(c)'
<1>1. /\ executor'[c] \in {"none", "gone"} /\ hand'[c] = NoTask /\ send'[c] = <<>>
      /\ executor'[c] = "none" => executor[c] = "none" /\ sender'[c] = "none"
      /\ taskCh'[c] = <<>> /\ starts'[c] = starts[c] /\ Len(send'[c]) = 0
  BY DEF ProcessEnds, ExecutorInv, Untouched
<1>2. Alternates(send[c])' /\ Paired(send[c])' /\ EndsInHand(c)' /\ ReportsStarted(c)'
  BY <1>1 DEF Alternates, Paired, EndsInHand, ReportsStarted, Executing
<1>3. Untouched(c)'
  BY <1>1 DEF ExecutorInv, Untouched
<1> QED BY <1>1, <1>2, <1>3 DEF ExecutorInv

(* A report is queued: the running one of the task in hand, whose script    *)
(* starts, or its final one.                                                *)
LEMMA ExecutorAnnounces ==
    ASSUME ClientConstants, NEW c \in Conns, ExecutorInv(c), ClientTypeOK, Announce(c)
    PROVE  ExecutorInv(c)'
<1> DEFINE e == <<hand[c], "running">>
           n == Len(send[c])
<1>1. hand[c] \in Tasks /\ e \in Reports /\ send[c] \in Seq(Reports)
  BY DEF Announce, ExecutorInv, ClientTypeOK, Reports
<1>2. /\ send'[c] = Append(send[c], e) /\ hand'[c] = hand[c]
      /\ executor[c] = "announce" /\ executor'[c] = "run"
      /\ \A t \in Tasks : starts'[c][t] = IF t = hand[c] THEN starts[c][t] + 1 ELSE starts[c][t]
  BY <1>1 DEF Announce, ClientTypeOK
<1>3. /\ n \in Nat /\ Len(send'[c]) = n + 1 /\ send'[c][n + 1] = e
      /\ \A i \in 1..n : send'[c][i] = send[c][i]
  BY <1>1, <1>2
<1>4. send[c] # <<>> => send[c][n][2] # "running"
  BY <1>2 DEF ExecutorInv, EndsInHand, Executing
<1>5. Alternates(send[c])'
  BY <1>1, <1>2, <1>4, AlternatesAppend DEF ExecutorInv
<1>6. Paired(send[c])'
  <2> SUFFICES ASSUME NEW i \in 1..n, send[c][i][2] = "running"
               PROVE  send'[c][i + 1][1] = send[c][i][1]
    BY <1>3 DEF Paired
  <2>1. i # n
    BY <1>1, <1>3, <1>4
  <2>2. i \in 1..(n - 1) /\ i + 1 \in 1..n
    BY <1>3, <2>1
  <2> QED BY <1>3, <2>2 DEF ExecutorInv, Paired
<1>7. EndsInHand(c)'
  BY <1>2, <1>3 DEF EndsInHand, Executing
<1>8. \A t \in Tasks : starts[c][t] \in Nat
  BY DEF ClientTypeOK
<1>9. ReportsStarted(c)'
  <2>1. starts'[c][hand[c]] > 0
    BY <1>1, <1>2, <1>8
  <2>2. ASSUME NEW i \in 1..n PROVE starts'[c][send[c][i][1]] > 0
    <3>1. starts[c][send[c][i][1]] > 0 /\ send[c][i][1] \in Tasks
      BY <1>1 DEF ExecutorInv, ReportsStarted, Reports
    <3> QED BY <1>2, <1>8, <3>1
  <2>3. ASSUME NEW i \in 1..(n + 1) PROVE starts'[c][send'[c][i][1]] > 0
    <3>1. i \in 1..n \/ i = n + 1
      BY <1>3
    <3> QED BY <1>3, <2>1, <2>2, <3>1, SMTT(30)
  <2> QED BY <1>2, <1>3, <2>1, <2>3 DEF ReportsStarted
<1> QED BY <1>1, <1>2, <1>5, <1>6, <1>7, <1>9 DEF ExecutorInv, Untouched, ClientConstants

LEMMA ExecutorReports ==
    ASSUME ClientConstants, NEW c \in Conns, ExecutorInv(c), ClientTypeOK,
           NEW o \in Outcomes, Report(c, o)
    PROVE  ExecutorInv(c)'
<1> DEFINE e == <<hand[c], o>>
           n == Len(send[c])
<1>1. hand[c] \in Tasks /\ e \in Reports /\ send[c] \in Seq(Reports) /\ o # "running"
  BY DEF Report, ExecutorInv, ClientTypeOK, Reports, ClientConstants
<1>2. /\ send'[c] = Append(send[c], e) /\ hand'[c] = NoTask
      /\ executor[c] = "report" /\ executor'[c] = "wait" /\ starts'[c] = starts[c]
  BY DEF Report, ClientTypeOK
<1>3. /\ n \in Nat /\ Len(send'[c]) = n + 1 /\ send'[c][n + 1] = e
      /\ \A i \in 1..n : send'[c][i] = send[c][i]
  BY <1>1, <1>2
<1>4. send[c] # <<>> => send[c][n] = <<hand[c], "running">>
  BY <1>2 DEF ExecutorInv, EndsInHand, Executing
<1>5. Alternates(send[c])'
  BY <1>1, <1>2, <1>4, AlternatesAppend DEF ExecutorInv
<1>6. Paired(send[c])'
  <2> SUFFICES ASSUME NEW i \in 1..n, send[c][i][2] = "running"
               PROVE  send'[c][i + 1][1] = send[c][i][1]
    BY <1>3 DEF Paired
  <2>1. CASE i = n
    BY <1>1, <1>3, <1>4, <2>1
  <2>2. CASE i # n
    <3>1. i \in 1..(n - 1) /\ i + 1 \in 1..n
      BY <1>3, <2>2
    <3> QED BY <1>3, <3>1 DEF ExecutorInv, Paired
  <2> QED BY <2>1, <2>2
<1>7. EndsInHand(c)'
  BY <1>1, <1>2, <1>3 DEF EndsInHand, Executing
<1>9. ReportsStarted(c)'
  <2>1. starts[c][hand[c]] > 0
    BY <1>2 DEF ExecutorInv, ReportsStarted, Executing
  <2>2. ASSUME NEW i \in 1..(n + 1) PROVE starts[c][send'[c][i][1]] > 0
    <3>1. i \in 1..n \/ i = n + 1
      BY <1>3
    <3> QED BY <1>3, <2>1, <3>1 DEF ExecutorInv, ReportsStarted
  <2> QED BY <1>2, <1>3, <2>2 DEF ReportsStarted, Executing
<1> QED BY <1>1, <1>2, <1>5, <1>6, <1>7, <1>9 DEF ExecutorInv, Untouched, ClientConstants

(* A report leaves. *)
LEMMA ReportLeaves ==
    ASSUME NEW c \in Conns, ExecutorInv(c), ClientTypeOK, send[c] # <<>>,
           send'[c] = Tail(send[c]), sender[c] = "run",
           executor'[c] = executor[c], hand'[c] = hand[c], starts'[c] = starts[c]
    PROVE  ExecutorInv(c)'
<1> DEFINE n == Len(send[c])
<1>1. send[c] \in Seq(Reports)
  BY DEF ClientTypeOK
<1>2. /\ n \in Nat \ {0} /\ Len(send'[c]) = n - 1 /\ send'[c] \in Seq(Reports)
      /\ \A i \in 1..(n - 1) : send'[c][i] = send[c][i + 1]
  BY <1>1
<1>3. Alternates(send[c])'
  BY <1>1, AlternatesTail DEF ExecutorInv
<1>4. Paired(send[c])'
  BY <1>2 DEF ExecutorInv, Paired
<1>5. EndsInHand(c)'
  <2>1. CASE n = 1
    <3>1. send'[c] = <<>>
      <4> DEFINE p == send'[c]
      <4>1. p \in Seq(Reports) /\ Len(p) = 0
        BY <1>2, <2>1
      <4> HIDE DEF p
      <4>2. p = <<>>
        BY <4>1
      <4> QED BY <4>2 DEF p
    <3> QED BY <3>1 DEF EndsInHand
  <2>2. CASE n # 1
    <3>1. send'[c][Len(send'[c])] = send[c][n]
      <4>1. n - 1 \in 1..(n - 1) /\ (n - 1) + 1 = n
        <5>1. n \in Nat \ {0}
          BY <1>2
        <5> HIDE DEF n
        <5> QED BY <2>2, <5>1
      <4>2. send'[c][n - 1] = send[c][(n - 1) + 1]
        BY <1>2, <4>1
      <4>3. Len(send'[c]) = n - 1
        BY <1>2
      <4> HIDE DEF n
      <4> QED BY <4>1, <4>2, <4>3
    <3> QED BY <3>1 DEF ExecutorInv, EndsInHand, Executing
  <2> QED BY <2>1, <2>2
<1>6. ReportsStarted(c)'
  BY <1>2 DEF ExecutorInv, ReportsStarted, Executing
<1>7. executor[c] # "none"
  BY DEF ExecutorInv, Untouched
<1> QED BY <1>3, <1>4, <1>5, <1>6, <1>7 DEF ExecutorInv, Untouched

LEMMA ExecutorStep ==
    ASSUME ClientConstants
    PROVE  ClientInv /\ [ClientNext]_clientVars => \A c \in Conns : ExecutorInv(c)'
<1> SUFFICES ASSUME ClientInv, [ClientNext]_clientVars, NEW d \in Conns PROVE ExecutorInv(d)'
  OBVIOUS
<1>0. ClientTypeOK /\ ExecutorInv(d)
  BY DEF ClientInv
<1> USE DEF ClientTypeOK
<1>1. CASE UNCHANGED <<taskCh[d], executor[d], hand[d], send[d], sender[d], starts[d]>>
  <2>1. executor[d] = "none" => taskCh[d] = <<>> /\ sender[d] = "none"
    BY <1>0 DEF ExecutorInv, Untouched
  <2> QED BY <1>0, <1>1, <2>1, ExecutorUnmoved
<1>2. ASSUME NEW c \in Conns, Dial(c) PROVE ExecutorInv(d)'
  <2>1. CASE c = d
    <3>1. /\ executor[d] = "none" /\ executor'[d] = "wait" /\ hand'[d] = hand[d]
          /\ send'[d] = send[d] /\ starts'[d] = starts[d]
      BY <1>0, <1>2, <2>1 DEF Dial
    <3>2. send[d] = <<>>
      BY <1>0, <3>1 DEF ExecutorInv, Untouched
    <3>3. EndsInHand(d)' /\ Untouched(d)' /\ ReportsStarted(d)'
      BY <1>0, <3>1, <3>2 DEF ExecutorInv, EndsInHand, Untouched, ReportsStarted, Executing
    <3> QED BY <1>0, <3>1, <3>3 DEF ExecutorInv
  <2>2. CASE c # d
    BY <1>0, <1>1, <1>2, <2>2 DEF Dial
  <2> QED BY <2>1, <2>2
<1>3. ASSUME NEW c \in Conns, NEW t \in Tasks, Receive(c, t) PROVE ExecutorInv(d)'
  <2>1. live = c /\ executor[c] # "none"
    BY <1>3 DEF Receive, ClientInv, LoopInv, ClientConstants
  <2>2. /\ executor' = executor /\ hand' = hand /\ send' = send /\ starts' = starts
        /\ sender' = sender /\ (d # c => taskCh'[d] = taskCh[d])
    BY <1>0, <1>3 DEF Receive
  <2>3. executor[d] = "none" => taskCh'[d] = <<>> /\ sender'[d] = "none"
    <3>1. executor[d] = "none" => d # c /\ taskCh[d] = <<>> /\ sender[d] = "none"
      BY <1>0, <2>1 DEF ExecutorInv, Untouched
    <3> QED BY <2>2, <3>1
  <2> QED BY <1>0, <2>2, <2>3, ExecutorUnmoved
<1>4. CASE ProcessEnds
  BY <1>0, <1>4, ExecutorStopped
<1>5. ASSUME NEW c \in Conns, Take(c) PROVE ExecutorInv(d)'
  <2>1. CASE c = d
    <3>1. Head(taskCh[d]) \in Tasks
      BY <1>0, <1>5, <2>1 DEF Take
    <3>2. /\ executor[d] = "wait" /\ executor'[d] = "announce" /\ hand'[d] # NoTask
          /\ send'[d] = send[d] /\ starts'[d] = starts[d]
      BY <1>0, <1>5, <2>1, <3>1 DEF Take, ClientConstants
    <3>3. EndsInHand(d)' /\ Untouched(d)' /\ ReportsStarted(d)'
      BY <1>0, <3>2 DEF ExecutorInv, EndsInHand, Untouched, ReportsStarted, Executing
    <3> QED BY <1>0, <3>2, <3>3 DEF ExecutorInv
  <2>2. CASE c # d
    BY <1>0, <1>1, <1>5, <2>2 DEF Take
  <2> QED BY <2>1, <2>2
<1>6. ASSUME NEW c \in Conns, Announce(c) PROVE ExecutorInv(d)'
  <2>1. CASE c = d
    BY <1>0, <1>6, <2>1, ExecutorAnnounces
  <2>2. CASE c # d
    BY <1>0, <1>1, <1>6, <2>2 DEF Announce
  <2> QED BY <2>1, <2>2
<1>7. ASSUME NEW c \in Conns, ScriptEnds(c) \/ ExecutorEnds(c) PROVE ExecutorInv(d)'
  <2>1. CASE c = d
    <3>1. /\ hand'[d] = hand[d] /\ send'[d] = send[d] /\ starts'[d] = starts[d]
          /\ \/ executor[d] = "run" /\ executor'[d] = "report"
             \/ executor[d] = "wait" /\ executor'[d] = "gone"
      BY <1>0, <1>7, <2>1 DEF ScriptEnds, ExecutorEnds
    <3>2. EndsInHand(d)' /\ Untouched(d)' /\ ReportsStarted(d)'
      BY <1>0, <3>1 DEF ExecutorInv, EndsInHand, Untouched, ReportsStarted, Executing
    <3> QED BY <1>0, <3>1, <3>2 DEF ExecutorInv
  <2>2. CASE c # d
    BY <1>0, <1>1, <1>7, <2>2 DEF ScriptEnds, ExecutorEnds
  <2> QED BY <2>1, <2>2
<1>8. ASSUME NEW c \in Conns, NEW o \in Outcomes, Report(c, o) PROVE ExecutorInv(d)'
  <2>1. CASE c = d
    BY <1>0, <1>8, <2>1, ExecutorReports
  <2>2. CASE c # d
    BY <1>0, <1>1, <1>8, <2>2 DEF Report
  <2> QED BY <2>1, <2>2
<1>9. ASSUME NEW c \in Conns, Transmit(c) \/ TransmitIntoVoid(c) PROVE ExecutorInv(d)'
  <2>1. CASE c = d
    <3>1. /\ send[d] # <<>> /\ send'[d] = Tail(send[d]) /\ sender[d] = "run"
          /\ executor'[d] = executor[d] /\ hand'[d] = hand[d] /\ starts'[d] = starts[d]
      BY <1>0, <1>9, <2>1 DEF Transmit, TransmitIntoVoid
    <3> QED BY <1>0, <3>1, ReportLeaves
  <2>2. CASE c # d
    BY <1>0, <1>1, <1>9, <2>2 DEF Transmit, TransmitIntoVoid
  <2> QED BY <2>1, <2>2
<1>10. ASSUME NEW c \in Conns, PingFails(c) PROVE ExecutorInv(d)'
  <2>1. CASE c = d
    <3>1. /\ executor[d] # "none" /\ executor'[d] = executor[d] /\ hand'[d] = hand[d]
          /\ send'[d] = send[d] /\ starts'[d] = starts[d]
      BY <1>0, <1>10, <2>1 DEF PingFails, ExecutorInv, Untouched
    <3> QED BY <1>0, <3>1, ExecutorUnmoved
  <2>2. CASE c # d
    BY <1>0, <1>1, <1>10, <2>2 DEF PingFails
  <2> QED BY <2>1, <2>2
<1> QED
  BY <1>1, <1>2, <1>3, <1>4, <1>5, <1>6, <1>7, <1>8, <1>9, <1>10
  DEF ClientNext, Execute, Drop, Disconnected, Rejected, Terminate, ServiceRestart, clientVars

(* The reports of a connection stay in order whatever the agent's           *)
(* goroutines, the server and the network do.                               *)
LEMMA ClientStep ==
    ASSUME ClientConstants PROVE ClientInv /\ [ClientNext]_clientVars => ClientInv'
BY ClientTypeStep, LoopStep, ExecutorStep DEF ClientInv

LEMMA PairedReports == ASSUME ClientInv, NEW c \in Conns PROVE ReportsPairedOn(c)
<1> SUFFICES ASSUME NEW i \in 1..(Len(send[c]) - 1)
             PROVE  IF send[c][i][2] = "running"
                    THEN send[c][i + 1][1] = send[c][i][1] /\ send[c][i + 1][2] # "running"
                    ELSE send[c][i + 1][2] = "running"
  BY DEF ReportsPairedOn
<1>1. Len(send[c]) \in Nat /\ FirstFinal(send[c]) \in {1, 2}
  BY DEF ClientInv, ClientTypeOK, FirstFinal
<1>2. i \in 1..Len(send[c]) /\ i + 1 \in 1..Len(send[c])
  BY <1>1
<1>3. /\ send[c][i][2] = "running" <=> (i + FirstFinal(send[c])) % 2 = 1
      /\ send[c][i + 1][2] = "running" <=> (i + 1 + FirstFinal(send[c])) % 2 = 1
  BY <1>2 DEF ClientInv, ExecutorInv, Alternates
<1>4. send[c][i][2] = "running" => send[c][i + 1][1] = send[c][i][1]
  BY DEF ClientInv, ExecutorInv, Paired
<1>5. send[c][i + 1][2] = "running" <=> send[c][i][2] # "running"
  <2>1. i \in Nat
    BY <1>2
  <2>2. (i + FirstFinal(send[c])) % 2 = 1 <=> ~((i + 1 + FirstFinal(send[c])) % 2 = 1)
    BY <1>1, <2>1
  <2> QED BY <1>3, <2>2
<1> QED BY <1>4, <1>5

-----------------------------------------------------------------------------
(* What a step does to the tasks the server still has to hear of. *)

LEMMA UnreportedType ==
    ASSUME ClientInv, NEW c \in Conns
    PROVE  /\ Unreported(c) \in Seq(Tasks) /\ FirstStarted(c) \in BOOLEAN
           /\ FinalTasks(send[c]) \in Seq(Tasks) /\ InHand(c) \in Seq(Tasks)
           /\ taskCh[c] \in Seq(Tasks)
           /\ Len(taskCh[c]) <= Len(Unreported(c))
<1>1. send[c] \in Seq(Reports) /\ taskCh[c] \in Seq(Tasks) /\ hand[c] \in Tasks \cup {NoTask}
  BY DEF ClientInv, ClientTypeOK
<1>2. FinalTasks(send[c]) \in Seq(Tasks)
  BY <1>1, FinalTasksType
<1>3. InHand(c) \in Seq(Tasks)
  BY <1>1 DEF InHand
<1>4. FirstStarted(c) \in BOOLEAN
  BY DEF FirstStarted
<1>5. FinalTasks(send[c]) \o InHand(c) \in Seq(Tasks)
  BY <1>2, <1>3, ConcatProperties
<1>6. /\ Unreported(c) \in Seq(Tasks)
      /\ Len(Unreported(c)) = Len(FinalTasks(send[c]) \o InHand(c)) + Len(taskCh[c])
  BY <1>1, <1>5, ConcatProperties DEF Unreported
<1>7. Len(taskCh[c]) <= Len(Unreported(c))
  <2>1. Len(FinalTasks(send[c]) \o InHand(c)) \in Nat /\ Len(taskCh[c]) \in Nat
    BY <1>1, <1>5, LenProperties
  <2> HIDE DEF Unreported
  <2>2. \A m, n, k \in Nat : k = m + n => n <= k
    OBVIOUS
  <2>3. Len(Unreported(c)) \in Nat
    BY <1>6, LenProperties
  <2> QED BY <1>6, <2>1, <2>2, <2>3, Zenon
<1> QED BY <1>1, <1>2, <1>3, <1>4, <1>6, <1>7

LEMMA UnreportedKept ==
    ASSUME NEW c \in Conns, taskCh'[c] = taskCh[c], hand'[c] = hand[c], send'[c] = send[c],
           Executing(c)' <=> Executing(c)
    PROVE  Unreported(c)' = Unreported(c) /\ FirstStarted(c)' = FirstStarted(c)
BY DEF Unreported, InHand, FirstStarted, Executing

LEMMA ReceiveUnreported ==
    ASSUME ClientInv, NEW c \in Conns, NEW t \in Tasks, Receive(c, t)
    PROVE  Unreported(c)' = Append(Unreported(c), t) /\ FirstStarted(c)' = FirstStarted(c)
<1>1. /\ taskCh'[c] = Append(taskCh[c], t) /\ hand'[c] = hand[c] /\ send'[c] = send[c]
      /\ executor'[c] = executor[c]
  BY DEF Receive, ClientInv, ClientTypeOK
<1>2. FinalTasks(send[c]) \in Seq(Tasks) /\ InHand(c) \in Seq(Tasks) /\ taskCh[c] \in Seq(Tasks)
  BY UnreportedType
<1>3. InHand(c)' = InHand(c) /\ FirstStarted(c)' = FirstStarted(c)
  BY <1>1 DEF InHand, FirstStarted
<1>4. FinalTasks(send[c]) \o InHand(c) \in Seq(Tasks)
  BY <1>2, ConcatProperties
<1>5. FinalTasks(send[c]) \o InHand(c) \o Append(taskCh[c], t)
        = Append(FinalTasks(send[c]) \o InHand(c) \o taskCh[c], t)
  BY <1>2, <1>4, ConcatAppend, Zenon
<1>6. InHand(c)' = InHand(c) /\ FinalTasks(send[c])' = FinalTasks(send[c])
  BY <1>1, <1>3
<1> QED BY <1>1, <1>3, <1>5, <1>6 DEF Unreported

(* The executor and its channels pass a task on without losing its place. *)
LEMMA ExecuteUnreported ==
    ASSUME ClientConstants, ClientInv, NEW c \in Conns, Execute(c)
    PROVE  Unreported(c)' = Unreported(c) /\ FirstStarted(c)' = FirstStarted(c)
<1> DEFINE f == FinalTasks(send[c])
           q == taskCh[c]
<1>0. f \in Seq(Tasks) /\ InHand(c) \in Seq(Tasks) /\ q \in Seq(Tasks)
      /\ ExecutorInv(c) /\ send[c] \in Seq(Reports)
  BY UnreportedType DEF ClientInv, ClientTypeOK
<1> HIDE DEF f
<1>1. ASSUME Take(c) PROVE Unreported(c)' = Unreported(c) /\ FirstStarted(c)' = FirstStarted(c)
  <2>1. /\ q # <<>> /\ Head(q) \in Tasks /\ Tail(q) \in Seq(Tasks)
        /\ taskCh'[c] = Tail(q) /\ hand'[c] = Head(q) /\ send'[c] = send[c]
        /\ executor[c] = "wait" /\ executor'[c] = "announce"
    BY <1>0, <1>1 DEF Take, ClientInv, ClientTypeOK
  <2>2. InHand(c) = <<>> /\ InHand(c)' = <<Head(q)>>
    BY <1>0, <2>1 DEF InHand, ExecutorInv, ClientConstants
  <2>3. f \o <<>> \o q = f \o <<Head(q)>> \o Tail(q)
    <3>1. f \o <<>> = f
      BY <1>0, ConcatEmptySeq
    <3>2. <<Head(q)>> \in Seq(Tasks)
      BY <2>1
    <3>3. (f \o <<Head(q)>>) \o Tail(q) = f \o (<<Head(q)>> \o Tail(q))
      <4>1. PICK u, v, w \in Seq(Tasks) : u = f /\ v = <<Head(q)>> /\ w = Tail(q)
        BY <1>0, <2>1, <3>2
      <4>2. (u \o v) \o w = u \o (v \o w)
        BY ConcatTasks
      <4> QED BY <4>1, <4>2, Zenon
    <3>4. <<Head(q)>> \o Tail(q) = q
      BY <1>0, <2>1, HeadConcatTail
    <3> QED BY <3>1, <3>3, <3>4
  <2>4. FirstStarted(c)' = FirstStarted(c)
    BY <2>1 DEF FirstStarted
  <2> QED BY <2>1, <2>2, <2>3, <2>4 DEF Unreported, f
<1>2. ASSUME Announce(c) PROVE Unreported(c)' = Unreported(c) /\ FirstStarted(c)' = FirstStarted(c)
  <2> DEFINE e == <<hand[c], "running">>
  <2>1. /\ e \in Reports /\ send'[c] = Append(send[c], e) /\ hand'[c] = hand[c] /\ taskCh'[c] = q
        /\ executor[c] = "announce" /\ executor'[c] = "run"
    BY <1>0, <1>2 DEF Announce, ClientInv, ClientTypeOK, ExecutorInv, Reports
  <2>2. send[c] # <<>> => send[c][Len(send[c])][2] # "running"
    BY <1>0, <2>1 DEF ExecutorInv, EndsInHand, Executing
  <2>3. FinalTasks(send'[c]) = f
    BY <1>0, <2>1, <2>2, FinalTasksAppend DEF ExecutorInv, f
  <2>4. /\ send'[c] # <<>>
        /\ Head(send'[c]) = IF send[c] = <<>> THEN e ELSE Head(send[c])
    BY <1>0, <2>1, HeadAppended, Zenon
  <2>5. FirstStarted(c)' = FirstStarted(c)
    BY <2>1, <2>4 DEF FirstStarted
  <2> QED BY <2>1, <2>3, <2>5 DEF Unreported, InHand, f
<1>3. ASSUME ScriptEnds(c) \/ ExecutorEnds(c)
      PROVE  Unreported(c)' = Unreported(c) /\ FirstStarted(c)' = FirstStarted(c)
  <2>1. /\ taskCh'[c] = taskCh[c] /\ hand'[c] = hand[c] /\ send'[c] = send[c]
        /\ Executing(c)' <=> Executing(c)
    BY <1>3 DEF ScriptEnds, ExecutorEnds, Executing, ClientInv, ClientTypeOK
  <2> QED BY <2>1, UnreportedKept
<1>4. ASSUME NEW o \in Outcomes, Report(c, o)
      PROVE  Unreported(c)' = Unreported(c) /\ FirstStarted(c)' = FirstStarted(c)
  <2> DEFINE e == <<hand[c], o>>
  <2>1. /\ hand[c] \in Tasks /\ hand[c] # NoTask /\ e \in Reports /\ o # "running"
        /\ send'[c] = Append(send[c], e) /\ hand'[c] = NoTask /\ taskCh'[c] = q
        /\ executor[c] = "report" /\ executor'[c] = "wait"
    BY <1>0, <1>4 DEF Report, ClientInv, ClientTypeOK, ExecutorInv, Reports, ClientConstants
  <2>2. send[c] # <<>> => send[c][Len(send[c])][2] = "running"
    BY <1>0, <2>1 DEF ExecutorInv, EndsInHand, Executing
  <2>3. FinalTasks(send'[c]) = Append(f, hand[c])
    BY <1>0, <2>1, <2>2, FinalTasksAppend DEF ExecutorInv, f
  <2>4. /\ send'[c] # <<>>
        /\ Head(send'[c]) = IF send[c] = <<>> THEN e ELSE Head(send[c])
    BY <1>0, <2>1, HeadAppended, Zenon
  <2>5. FirstStarted(c)' = FirstStarted(c)
    BY <2>1, <2>4 DEF FirstStarted
  <2>6. InHand(c) = <<hand[c]>> /\ InHand(c)' = <<>>
    BY <2>1 DEF InHand
  <2>7. Append(f, hand[c]) \o <<>> \o q = f \o <<hand[c]>> \o q
    <3>1. Append(f, hand[c]) = f \o <<hand[c]>> /\ Append(f, hand[c]) \in Seq(Tasks)
      BY <1>0, <2>1, AppendConcat
    <3>2. Append(f, hand[c]) \o <<>> = Append(f, hand[c])
      BY <3>1, ConcatEmptySeq
    <3> QED BY <3>1, <3>2
  <2> QED BY <2>1, <2>3, <2>5, <2>6, <2>7 DEF Unreported, f
<1> QED BY <1>1, <1>2, <1>3, <1>4 DEF Execute

(* The report that leaves is the running or the final one of the first task *)
(* the server has to hear of.                                               *)
LEMMA TransmitUnreported ==
    ASSUME ClientConstants, ClientInv, NEW c \in Conns, Transmit(c)
    PROVE  LET r == Head(send[c]) IN
           /\ Unreported(c) # <<>> /\ r[1] = Head(Unreported(c)) /\ r[1] \in Tasks
           /\ \/ /\ r[2] = "running"
                 /\ FirstStarted(c) = FALSE /\ FirstStarted(c)' = TRUE
                 /\ Unreported(c)' = Unreported(c)
              \/ /\ r[2] \in Outcomes
                 /\ FirstStarted(c) = TRUE /\ FirstStarted(c)' = FALSE
                 /\ Unreported(c)' = Tail(Unreported(c))
<1> DEFINE s == send[c]
           r == Head(send[c])
           f == FinalTasks(send[c])
           rest == InHand(c) \o taskCh[c]
<1>1. /\ f \in Seq(Tasks) /\ InHand(c) \in Seq(Tasks) /\ taskCh[c] \in Seq(Tasks)
      /\ rest \in Seq(Tasks) /\ Unreported(c) = f \o rest
      /\ ExecutorInv(c) /\ s \in Seq(Reports)
  <2>1. /\ f \in Seq(Tasks) /\ InHand(c) \in Seq(Tasks) /\ taskCh[c] \in Seq(Tasks)
        /\ ExecutorInv(c) /\ s \in Seq(Reports)
    BY UnreportedType DEF ClientInv, ClientTypeOK
  <2>2. rest \in Seq(Tasks)
    BY <2>1, ConcatProperties
  <2>3. f \o InHand(c) \o taskCh[c] = f \o rest
    BY <2>1, ConcatTasks, ZenonT(30)
  <2> QED BY <2>1, <2>2, <2>3 DEF Unreported
<1>2. /\ s # <<>> /\ send'[c] = Tail(s) /\ hand'[c] = hand[c] /\ taskCh'[c] = taskCh[c]
      /\ executor'[c] = executor[c]
  BY DEF Transmit, ClientInv, ClientTypeOK
<1>3. r \in Reports /\ r = s[1] /\ Len(s) \in Nat \ {0} /\ Len(Tail(s)) = Len(s) - 1
      /\ Tail(s) \in Seq(Reports)
  BY <1>1, <1>2
<1>4. r[1] \in Tasks /\ (r[2] = "running" \/ r[2] \in Outcomes)
  BY <1>3 DEF Reports
<1>5. Unreported(c)' = FinalTasks(Tail(s)) \o rest
  <2>1. Unreported(c)' = FinalTasks(Tail(s)) \o InHand(c) \o taskCh[c]
    BY <1>2 DEF Unreported, InHand
  <2>2. FinalTasks(Tail(s)) \in Seq(Tasks)
    BY <1>3, FinalTasksType
  <2>3. FinalTasks(Tail(s)) \o InHand(c) \o taskCh[c] = FinalTasks(Tail(s)) \o rest
    BY <1>1, <2>2, ConcatTasks, Zenon
  <2> QED BY <2>1, <2>3
<1>6. FirstStarted(c) <=> r[2] # "running"
  BY <1>2 DEF FirstStarted
<1>7. FirstStarted(c)' <=> r[2] = "running"
  <2>1. CASE Tail(s) = <<>>
    <3>1. Len(s) = 1
      <4>1. Len(<<>>) = 0
        OBVIOUS
      <4>2. Len(Tail(s)) = 0
        BY <2>1, <4>1, Zenon
      <4> QED BY <1>3, <4>2
    <3>2. r[2] = "running" <=> Executing(c)
      BY <1>1, <1>2, <1>3, <3>1 DEF ExecutorInv, EndsInHand
    <3> QED BY <1>2, <2>1, <3>2 DEF FirstStarted, Executing
  <2>2. CASE Tail(s) # <<>>
    <3>1. Head(Tail(s))[2] = "running" <=> r[2] # "running"
      BY <1>1, <1>2, <2>2, AlternatesTail DEF ExecutorInv
    <3> QED BY <1>2, <2>2, <3>1 DEF FirstStarted
  <2> QED BY <2>1, <2>2
<1>8. FirstStarted(c) \in BOOLEAN /\ FirstStarted(c)' \in BOOLEAN
  BY DEF FirstStarted
<1>9. CASE r[2] = "running"
  <2>1. Unreported(c)' = Unreported(c)
    BY <1>1, <1>2, <1>5, <1>9, FinalTasksTail DEF ExecutorInv
  <2>2. Unreported(c) # <<>> /\ r[1] = Head(Unreported(c))
    <3>1. CASE Len(s) = 1
      <4>1. s[Len(s)] = r
        BY <1>3, <3>1
      <4>2. Executing(c) /\ r = <<hand[c], "running">>
        BY <1>1, <1>2, <1>9, <4>1 DEF ExecutorInv, EndsInHand
      <4>3. hand[c] # NoTask /\ hand[c] \in Tasks /\ hand[c] = r[1]
        BY <1>1, <4>2 DEF ExecutorInv, Executing, ClientInv, ClientTypeOK
      <4>4. rest # <<>> /\ Head(rest) = hand[c]
        BY <1>1, <4>3 DEF InHand
      <4>5. f = <<>>
        <5>1. FirstFinal(s) = 2
          BY <1>3, <1>9 DEF FirstFinal
        <5>2. Len(f) = (Len(s) + 2 - FirstFinal(s)) \div 2
          BY <1>1, FinalTasksType
        <5>3. Len(f) = 0
          BY <3>1, <5>1, <5>2
        <5> HIDE DEF f
        <5> QED BY <1>1, <5>3
      <4> QED BY <1>1, <4>3, <4>4, <4>5
    <3>2. CASE Len(s) # 1
      <4>1. FirstFinal(s) = 2
        BY <1>3, <1>9 DEF FirstFinal
      <4>2. /\ Len(f) = (Len(s) + 2 - FirstFinal(s)) \div 2
            /\ \A i \in 1..Len(f) : f[i] = s[FirstFinal(s) + 2 * i - 2][1]
        BY <1>1, FinalTasksType
      <4>3. 1 \in 1..Len(f)
        <5>1. Len(f) = (Len(s) + 2 - 2) \div 2 /\ Len(s) \in Nat \ {0, 1}
          BY <1>3, <3>2, <4>1, <4>2
        <5>2. \A n \in Nat \ {0, 1} : 1 \in 1..((n + 2 - 2) \div 2) /\ 1 \in 1..(n - 1)
          OBVIOUS
        <5> HIDE DEF f, s
        <5> QED BY <5>1, <5>2
      <4>4. f[1] = s[2][1]
        <5>1. f[1] = s[FirstFinal(s) + 2 * 1 - 2][1]
          BY <4>2, <4>3, Zenon
        <5>2. FirstFinal(s) + 2 * 1 - 2 = 2
          BY <4>1
        <5> QED BY <5>1, <5>2, Zenon
      <4>5. 1 \in 1..(Len(s) - 1)
        <5>1. Len(s) \in Nat \ {0, 1}
          BY <1>3, <3>2
        <5>2. \A n \in Nat \ {0, 1} : 1 \in 1..(n - 1)
          OBVIOUS
        <5> QED BY <5>1, <5>2, Zenon
      <4>6. s[1 + 1][1] = s[1][1]
        BY <1>1, <1>3, <1>9, <4>5 DEF ExecutorInv, Paired
      <4>7. f[1] = r[1]
        BY <1>3, <4>4, <4>6
      <4> HIDE DEF f, rest
      <4> QED BY <1>1, <4>3, <4>7
    <3> QED BY <3>1, <3>2
  <2> QED BY <1>4, <1>6, <1>7, <1>8, <1>9, <2>1, <2>2
<1>10. CASE r[2] # "running"
  <2>1. f # <<>> /\ Head(f) = r[1] /\ FinalTasks(Tail(s)) = Tail(f)
    BY <1>1, <1>2, <1>10, FinalTasksTail DEF ExecutorInv
  <2>2. Unreported(c)' = Tail(f) \o rest
    BY <1>5, <2>1
  <2>3. Unreported(c) # <<>> /\ Head(Unreported(c)) = r[1]
        /\ Tail(Unreported(c)) = Tail(f) \o rest
    <3> HIDE DEF f, rest
    <3> QED BY <1>1, <2>1
  <2> QED BY <1>4, <1>6, <1>7, <1>8, <1>10, <2>2, <2>3
<1> QED BY <1>9, <1>10

(* A step on one connection leaves the others alone. *)
LEMMA OthersUnreported ==
    ASSUME ClientInv, NEW c \in Conns, NEW d \in Conns, c # d,
           \/ Dial(c) \/ (\E t \in Tasks : Receive(c, t) \/ Drop(c, t)) \/ Disconnected(c)
           \/ Execute(c) \/ Transmit(c) \/ TransmitIntoVoid(c) \/ PingFails(c)
    PROVE  /\ Unreported(d)' = Unreported(d) /\ FirstStarted(d)' = FirstStarted(d)
           /\ starts'[d] = starts[d]
<1> USE DEF ClientInv, ClientTypeOK, Executing
<1>1. /\ taskCh'[d] = taskCh[d] /\ hand'[d] = hand[d] /\ send'[d] = send[d]
      /\ executor'[d] = executor[d] /\ starts'[d] = starts[d]
  <2>1. CASE Dial(c) \/ Disconnected(c) \/ PingFails(c)
    BY <2>1 DEF Dial, Disconnected, PingFails
  <2>2. CASE \E t \in Tasks : Receive(c, t) \/ Drop(c, t)
    BY <2>2 DEF Receive, Drop, clientVars
  <2>3. CASE Execute(c)
    BY <2>3 DEF Execute, Take, Announce, ScriptEnds, Report, ExecutorEnds
  <2>4. CASE Transmit(c) \/ TransmitIntoVoid(c)
    BY <2>4 DEF Transmit, TransmitIntoVoid
  <2> QED BY <2>1, <2>2, <2>3, <2>4
<1>2. Executing(d)' <=> Executing(d)
  BY <1>1
<1> QED BY <1>1, <1>2, UnreportedKept

(* An executor that waits for its first task has nothing to report.         *)
LEMMA IdleUnreported ==
    ASSUME NEW c \in Conns, taskCh[c] = <<>>, send[c] = <<>>, hand[c] = NoTask,
           ~Executing(c)
    PROVE  Unreported(c) = <<>> /\ FirstStarted(c) = FALSE
<1>1. Unreported(c) = <<>> \o <<>> \o <<>>
  BY FinalTasksEmpty DEF Unreported, InHand
<1>2. FirstStarted(c) = FALSE
  BY DEF FirstStarted, Executing
<1> QED BY <1>1, <1>2

(* The script of a task that was reported as running was started here. *)
LEMMA HeadStarted ==
    ASSUME ClientInv, NEW c \in Conns, FirstStarted(c)
    PROVE  Unreported(c) # <<>> /\ starts[c][Head(Unreported(c))] > 0
<1> DEFINE f == FinalTasks(send[c])
           rest == InHand(c) \o taskCh[c]
<1>1. /\ f \in Seq(Tasks) /\ InHand(c) \in Seq(Tasks) /\ taskCh[c] \in Seq(Tasks)
      /\ ExecutorInv(c) /\ send[c] \in Seq(Reports) /\ hand[c] \in Tasks \cup {NoTask}
  BY UnreportedType DEF ClientInv, ClientTypeOK
<1>2. rest \in Seq(Tasks) /\ Unreported(c) = f \o rest
  BY <1>1, ConcatTasks, ZenonT(30) DEF Unreported
<1>3. CASE send[c] = <<>>
  <2>1. Executing(c) /\ hand[c] # NoTask
    BY <1>1, <1>3 DEF FirstStarted, Executing, ExecutorInv
  <2>2. starts[c][hand[c]] > 0
    BY <1>1, <2>1 DEF ExecutorInv, ReportsStarted
  <2>3. rest # <<>> /\ Head(rest) = hand[c]
    BY <1>1, <2>1 DEF InHand
  <2>4. f = <<>>
    BY <1>3, FinalTasksEmpty
  <2> HIDE DEF f, rest
  <2>5. Unreported(c) = rest
    BY <1>2, <2>4
  <2> QED BY <2>2, <2>3, <2>5
<1>4. CASE send[c] # <<>>
  <2>1. Head(send[c])[2] # "running"
    BY <1>4 DEF FirstStarted
  <2>2. f # <<>> /\ Head(f) = Head(send[c])[1]
    BY <1>1, <1>4, <2>1, FinalTasksTail DEF ExecutorInv
  <2>3. Head(send[c]) = send[c][1] /\ 1 \in 1..Len(send[c])
    BY <1>1, <1>4
  <2>4. starts[c][Head(send[c])[1]] > 0
    BY <1>1, <2>3 DEF ExecutorInv, ReportsStarted
  <2> HIDE DEF f, rest
  <2>5. Unreported(c) # <<>> /\ Head(Unreported(c)) = Head(f)
    BY <1>1, <1>2, <2>2, ConcatHead
  <2> QED BY <2>2, <2>4, <2>5
<1> QED BY <1>3, <1>4

-----------------------------------------------------------------------------
(* How often a script was started, or may still be started for the tasks    *)
(* that the connection has received.                                        *)
Owed(c, t) ==
    starts[c][t] + (IF executor[c] = "announce" /\ hand[c] = t THEN 1 ELSE 0)
      + Count(taskCh[c], t)

LEMMA OwedType ==
    ASSUME ClientTypeOK, NEW c \in Conns, NEW t \in Tasks
    PROVE  Owed(c, t) \in Nat /\ starts[c][t] \in Nat /\ starts[c][t] <= Owed(c, t)
<1>1. starts[c][t] \in Nat /\ taskCh[c] \in Seq(Tasks)
  BY DEF ClientTypeOK
<1>2. Count(taskCh[c], t) \in Nat
  BY <1>1, CountType
<1> QED BY <1>1, <1>2 DEF Owed

(* Only a frame that arrives adds to it. *)
LEMMA OwedStep ==
    ASSUME ClientConstants, ClientInv, [ClientNext]_clientVars, NEW d \in Conns, NEW x \in Tasks
    PROVE  /\ starts[d][x] <= starts'[d][x]
           /\ \/ Owed(d, x)' <= Owed(d, x)
              \/ \E t \in Tasks : /\ Receive(d, t)
                                  /\ Owed(d, x)' = Owed(d, x) + (IF t = x THEN 1 ELSE 0)
<1>0. /\ starts[d][x] \in Nat /\ taskCh[d] \in Seq(Tasks) /\ hand[d] \in Tasks \cup {NoTask}
      /\ Count(taskCh[d], x) \in Nat /\ Count(<<>>, x) = 0 /\ Owed(d, x) \in Nat
  <2>1. /\ starts[d][x] \in Nat /\ taskCh[d] \in Seq(Tasks) /\ hand[d] \in Tasks \cup {NoTask}
        /\ ClientTypeOK
    BY DEF ClientInv, ClientTypeOK
  <2> QED BY <2>1, CountType, CountEmpty, OwedType
<1>1. ASSUME starts'[d][x] = starts[d][x], taskCh'[d] = taskCh[d],
             (executor'[d] = "announce" /\ hand'[d] = x)
               <=> (executor[d] = "announce" /\ hand[d] = x)
      PROVE  starts[d][x] <= starts'[d][x] /\ Owed(d, x)' <= Owed(d, x)
  BY <1>0, <1>1 DEF Owed
<1> USE DEF ClientInv, ClientTypeOK
<1>2. ASSUME NEW t \in Tasks, Receive(d, t)
      PROVE  /\ starts'[d][x] = starts[d][x]
             /\ Owed(d, x)' = Owed(d, x) + (IF t = x THEN 1 ELSE 0)
  <2>1. /\ starts'[d][x] = starts[d][x] /\ taskCh'[d] = Append(taskCh[d], t)
        /\ executor'[d] = executor[d] /\ hand'[d] = hand[d]
    BY <1>2 DEF Receive
  <2>2. Count(Append(taskCh[d], t), x) = Count(taskCh[d], x) + (IF t = x THEN 1 ELSE 0)
    BY <1>0, CountAppend
  <2> DEFINE k == IF executor[d] = "announce" /\ hand[d] = x THEN 1 ELSE 0
  <2>3. Owed(d, x)' = starts[d][x] + k + Count(Append(taskCh[d], t), x)
    BY <2>1 DEF Owed
  <2>4. Owed(d, x) = starts[d][x] + k + Count(taskCh[d], x) /\ k \in Nat
    BY DEF Owed
  <2> HIDE DEF k
  <2> QED BY <1>0, <2>1, <2>2, <2>3, <2>4
<1>3. ASSUME Take(d) PROVE starts'[d][x] = starts[d][x] /\ Owed(d, x)' = Owed(d, x)
  <2>1. /\ starts'[d][x] = starts[d][x] /\ taskCh'[d] = Tail(taskCh[d]) /\ taskCh[d] # <<>>
        /\ executor[d] = "wait" /\ executor'[d] = "announce" /\ hand'[d] = Head(taskCh[d])
        /\ Tail(taskCh[d]) \in Seq(Tasks)
    BY <1>0, <1>3 DEF Take
  <2>2. Count(taskCh[d], x) = Count(Tail(taskCh[d]), x) + (IF Head(taskCh[d]) = x THEN 1 ELSE 0)
    BY <1>0, <2>1, CountTail
  <2>3. Count(Tail(taskCh[d]), x) \in Nat
    BY <2>1, CountType
  <2>4. Owed(d, x)' = starts[d][x] + (IF Head(taskCh[d]) = x THEN 1 ELSE 0)
                        + Count(Tail(taskCh[d]), x)
    BY <2>1 DEF Owed
  <2>5. Owed(d, x) = starts[d][x] + 0 + Count(taskCh[d], x)
    BY <2>1 DEF Owed
  <2> QED BY <1>0, <2>1, <2>2, <2>3, <2>4, <2>5
<1>4. ASSUME Announce(d) PROVE starts[d][x] <= starts'[d][x] /\ Owed(d, x)' = Owed(d, x)
  <2>1. hand[d] \in Tasks
    BY <1>0, <1>4 DEF Announce, ExecutorInv
  <2>2. /\ starts'[d][x] = IF hand[d] = x THEN starts[d][x] + 1 ELSE starts[d][x]
        /\ taskCh'[d] = taskCh[d] /\ executor[d] = "announce" /\ executor'[d] = "run"
    BY <1>4, <2>1 DEF Announce
  <2> QED BY <1>0, <2>2 DEF Owed
<1>5. ASSUME ProcessEnds PROVE starts'[d][x] = starts[d][x] /\ Owed(d, x)' <= Owed(d, x)
  <2>1. /\ starts'[d][x] = starts[d][x] /\ taskCh'[d] = <<>> /\ executor'[d] \in {"none", "gone"}
    BY <1>5 DEF ProcessEnds
  <2> QED BY <1>0, <2>1 DEF Owed
<1>6. ASSUME NEW c \in Conns, Take(c), c # d
      PROVE  starts'[d][x] = starts[d][x] /\ taskCh'[d] = taskCh[d]
             /\ executor'[d] = executor[d] /\ hand'[d] = hand[d]
  BY <1>6 DEF Take
<1>7. ASSUME NEW c \in Conns, Announce(c), c # d
      PROVE  starts'[d][x] = starts[d][x] /\ taskCh'[d] = taskCh[d]
             /\ executor'[d] = executor[d] /\ hand'[d] = hand[d]
  BY <1>7 DEF Announce
<1>8. ASSUME NEW c \in Conns, NEW t \in Tasks, Receive(c, t), c # d
      PROVE  starts'[d][x] = starts[d][x] /\ taskCh'[d] = taskCh[d]
             /\ executor'[d] = executor[d] /\ hand'[d] = hand[d]
  BY <1>8 DEF Receive
<1>9. ASSUME NEW c \in Conns,
             \/ Dial(c) \/ ScriptEnds(c) \/ ExecutorEnds(c) \/ (\E o \in Outcomes : Report(c, o))
      PROVE  /\ starts'[d][x] = starts[d][x] /\ taskCh'[d] = taskCh[d]
             /\ (executor'[d] = "announce" /\ hand'[d] = x)
                  <=> (executor[d] = "announce" /\ hand[d] = x)
  BY <1>9 DEF Dial, ScriptEnds, ExecutorEnds, Report
<1>10. ASSUME \/ UNCHANGED clientVars \/ ServiceRestart
              \/ \E c \in Conns : \/ Disconnected(c) \/ Transmit(c) \/ TransmitIntoVoid(c)
                                  \/ PingFails(c) \/ (\E t \in Tasks : Drop(c, t))
       PROVE  starts'[d][x] = starts[d][x] /\ taskCh'[d] = taskCh[d]
              /\ executor'[d] = executor[d] /\ hand'[d] = hand[d]
  BY <1>10 DEF Disconnected, Transmit, TransmitIntoVoid, PingFails, Drop, ServiceRestart,
               clientVars
<1> HIDE DEF ClientInv, ClientTypeOK
<1>11. starts[d][x] <= starts[d][x]
  BY <1>0
<1>12. ASSUME NEW c \in Conns, Execute(c)
       PROVE  starts[d][x] <= starts'[d][x] /\ Owed(d, x)' <= Owed(d, x)
  BY <1>0, <1>1, <1>3, <1>4, <1>6, <1>7, <1>9, <1>12 DEF Execute
<1>13. ASSUME NEW c \in Conns, NEW t \in Tasks, Receive(c, t), c # d
       PROVE  starts[d][x] <= starts'[d][x] /\ Owed(d, x)' <= Owed(d, x)
  BY <1>0, <1>1, <1>8, <1>13
<1>14. ASSUME NEW t \in Tasks, Receive(d, t) PROVE starts[d][x] <= starts'[d][x]
  BY <1>2, <1>11, <1>14
<1>15. ASSUME ProcessEnds PROVE starts[d][x] <= starts'[d][x]
  BY <1>5, <1>11, <1>15
<1>16. ASSUME NEW c \in Conns, Dial(c)
       PROVE  starts[d][x] <= starts'[d][x] /\ Owed(d, x)' <= Owed(d, x)
  BY <1>0, <1>1, <1>9, <1>16
<1>17. ASSUME \/ UNCHANGED clientVars \/ ServiceRestart
              \/ \E c \in Conns : \/ Disconnected(c) \/ Transmit(c) \/ TransmitIntoVoid(c)
                                  \/ PingFails(c) \/ (\E t \in Tasks : Drop(c, t))
       PROVE  starts[d][x] <= starts'[d][x] /\ Owed(d, x)' <= Owed(d, x)
  BY <1>0, <1>1, <1>10, <1>17
<1>18. CASE \E c \in Conns : Rejected(c)
  BY <1>5, <1>15, <1>18 DEF Rejected
<1>19. CASE Terminate
  BY <1>5, <1>15, <1>19 DEF Terminate
<1>20. CASE \E c \in Conns : \E t \in Tasks : Receive(c, t)
  BY <1>2, <1>13, <1>14, <1>20
<1> QED BY <1>12, <1>16, <1>17, <1>18, <1>19, <1>20 DEF ClientNext
=============================================================================
