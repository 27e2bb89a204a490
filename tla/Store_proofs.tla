---------------------------- MODULE Store_proofs ----------------------------
(***************************************************************************)
(* The safety of Store, and that it implements StoreContract, for any      *)
(* agents, tasks and runs and any number of failures and crashes.          *)
(***************************************************************************)
EXTENDS Store, TLAPS

Updating == phase \in {"status", "output", "error"}

(* An update and a response in progress are of some task. *)
CallersWellFormed ==
    /\ Updating => update.task \in Tasks
    /\ reader.next # "none" => reader.task \in Tasks

TypeInv == TypeOK /\ CallersWellFormed

(* What the call that holds the lock has changed so far. *)
ChangesTask(t) ==
    /\ agents = settled.agents /\ tasks[t] # AbsentTask
    /\ \A u \in Tasks \ {t} : tasks[u] = settled.tasks[u]

CallInv ==
    /\ phase = "free" => settled = Memory
    /\ phase = "status" => tasks = settled.tasks
    /\ Updating => ChangesTask(update.task)
    /\ phase \in {"write", "rename"} =>
          tasks = settled.tasks \/ \E t \in Tasks : ChangesTask(t)
    /\ phase = "rename" => tmp = [state |-> "whole", contents |-> Memory]

OnFile(t) == file.contents.tasks[t] # AbsentTask

(* Unless something was lost, the memory has every task that is on file or  *)
(* that a request has stored, and a write that did not fail took it there.  *)
LossInv ==
    ~lost =>
        /\ phase = "down" => ~diverged /\ (\A t \in Tasks : request[t] # "storing")
        /\ phase # "down" => \A t \in Tasks :
              (OnFile(t) \/ request[t] \in {"storing", "stored", "acknowledged"})
                => tasks[t] # AbsentTask
        /\ ~diverged => \A t \in Tasks :
              request[t] \in {"stored", "acknowledged"} => OnFile(t)

(* The record that the update in progress will have left. *)
Field(t, f) ==
    IF Updating /\ update.task = t /\ update[f] # NoText THEN update[f] ELSE tasks[t][f]
Updated(t) == [status |-> Field(t, "status"), output |-> Field(t, "output"),
               error |-> Field(t, "error")]

(* The texts of a record come from runs that have ended, and so does its    *)
(* final status, with the texts of the run that it comes from or of others. *)
TextsOf(ends, record) ==
    /\ record.output # NoText =>
          record.output \in Runs \ Silent /\ ends[record.output] \in Final
    /\ record.error # NoText => record.error \in Runs /\ ends[record.error] = "failed"
    /\ record.status \in Final => \E k \in Runs :
          /\ ends[k] = record.status
          /\ k \notin Silent => record.output # NoText
          /\ record.status = "failed" => record.error # NoText

TextInv ==
    \A t \in Tasks : /\ TextsOf(reports[t], Updated(t))
                     /\ TextsOf(reports[t], settled.tasks[t])
                     /\ TextsOf(reports[t], file.contents.tasks[t])
                     /\ TextsOf(reports[t], tmp.contents.tasks[t])

(* An update carries the last report of some run, its status first. *)
UpdateInv ==
    /\ \A t \in Tasks, k \in Runs : request[t] = "none" => reports[t][k] = "none"
    /\ Updating => \E k \in Runs : reports[update.task][k] = update.status
    /\ phase \in {"output", "error"} => tasks[update.task].status = update.status
    /\ phase = "error" /\ update.output # NoText => tasks[update.task].output = update.output

(* A client has seen or is about to see the task finished. *)
SeenFinal(t) ==
    \/ t \in finals
    \/ reader.next # "none" /\ reader.task = t /\ response.status \in Final

Again(t) == reader.next # "none" /\ reader.task = t /\ reader.again

ReaderInv ==
    /\ phase = "down" => finals = {} /\ reader.next = "none"
    /\ reader.next \in {"none", "status"} => response = AbsentTask
    /\ \A t \in Tasks :
          /\ SeenFinal(t) => \E k \in Runs : reports[t][k] \in Final
          /\ Again(t) => t \in finals

(* If the only run that has reported is finished, and a client knows, then  *)
(* the task is left alone, and a reader that starts finds it complete.      *)
LeftAlone(t) ==
    /\ SeenFinal(t) => Updated(t).status \in Final
    /\ Again(t) =>
          /\ ~(Updating /\ update.task = t)
          /\ reader.next # "status" => response.status = tasks[t].status
          /\ reader.next \in {"error", "sent"} => response.output = tasks[t].output
          /\ reader.next = "sent" => response.error = tasks[t].error

PollInv == \A t \in Tasks, k \in Runs : Reported(t) = {k} => LeftAlone(t)

USE StoreAssumption

-----------------------------------------------------------------------------
(* Records. *)

LEMMA RecordTypes ==
    /\ NoText \in Texts /\ Runs \subseteq Texts
    /\ AbsentTask \in TaskRecord /\ NewTask \in TaskRecord /\ NewTask # AbsentTask
    /\ Nothing \in Contents /\ Missing \in Files /\ Torn \in Files
    /\ Missing.contents = Nothing /\ Torn.contents = Nothing
    /\ NoUpdate \in [task : Tasks \cup {NoText}, status : {"running"} \cup Final,
                     output : Texts, error : Texts]
BY DEF Texts, AbsentTask, NewTask, TaskRecord, Nothing, Contents, Missing, Torn, Files,
       NoUpdate, Final

LEMMA MemoryType ==
    ASSUME agents \in [Agents -> {"absent", "online", "offline"}],
           tasks \in [Tasks -> TaskRecord]
    PROVE  Memory \in Contents
BY DEF Memory, Contents

LEMMA MemoryFields ==
    ASSUME Memory \in Contents
    PROVE  /\ agents \in [Agents -> {"absent", "online", "offline"}]
           /\ tasks \in [Tasks -> TaskRecord]
BY DEF Memory, Contents

(* Writing a field of a record that is in the store keeps its type and the  *)
(* task in the store.                                                       *)
LEMMA FieldWritten ==
    ASSUME tasks \in [Tasks -> TaskRecord], NEW t \in Tasks,
           NEW f \in {"status", "output", "error"}, NEW v,
           v \in IF f = "status" THEN {"running"} \cup Final ELSE Texts
    PROVE  /\ [tasks EXCEPT ![t][f] = v] \in [Tasks -> TaskRecord]
           /\ v # NoText => [tasks EXCEPT ![t][f] = v][t] # AbsentTask
           /\ [tasks EXCEPT ![t][f] = v][t][f] = v
           /\ \A g \in {"status", "output", "error"} \ {f} :
                 [tasks EXCEPT ![t][f] = v][t][g] = tasks[t][g]
           /\ \A u \in Tasks \ {t} : [tasks EXCEPT ![t][f] = v][u] = tasks[u]
<1>1. CASE f = "status"
  BY <1>1 DEF TaskRecord, AbsentTask, Final
<1>2. CASE f = "output"
  BY <1>2 DEF TaskRecord, AbsentTask, Final
<1>3. CASE f = "error"
  BY <1>3 DEF TaskRecord, AbsentTask, Final
<1> QED BY <1>1, <1>2, <1>3

-----------------------------------------------------------------------------
(* Types. *)

LEMMA TypeInit == Init => TypeInv
<1> SUFFICES ASSUME Init PROVE TypeInv
  OBVIOUS
<1> USE RecordTypes DEF Init
<1>1. /\ agents = Nothing.agents /\ tasks = Nothing.tasks /\ Nothing \in Contents
  OBVIOUS
<1>2. Memory \in Contents
  BY <1>1 DEF Memory, Contents
<1>3. request \in [Tasks -> {"none", "storing", "stored", "acknowledged", "aborted"}]
  OBVIOUS
<1>4. /\ response \in [status : {"absent", "pending", "running", Garbled} \cup Final,
                       output : Texts \cup {Garbled}, error : Texts \cup {Garbled}]
      /\ reader \in [task : Tasks \cup {NoText},
                     next : {"none", "status", "output", "error", "sent"}, again : BOOLEAN]
  BY DEF AbsentTask, NoReader
<1>5. reports \in [Tasks -> [Runs -> {"none", "running"} \cup Final]] /\ events \in 0..MaxEvents
  OBVIOUS
<1>6. CallersWellFormed
  BY DEF CallersWellFormed, Updating, NoReader
<1>7. /\ settled \in Contents /\ tmp \in Files /\ file \in Files
      /\ update \in [task : Tasks \cup {NoText}, status : {"running"} \cup Final,
                     output : Texts, error : Texts]
  OBVIOUS
<1> HIDE DEF Init
<1> QED BY <1>2, <1>3, <1>4, <1>5, <1>6, <1>7 DEF Init, TypeInv, TypeOK

(* One field is written, or read for a response. *)
LEMMA WriteFieldType ==
    ASSUME TypeInv, NEW f \in {"status", "output", "error"},
           NEW next \in {"output", "error", "write"}, WriteField(f, next)
    PROVE  TypeInv'
<1>1. tasks \in [Tasks -> TaskRecord] /\ agents \in [Agents -> {"absent", "online", "offline"}]
  BY MemoryFields DEF TypeInv, TypeOK
<1>2. update.task \in Tasks
  BY DEF TypeInv, CallersWellFormed, Updating, WriteField
<1>3. update[f] \in IF f = "status" THEN {"running"} \cup Final ELSE Texts
  BY DEF TypeInv, TypeOK
<1>4. tasks' \in [Tasks -> TaskRecord]
  BY <1>1, <1>2, <1>3, FieldWritten, SMTT(30) DEF WriteField
<1>5. Memory' \in Contents
  BY <1>1, <1>4 DEF WriteField, Memory, Contents
<1>6. /\ update' \in [task : Tasks \cup {NoText}, status : {"running"} \cup Final,
                      output : Texts, error : Texts]
      /\ next # "write" => update'.task \in Tasks
  BY <1>2, RecordTypes DEF TypeInv, TypeOK, WriteField
<1> QED BY <1>5, <1>6 DEF TypeInv, TypeOK, CallersWellFormed, Updating, WriteField, diskVars,
                          readVars, lossVars

LEMMA EncodeFieldType ==
    ASSUME TypeInv, NEW f \in {"status", "output", "error"},
           NEW next \in {"output", "error", "sent"}, EncodeField(f, next)
    PROVE  TypeInv'
<1>1. tasks \in [Tasks -> TaskRecord]
  BY MemoryFields DEF TypeInv, TypeOK
<1>2. reader.task \in Tasks
  BY DEF TypeInv, CallersWellFormed, EncodeField
<1>3. PICK v \in Seen(f) : response' = [response EXCEPT ![f] = v]
  BY DEF EncodeField
<1>4. v = Garbled \/ v = tasks[reader.task][f]
  BY <1>3 DEF Seen
<1>5. response' \in [status : {"absent", "pending", "running", Garbled} \cup Final,
                     output : Texts \cup {Garbled}, error : Texts \cup {Garbled}]
  BY <1>1, <1>2, <1>3, <1>4 DEF TypeInv, TypeOK, TaskRecord
<1>6. /\ reader' \in [task : Tasks \cup {NoText},
                      next : {"none", "status", "output", "error", "sent"}, again : BOOLEAN]
      /\ reader'.task \in Tasks
  BY <1>2 DEF TypeInv, TypeOK, EncodeField
<1> QED BY <1>5, <1>6 DEF TypeInv, TypeOK, CallersWellFormed, Updating, EncodeField, memVars,
                          callVars, diskVars, lossVars, Memory

LEMMA TypeNext == TypeInv /\ [Next]_vars => TypeInv'
<1> SUFFICES ASSUME TypeInv, [Next]_vars PROVE TypeInv'
  OBVIOUS
<1> USE RecordTypes DEF CallersWellFormed, Updating
<1>0. /\ tasks \in [Tasks -> TaskRecord]
      /\ agents \in [Agents -> {"absent", "online", "offline"}]
  BY MemoryFields DEF TypeInv, TypeOK
<1>1. ASSUME NEW t \in Tasks, CreateTask(t) PROVE TypeInv'
  <2>1. tasks' \in [Tasks -> TaskRecord]
    BY <1>0, <1>1 DEF CreateTask
  <2>2. Memory' \in Contents
    BY <1>0, <1>1, <2>1 DEF CreateTask, Memory, Contents
  <2> QED BY <1>1, <2>2 DEF TypeInv, TypeOK, CreateTask, diskVars, readVars, lossVars
<1>2. ASSUME NEW t \in Tasks, Acknowledge(t) PROVE TypeInv'
  BY <1>2 DEF TypeInv, TypeOK, Acknowledge, memVars, callVars, diskVars, readVars, lossVars, Memory
<1>3. ASSUME NEW t \in Tasks, NEW k \in Runs, NEW s \in {"running"} \cup Final,
             UpdateTask(t, k, s)
      PROVE TypeInv'
  <2>1. UpdateOf(t, k, s) \in [task : Tasks \cup {NoText}, status : {"running"} \cup Final,
                               output : Texts, error : Texts]
        /\ UpdateOf(t, k, s).task = t
    BY DEF UpdateOf
  <2>2. reports' \in [Tasks -> [Runs -> {"none", "running"} \cup Final]]
    BY <1>3 DEF TypeInv, TypeOK, UpdateTask
  <2>3. Memory' = Memory
    BY <1>3 DEF UpdateTask, memVars, Memory
  <2> QED BY <1>3, <2>1, <2>2, <2>3 DEF TypeInv, TypeOK, UpdateTask, diskVars, readVars, lossVars
<1>4. ASSUME NEW A \in SUBSET Agents, NEW s \in {"online", "offline"}, SetAgents(A, s)
      PROVE TypeInv'
  <2>1. Memory' \in Contents
    BY <1>0, <1>4 DEF SetAgents, Memory, Contents
  <2> QED BY <1>4, <2>1 DEF TypeInv, TypeOK, SetAgents, diskVars, readVars, lossVars
<1>5. ASSUME WriteFields PROVE TypeInv'
  BY <1>5, WriteFieldType DEF WriteFields
<1>6. ASSUME Persist PROVE TypeInv'
  <2>1. Memory' = Memory /\ Memory \in Contents
    BY <1>6 DEF TypeInv, TypeOK, Persist, WriteTmp, WriteFails, Rename, RenameFails, Unlock,
                memVars, Memory
  <2>2. /\ tmp' \in Files /\ file' \in Files /\ settled' \in Contents
        /\ request' \in [Tasks -> {"none", "storing", "stored", "acknowledged", "aborted"}]
        /\ events' \in 0..MaxEvents
    BY <1>6, <2>1 DEF TypeInv, TypeOK, Persist, WriteTmp, WriteFails, Rename, RenameFails,
                      Unlock, Event, diskVars, Files
  <2>3. /\ phase' \in {"free", "rename"} /\ synced' \in BOOLEAN /\ diverged' \in BOOLEAN
        /\ UNCHANGED <<update, readVars, reports, lost>>
    BY <1>6 DEF TypeInv, TypeOK, Persist, WriteTmp, WriteFails, Rename, RenameFails, Unlock,
                diskVars, lossVars
  <2> QED BY <2>1, <2>2, <2>3 DEF TypeInv, TypeOK, readVars
<1>7. ASSUME Read PROVE TypeInv'
  <2>1. ASSUME NEW t \in Tasks, GetTask(t) PROVE TypeInv'
    BY <2>1 DEF TypeInv, TypeOK, GetTask, Event, memVars, callVars, diskVars, lossVars, Memory
  <2>2. CASE Respond
    <3>1. /\ reader' \in [task : Tasks \cup {NoText},
                          next : {"none", "status", "output", "error", "sent"}, again : BOOLEAN]
          /\ reader'.next = "none"
          /\ response' \in [status : {"absent", "pending", "running", Garbled} \cup Final,
                            output : Texts \cup {Garbled}, error : Texts \cup {Garbled}]
      BY <2>2 DEF Respond, NoReader, AbsentTask
    <3>2. finals' \in SUBSET Tasks
      BY <2>2 DEF TypeInv, TypeOK, Respond
    <3> QED BY <2>2, <3>1, <3>2 DEF TypeInv, TypeOK, Respond, memVars, callVars, diskVars,
                                    lossVars, Memory
  <2> QED BY <1>7, <2>1, <2>2, EncodeFieldType DEF Read
<1>8. ASSUME Stop, tmp' \in Files, file' \in Files, synced' \in BOOLEAN, lost' \in BOOLEAN
      PROVE TypeInv'
  <2>1. Memory' \in Contents
    BY <1>8 DEF Stop, Memory, Contents
  <2>2. /\ update' \in [task : Tasks \cup {NoText}, status : {"running"} \cup Final,
                        output : Texts, error : Texts]
        /\ reader' \in [task : Tasks \cup {NoText},
                        next : {"none", "status", "output", "error", "sent"}, again : BOOLEAN]
        /\ reader'.next = "none"
        /\ response' \in [status : {"absent", "pending", "running", Garbled} \cup Final,
                          output : Texts \cup {Garbled}, error : Texts \cup {Garbled}]
    BY <1>8 DEF Stop, NoReader, AbsentTask
  <2>3. request' \in [Tasks -> {"none", "storing", "stored", "acknowledged", "aborted"}]
        /\ events' \in 0..MaxEvents /\ finals' \in SUBSET Tasks
    BY <1>8 DEF TypeInv, TypeOK, Stop, Event
  <2> QED BY <1>8, <2>1, <2>2, <2>3 DEF TypeInv, TypeOK, Stop
<1>9. ASSUME Crash PROVE TypeInv'
  BY <1>8, <1>9 DEF TypeInv, TypeOK, Crash
<1>10. ASSUME PowerFails PROVE TypeInv'
  <2>1. tmp' \in Files /\ file' \in Files /\ synced' \in BOOLEAN /\ lost' \in BOOLEAN
    BY <1>10 DEF TypeInv, TypeOK, PowerFails
  <2> QED BY <1>8, <1>10, <2>1 DEF PowerFails
<1>11. ASSUME Sync PROVE TypeInv'
  BY <1>11 DEF TypeInv, TypeOK, Sync, memVars, callVars, readVars, lossVars, Memory
<1>12. ASSUME NEW m \in Contents, Start(m), diverged' \in BOOLEAN, lost' \in BOOLEAN,
              events' \in 0..MaxEvents
       PROVE TypeInv'
  <2>1. Memory' \in Contents
    BY <1>12 DEF Start, Memory, Contents
  <2> QED BY <1>12, <2>1 DEF TypeInv, TypeOK, Start, diskVars, readVars
<1>13. ASSUME Load PROVE TypeInv'
  <2>1. file.contents \in Contents
    BY DEF TypeInv, TypeOK, Files
  <2> QED BY <1>12, <1>13, <2>1 DEF TypeInv, TypeOK, Load
<1>14. ASSUME LoadFails PROVE TypeInv'
  BY <1>12, <1>14 DEF TypeInv, TypeOK, LoadFails, Event
<1>15. ASSUME UNCHANGED vars PROVE TypeInv'
  BY <1>15 DEF TypeInv, TypeOK, vars, memVars, callVars, diskVars, readVars, lossVars, Memory
<1> QED BY <1>1, <1>2, <1>3, <1>4, <1>5, <1>6, <1>7, <1>9, <1>10, <1>11, <1>13, <1>14, <1>15
        DEF Next, UpsertAgent, SetAgentOffline, MarkStaleAgents

(* Every variable of Store keeps to its set: an update and a response are   *)
(* always of some task, and every file can be loaded.                       *)
THEOREM TypeCorrect == Spec => []TypeOK
<1>1. Spec => []TypeInv
  BY TypeInit, TypeNext, PTL DEF Spec
<1> QED BY <1>1, PTL DEF TypeInv

-----------------------------------------------------------------------------
(* What a call changes before it releases the lock. *)

LEMMA Typed ==
    ASSUME TypeInv
    PROVE  /\ tasks \in [Tasks -> TaskRecord] /\ settled \in Contents
           /\ agents \in [Agents -> {"absent", "online", "offline"}]
           /\ Memory \in Contents /\ file.contents \in Contents /\ tmp.contents \in Contents
           /\ settled.tasks \in [Tasks -> TaskRecord]
           /\ file.contents.tasks \in [Tasks -> TaskRecord]
           /\ tmp.contents.tasks \in [Tasks -> TaskRecord]
BY MemoryFields DEF TypeInv, TypeOK, Files, Contents

(* What a step of an update leaves: the field and the phase. *)
LEMMA WriteFieldsStep ==
    ASSUME TypeInv, WriteFields
    PROVE  \E f \in {"status", "output", "error"} :
             /\ phase = f /\ update.task \in Tasks
             /\ phase' = IF f = "status" THEN "output" ELSE IF f = "output" THEN "error"
                         ELSE "write"
             /\ tasks' \in [Tasks -> TaskRecord]
             /\ tasks'[update.task][f] =
                  IF update[f] = NoText THEN tasks[update.task][f] ELSE update[f]
             /\ \A g \in {"status", "output", "error"} \ {f} :
                   tasks'[update.task][g] = tasks[update.task][g]
             /\ \A u \in Tasks \ {update.task} : tasks'[u] = tasks[u]
             /\ tasks[update.task] # AbsentTask => tasks'[update.task] # AbsentTask
             /\ f # "error" => update' = update
             /\ UNCHANGED <<agents, settled, diskVars, readVars, lossVars, request, reports,
                            events>>
<1>1. PICK f \in {"status", "output", "error"}, next \in {"output", "error", "write"} :
         /\ WriteField(f, next)
         /\ next = IF f = "status" THEN "output" ELSE IF f = "output" THEN "error" ELSE "write"
  BY DEF WriteFields
<1>2. phase = f /\ update.task \in Tasks
  BY <1>1 DEF TypeInv, CallersWellFormed, Updating, WriteField
<1>3. update[f] \in IF f = "status" THEN {"running"} \cup Final ELSE Texts
  BY DEF TypeInv, TypeOK
<1>4. CASE update[f] = NoText
  BY <1>1, <1>2, <1>4, Typed DEF WriteField
<1>5. CASE update[f] # NoText
  <2>1. tasks' = [tasks EXCEPT ![update.task][f] = update[f]]
    BY <1>1, <1>5 DEF WriteField
  <2>2. /\ tasks' \in [Tasks -> TaskRecord] /\ tasks'[update.task] # AbsentTask
        /\ tasks'[update.task][f] = update[f]
        /\ \A g \in {"status", "output", "error"} \ {f} :
              tasks'[update.task][g] = tasks[update.task][g]
        /\ \A u \in Tasks \ {update.task} : tasks'[u] = tasks[u]
    <3>1. tasks \in [Tasks -> TaskRecord]
      BY Typed
    <3> DEFINE new == [tasks EXCEPT ![update.task][f] = update[f]]
    <3>2. /\ new \in [Tasks -> TaskRecord] /\ new[update.task] # AbsentTask
          /\ new[update.task][f] = update[f]
          /\ \A g \in {"status", "output", "error"} \ {f} :
                new[update.task][g] = tasks[update.task][g]
          /\ \A u \in Tasks \ {update.task} : new[u] = tasks[u]
      BY <1>2, <1>3, <1>5, <3>1, FieldWritten
    <3> QED BY <2>1, <3>2
  <2> QED BY <1>1, <1>2, <1>5, <2>2 DEF WriteField
<1> QED BY <1>4, <1>5

LEMMA CallInit == Init => CallInv
BY DEF Init, CallInv, Updating, Memory, Nothing

LEMMA CallNext == TypeInv /\ CallInv /\ [Next]_vars => CallInv'
<1> SUFFICES ASSUME TypeInv, CallInv, [Next]_vars PROVE CallInv'
  OBVIOUS
<1> USE Typed DEF CallInv, Updating, ChangesTask
<1>1. ASSUME NEW t \in Tasks, CreateTask(t) PROVE CallInv'
  <2>1. /\ phase' = "write" /\ agents' = settled'.agents /\ tasks'[t] # AbsentTask
        /\ \A u \in Tasks \ {t} : tasks'[u] = settled'.tasks[u]
    BY <1>1, RecordTypes DEF CreateTask, Memory
  <2> QED BY <2>1
<1>2. ASSUME NEW t \in Tasks, Acknowledge(t) PROVE CallInv'
  BY <1>2 DEF Acknowledge, memVars, callVars, diskVars, Memory
<1>3. ASSUME NEW t \in Tasks, NEW k \in Runs, NEW s \in {"running"} \cup Final,
             UpdateTask(t, k, s)
      PROVE CallInv'
  <2>1. UpdateOf(t, k, s).task = t
    BY DEF UpdateOf
  <2>2. /\ agents' = settled'.agents /\ tasks' = settled'.tasks
        /\ settled' = Memory'
    BY <1>3 DEF UpdateTask, memVars, Memory
  <2>3. \/ phase' = "free"
        \/ phase' = "status" /\ update'.task = t /\ tasks'[t] # AbsentTask
    BY <1>3, <2>1 DEF UpdateTask, memVars
  <2> QED BY <2>2, <2>3
<1>4. ASSUME NEW A \in SUBSET Agents, NEW s \in {"online", "offline"}, SetAgents(A, s)
      PROVE CallInv'
  BY <1>4 DEF SetAgents, Memory
<1>5. ASSUME WriteFields PROVE CallInv'
  BY <1>5, WriteFieldsStep
<1>6. ASSUME Persist PROVE CallInv'
  <2>1. CASE WriteTmp
    BY <2>1 DEF WriteTmp, memVars, Memory
  <2>2. CASE ~WriteTmp
    BY <1>6, <2>2 DEF Persist, WriteFails, Rename, RenameFails, Unlock, memVars, Memory
  <2> QED BY <2>1, <2>2
<1>7. ASSUME Read PROVE CallInv'
  BY <1>7 DEF Read, GetTask, EncodeField, Respond, memVars, callVars, diskVars, Memory
<1>8. ASSUME Crash \/ PowerFails PROVE CallInv'
  BY <1>8 DEF Crash, PowerFails, Stop
<1>9. ASSUME Sync PROVE CallInv'
  BY <1>9 DEF Sync, memVars, callVars, Memory
<1>10. ASSUME NEW m \in Contents, Start(m) PROVE CallInv'
  <2>1. m = [agents |-> m.agents, tasks |-> m.tasks]
    BY DEF Contents
  <2> QED BY <1>10, <2>1 DEF Start, Memory
<1>11. ASSUME Load \/ LoadFails PROVE CallInv'
  BY <1>10, <1>11, RecordTypes DEF Load, LoadFails
<1>12. ASSUME UNCHANGED vars PROVE CallInv'
  BY <1>12 DEF vars, memVars, callVars, diskVars, Memory
<1> QED BY <1>1, <1>2, <1>3, <1>4, <1>5, <1>6, <1>7, <1>8, <1>9, <1>11, <1>12
        DEF Next, UpsertAgent, SetAgentOffline, MarkStaleAgents

-----------------------------------------------------------------------------
(* The data file. *)

LEMMA FileInit == Init => FileCurrent
BY DEF Init, FileCurrent, Missing, Nothing, Memory

LEMMA FileNext ==
    TypeInv /\ CallInv /\ FileCurrent /\ [Next]_vars => FileCurrent'
<1> SUFFICES ASSUME TypeInv, CallInv, FileCurrent, [Next]_vars PROVE FileCurrent'
  OBVIOUS
<1> USE Typed DEF FileCurrent
<1>1. ASSUME NEW t \in Tasks, CreateTask(t) PROVE FileCurrent'
  BY <1>1 DEF CreateTask
<1>2. ASSUME NEW t \in Tasks, Acknowledge(t) PROVE FileCurrent'
  BY <1>2 DEF Acknowledge, memVars, callVars, diskVars, lossVars, Memory
<1>3. ASSUME NEW t \in Tasks, NEW k \in Runs, NEW s \in {"running"} \cup Final,
             UpdateTask(t, k, s)
      PROVE FileCurrent'
  BY <1>3 DEF UpdateTask, memVars, diskVars, lossVars, Memory
<1>4. ASSUME NEW A \in SUBSET Agents, NEW s \in {"online", "offline"}, SetAgents(A, s)
      PROVE FileCurrent'
  BY <1>4 DEF SetAgents
<1>5. ASSUME WriteFields PROVE FileCurrent'
  BY <1>5, WriteFieldsStep
<1>6. CASE Persist
  BY <1>6 DEF CallInv, Persist, WriteTmp, WriteFails, Rename, RenameFails, Unlock, memVars, Memory
<1>7. CASE Read
  BY <1>7 DEF Read, GetTask, EncodeField, Respond, memVars, callVars, diskVars, lossVars, Memory
<1>8. CASE Crash \/ PowerFails
  BY <1>8 DEF Crash, PowerFails, Stop
<1>9. CASE Sync
  BY <1>9 DEF Sync, memVars, callVars, lossVars, Memory
<1>10. CASE Load
  <2>1. file.contents = [agents |-> file.contents.agents, tasks |-> file.contents.tasks]
    BY DEF Contents
  <2> QED BY <1>10, <2>1 DEF Load, Start, diskVars, Memory
<1>11. CASE LoadFails
  BY <1>11 DEF LoadFails
<1>12. CASE UNCHANGED vars
  BY <1>12 DEF vars, memVars, callVars, diskVars, lossVars, Memory
<1> QED BY <1>1, <1>2, <1>3, <1>4, <1>5, <1>6, <1>7, <1>8, <1>9, <1>10, <1>11, <1>12
        DEF Next, UpsertAgent, SetAgentOffline, MarkStaleAgents

(* Each call that changes the maps persists them before it releases the     *)
(* lock, and a start takes over all that is on file.                        *)
THEOREM FileCurrentCorrect == Spec => []FileCurrent
<1>1. Spec => [](TypeInv /\ CallInv /\ FileCurrent)
  BY TypeInit, TypeNext, CallInit, CallNext, FileInit, FileNext, PTL DEF Spec
<1> QED BY <1>1, PTL

-----------------------------------------------------------------------------
(* What can be lost. *)

LEMMA LossInit == Init => LossInv
BY DEF Init, LossInv, OnFile, Missing, Nothing

LEMMA LossNext ==
    TypeInv /\ CallInv /\ LossInv /\ [Next]_vars => LossInv'
<1> SUFFICES ASSUME TypeInv, CallInv, LossInv, [Next]_vars PROVE LossInv'
  OBVIOUS
<1> USE Typed DEF LossInv, OnFile
<1>1. ASSUME NEW t \in Tasks, CreateTask(t) PROVE LossInv'
  BY <1>1, RecordTypes DEF TypeInv, TypeOK, CreateTask, diskVars, lossVars
<1>2. ASSUME NEW t \in Tasks, Acknowledge(t) PROVE LossInv'
  BY <1>2 DEF TypeInv, TypeOK, Acknowledge, memVars, callVars, diskVars, lossVars
<1>3. ASSUME NEW t \in Tasks, NEW k \in Runs, NEW s \in {"running"} \cup Final,
             UpdateTask(t, k, s)
      PROVE LossInv'
  BY <1>3 DEF UpdateTask, memVars, diskVars, lossVars
<1>4. ASSUME NEW A \in SUBSET Agents, NEW s \in {"online", "offline"}, SetAgents(A, s)
      PROVE LossInv'
  BY <1>4 DEF SetAgents, diskVars, lossVars
<1>5. ASSUME WriteFields PROVE LossInv'
  BY <1>5, WriteFieldsStep DEF diskVars, lossVars
<1>6. CASE Persist
  <2>1. CASE WriteTmp
    BY <2>1 DEF WriteTmp, memVars, lossVars
  <2>2. CASE WriteFails \/ RenameFails
    BY <2>2 DEF TypeInv, TypeOK, WriteFails, RenameFails, Unlock, memVars, diskVars
  <2>3. CASE Rename
    <3>1. /\ \A t \in Tasks : file'.contents.tasks[t] = tasks[t]
          /\ phase # "down" /\ phase' = "free"
          /\ UNCHANGED <<memVars, lost>>
          /\ \A t \in Tasks : request'[t] =
                IF request[t] = "storing" THEN "stored" ELSE request[t]
      BY <2>3 DEF CallInv, Rename, Unlock, Memory
    <3> QED BY <3>1 DEF memVars
  <2> QED BY <1>6, <2>1, <2>2, <2>3 DEF Persist
<1>7. CASE Read
  BY <1>7 DEF Read, GetTask, EncodeField, Respond, memVars, callVars, diskVars, lossVars
<1>8. CASE Crash \/ PowerFails
  <2>1. /\ phase' = "down" /\ diverged' = diverged
        /\ ~lost' => ~lost /\ ~diverged /\ file' = file
    BY <1>8 DEF Crash, PowerFails, Stop
  <2>2. \A t \in Tasks : /\ request'[t] # "storing" /\ request'[t] # "stored"
                         /\ request'[t] = "acknowledged" => request[t] = "acknowledged"
    BY <1>8 DEF TypeInv, TypeOK, Crash, PowerFails, Stop
  <2> QED BY <2>1, <2>2
<1>9. CASE Sync
  BY <1>9 DEF Sync, memVars, callVars, lossVars
<1>10. CASE Load
  BY <1>10 DEF Load, Start, diskVars
<1>11. CASE LoadFails
  BY <1>11 DEF LoadFails
<1>12. CASE UNCHANGED vars
  BY <1>12 DEF vars, memVars, callVars, diskVars, lossVars
<1> QED BY <1>1, <1>2, <1>3, <1>4, <1>5, <1>6, <1>7, <1>8, <1>9, <1>10, <1>11, <1>12
        DEF Next, UpsertAgent, SetAgentOffline, MarkStaleAgents

(* An acknowledged task is in memory and on file after any number of        *)
(* crashes, unless a write failed before a crash, the file could not be     *)
(* read or the power failed.                                                *)
THEOREM AcknowledgedCorrect == Spec => []AcknowledgedTaskKept
<1>1. LossInv => AcknowledgedTaskKept
  BY DEF LossInv, OnFile, AcknowledgedTaskKept
<1>2. Spec => [](TypeInv /\ CallInv /\ LossInv)
  BY TypeInit, TypeNext, CallInit, CallNext, LossInit, LossNext, PTL DEF Spec
<1> QED BY <1>1, <1>2, PTL

(* No step but a power failure takes a task from the file, as long as the   *)
(* server has started with what the file held.                              *)
THEOREM FileTasksCorrect == Spec => FileTasksKept
<1>1. TypeInv /\ CallInv /\ LossInv /\ [Next]_vars =>
        [\A t \in Tasks : file.contents.tasks[t] # AbsentTask =>
            lost' \/ file'.contents.tasks[t] # AbsentTask]_vars
  <2> SUFFICES ASSUME TypeInv, CallInv, LossInv, Next,
                      NEW t \in Tasks, file.contents.tasks[t] # AbsentTask, ~lost'
               PROVE  file'.contents.tasks[t] # AbsentTask
    OBVIOUS
  <2>1. file' = file \/ Rename
    <3>1. ASSUME WriteFields PROVE file' = file
      BY <3>1 DEF WriteFields, WriteField, diskVars
    <3> QED BY <3>1 DEF Next, CreateTask, Acknowledge, UpdateTask, UpsertAgent, SetAgentOffline,
            MarkStaleAgents, SetAgents, Persist, WriteTmp, WriteFails, RenameFails, Read,
            GetTask, EncodeField, Respond, Crash, PowerFails, Sync, Load, LoadFails, Start,
            diskVars
  <2>2. ASSUME Rename PROVE file'.contents.tasks[t] # AbsentTask
    <3>1. file'.contents.tasks[t] = tasks[t] /\ ~lost /\ phase # "down"
      BY <2>2 DEF CallInv, Rename, Unlock, Memory
    <3> QED BY <3>1 DEF LossInv, OnFile
  <2> QED BY <2>1, <2>2
<1>2. Spec => [](TypeInv /\ CallInv /\ LossInv)
  BY TypeInit, TypeNext, CallInit, CallNext, LossInit, LossNext, PTL DEF Spec
<1> QED BY <1>1, <1>2, PTL DEF Spec, FileTasksKept

-----------------------------------------------------------------------------
(* The contract. A call takes effect when its holder releases the lock.     *)

LEMMA UnlockIsCall ==
    ASSUME TypeInv, CallInv, phase \in {"write", "rename"}, phase' = "free",
           settled' = Memory, file'.contents \in {file.contents, Memory}
    PROVE  Contract!Next
<1> USE Typed
<1>1. /\ settled = [agents |-> settled.agents, tasks |-> settled.tasks]
      /\ Memory.agents = agents /\ Memory.tasks = tasks
      /\ Memory = [agents |-> agents, tasks |-> tasks]
      /\ DOMAIN settled.tasks = Tasks
  BY DEF Contents, Memory
<1>2. /\ (phase # "down") /\ (phase # "down")'
      /\ file'.contents \in {file.contents, settled'}
  OBVIOUS
<1>3. CASE tasks = settled.tasks
  <2>1. settled' = [settled EXCEPT !.agents = settled'.agents]
    BY <1>1, <1>3
  <2>2. Contract!ChangeAgents
    BY <1>2, <2>1 DEF Contract!ChangeAgents, Contract!Call
  <2> QED BY <2>2 DEF Contract!Next
<1>4. ASSUME NEW t \in Tasks, ChangesTask(t) PROVE Contract!Next
  <2>1. tasks = [settled.tasks EXCEPT ![t] = tasks[t]]
    BY <1>4 DEF ChangesTask
  <2>2. settled' = [settled EXCEPT !.tasks[t] = settled'.tasks[t]]
    BY <1>1, <1>4, <2>1 DEF ChangesTask
  <2>3. settled'.tasks[t] # Nothing.tasks[t]
    BY <1>1, <1>4 DEF ChangesTask, Nothing
  <2>4. Contract!ChangeTask(t)
    BY <1>2, <2>2, <2>3 DEF Contract!ChangeTask, Contract!Call
  <2> QED BY <1>1, <2>4 DEF Contract!Next
<1> QED BY <1>3, <1>4 DEF CallInv

LEMMA StepOfContract ==
    TypeInv /\ CallInv /\ [Next]_vars =>
        [Contract!Next]_<<settled, file.contents, phase # "down">>
<1> SUFFICES ASSUME TypeInv, CallInv, [Next]_vars
             PROVE  \/ Contract!Next
                    \/ UNCHANGED <<settled, file.contents, phase # "down">>
  OBVIOUS
<1> DEFINE Stutter == UNCHANGED <<settled, file.contents, phase # "down">>
<1>1. ASSUME NEW t \in Tasks, CreateTask(t) \/ Acknowledge(t) PROVE Stutter
  BY <1>1 DEF CreateTask, Acknowledge, callVars, diskVars
<1>2. ASSUME NEW t \in Tasks, NEW k \in Runs, NEW s \in {"running"} \cup Final,
             UpdateTask(t, k, s)
      PROVE Stutter
  BY <1>2 DEF UpdateTask, diskVars
<1>3. ASSUME NEW A \in SUBSET Agents, NEW s \in {"online", "offline"}, SetAgents(A, s)
      PROVE Stutter
  BY <1>3 DEF SetAgents, diskVars
<1>4. CASE WriteFields
  BY <1>4, WriteFieldsStep DEF diskVars
<1>5. CASE WriteTmp
  BY <1>5 DEF WriteTmp
<1>6. CASE WriteFails \/ Rename \/ RenameFails
  <2>1. /\ phase \in {"write", "rename"} /\ phase' = "free" /\ settled' = Memory
        /\ file'.contents \in {file.contents, Memory}
    BY <1>6 DEF CallInv, WriteFails, Rename, RenameFails, Unlock, diskVars
  <2> QED BY <2>1, UnlockIsCall
<1>7. CASE Read \/ Sync
  BY <1>7 DEF Read, GetTask, EncodeField, Respond, Sync, callVars, diskVars
<1>8. CASE Crash \/ PowerFails
  BY <1>8 DEF Crash, PowerFails, Stop, Contract!Next, Contract!Stop
<1>9. CASE Load \/ LoadFails
  BY <1>9 DEF Load, LoadFails, Start, diskVars, Contract!Next, Contract!Start
<1>10. CASE UNCHANGED vars
  BY <1>10 DEF vars, callVars, diskVars
<1> QED BY <1>1, <1>2, <1>3, <1>4, <1>5, <1>6, <1>7, <1>8, <1>9, <1>10
        DEF Next, Persist, UpsertAgent, SetAgentOffline, MarkStaleAgents

(* Seen from the handlers, each call of the store is one step on one task   *)
(* or on agents alone, and what is on file was left by some call: failed    *)
(* writes, crashes between any two steps and restarts included.             *)
THEOREM ContractCorrect == Spec => StoreContractKept
<1>1. Init => Contract!Init
  BY DEF Init, Contract!Init, Missing
<1>2. Spec => [](TypeInv /\ CallInv)
  BY TypeInit, TypeNext, CallInit, CallNext, PTL DEF Spec
<1> QED BY <1>1, <1>2, StepOfContract, PTL DEF Spec, StoreContractKept, Contract!Spec

-----------------------------------------------------------------------------
(* What a record says. *)

LEMMA NotUpdating ==
    ASSUME TypeInv, ~Updating, NEW t \in Tasks
    PROVE  Updated(t) = tasks[t]
<1>1. tasks[t] = [status |-> tasks[t].status, output |-> tasks[t].output,
                  error |-> tasks[t].error]
  BY Typed DEF TaskRecord
<1> QED BY <1>1 DEF Updated, Field

(* A run's last report stays what it was. *)
LEMMA ReportsStable ==
    TypeInv /\ [Next]_vars =>
        \A t \in Tasks, k \in Runs :
            /\ reports'[t][k] \in {"none", "running"} \cup Final
            /\ reports[t][k] # "none" => reports'[t][k] # "none"
            /\ reports[t][k] \in Final => reports'[t][k] = reports[t][k]
<1> SUFFICES ASSUME TypeInv, [Next]_vars, NEW t \in Tasks, NEW k \in Runs
             PROVE  /\ reports'[t][k] \in {"none", "running"} \cup Final
                    /\ reports[t][k] # "none" => reports'[t][k] # "none"
                    /\ reports[t][k] \in Final => reports'[t][k] = reports[t][k]
  OBVIOUS
<1>1. reports \in [Tasks -> [Runs -> {"none", "running"} \cup Final]]
  BY DEF TypeInv, TypeOK
<1>2. ASSUME NEW u \in Tasks, NEW j \in Runs, NEW s \in {"running"} \cup Final,
             UpdateTask(u, j, s)
      PROVE  /\ reports'[t][k] \in {"none", "running"} \cup Final
             /\ reports[t][k] # "none" => reports'[t][k] # "none"
             /\ reports[t][k] \in Final => reports'[t][k] = reports[t][k]
  BY <1>1, <1>2 DEF UpdateTask, Final
<1>3. reports' = reports \/ \E u \in Tasks, j \in Runs, s \in {"running"} \cup Final :
                                UpdateTask(u, j, s)
  BY DEF Next, CreateTask, Acknowledge, UpsertAgent, SetAgentOffline, MarkStaleAgents,
         SetAgents, WriteFields, WriteField, Persist, WriteTmp, WriteFails, Rename,
         RenameFails, Unlock, Read, GetTask, EncodeField, Respond, Crash, PowerFails, Stop,
         Sync, Load, LoadFails, Start, vars
<1> QED BY <1>1, <1>2, <1>3

LEMMA TextsStable ==
    ASSUME TypeInv, [Next]_vars, NEW t \in Tasks, NEW record, TextsOf(reports[t], record)
    PROVE  TextsOf(reports'[t], record)
BY ReportsStable DEF TextsOf, Final

(* A step of an update does not change what the update will have left. *)
LEMMA UpdatedKept ==
    ASSUME TypeInv, UpdateInv, WriteFields, NEW t \in Tasks
    PROVE  Updated(t)' = Updated(t)
<1>1. PICK f \in {"status", "output", "error"} :
        /\ phase = f /\ update.task \in Tasks
        /\ phase' = IF f = "status" THEN "output" ELSE IF f = "output" THEN "error" ELSE "write"
        /\ tasks'[update.task][f] =
             IF update[f] = NoText THEN tasks[update.task][f] ELSE update[f]
        /\ \A g \in {"status", "output", "error"} \ {f} :
              tasks'[update.task][g] = tasks[update.task][g]
        /\ \A u \in Tasks \ {update.task} : tasks'[u] = tasks[u]
        /\ f # "error" => update' = update
  BY WriteFieldsStep
<1>2. CASE t # update.task
  BY <1>1, <1>2 DEF Updated, Field, Updating
<1>3. CASE t = update.task /\ f # "error"
  BY <1>1, <1>3 DEF Updated, Field, Updating
<1>4. CASE t = update.task /\ f = "error"
  BY <1>1, <1>4 DEF UpdateInv, Updated, Field, Updating
<1> QED BY <1>2, <1>3, <1>4

LEMMA UpdateInit == Init => UpdateInv
BY DEF Init, UpdateInv, Updating

LEMMA UpdateNext == TypeInv /\ UpdateInv /\ [Next]_vars => UpdateInv'
<1> SUFFICES ASSUME TypeInv, UpdateInv, [Next]_vars PROVE UpdateInv'
  OBVIOUS
<1> USE DEF UpdateInv, Updating
<1>1. ASSUME NEW t \in Tasks, CreateTask(t) \/ Acknowledge(t) PROVE UpdateInv'
  BY <1>1 DEF TypeInv, TypeOK, CreateTask, Acknowledge, callVars, memVars
<1>2. ASSUME NEW t \in Tasks, NEW k \in Runs, NEW s \in {"running"} \cup Final,
             UpdateTask(t, k, s)
      PROVE UpdateInv'
  <2>1. UpdateOf(t, k, s).task = t /\ UpdateOf(t, k, s).status = s
    BY DEF UpdateOf
  <2>2. reports \in [Tasks -> [Runs -> {"none", "running"} \cup Final]]
    BY DEF TypeInv, TypeOK
  <2>3. /\ request' = request /\ request[t] # "none" /\ reports'[t][k] = s
        /\ \A u \in Tasks \ {t} : reports'[u] = reports[u]
        /\ \/ phase' = "free"
           \/ phase' = "status" /\ update' = UpdateOf(t, k, s)
    BY <1>2, <2>2 DEF UpdateTask
  <2> QED BY <2>1, <2>3
<1>3. ASSUME NEW A \in SUBSET Agents, NEW s \in {"online", "offline"}, SetAgents(A, s)
      PROVE UpdateInv'
  BY <1>3 DEF SetAgents
<1>4. CASE WriteFields
  <2>1. update.status # NoText
    BY DEF TypeInv, TypeOK, Final
  <2>2. reports' = reports /\ request' = request
    BY <1>4, WriteFieldsStep
  <2> QED BY <1>4, <2>1, <2>2, WriteFieldsStep
<1>5. CASE Persist
  BY <1>5 DEF TypeInv, TypeOK, Persist, WriteTmp, WriteFails, Rename, RenameFails, Unlock
<1>6. CASE Read \/ Sync
  BY <1>6 DEF Read, GetTask, EncodeField, Respond, Sync, callVars, memVars
<1>7. CASE Crash \/ PowerFails
  BY <1>7 DEF TypeInv, TypeOK, Crash, PowerFails, Stop
<1>8. CASE Load \/ LoadFails
  BY <1>8 DEF Load, LoadFails, Start
<1>9. CASE UNCHANGED vars
  BY <1>9 DEF vars, callVars, memVars
<1> QED BY <1>1, <1>2, <1>3, <1>4, <1>5, <1>6, <1>7, <1>8, <1>9
        DEF Next, UpsertAgent, SetAgentOffline, MarkStaleAgents

LEMMA NoTexts == \A ends : TextsOf(ends, AbsentTask) /\ TextsOf(ends, NewTask)
BY DEF TextsOf, AbsentTask, NewTask, Final

LEMMA TextInit == Init => TextInv
<1> SUFFICES ASSUME Init, NEW t \in Tasks
             PROVE  \A r \in {Updated(t), settled.tasks[t], file.contents.tasks[t],
                              tmp.contents.tasks[t]} : r = AbsentTask
  BY NoTexts DEF TextInv
<1> QED BY DEF Init, Updated, Field, Updating, Nothing, Missing, AbsentTask

(* The record that a report starts to write. *)
LEMMA TextsOfReport ==
    ASSUME TypeInv, TextInv, [Next]_vars, NEW t \in Tasks, NEW k \in Runs,
           NEW s \in {"running"} \cup Final, UpdateTask(t, k, s), tasks[t] # AbsentTask
    PROVE  TextsOf(reports'[t], Updated(t)')
<1> DEFINE old == tasks[t]  new == Updated(t)'
<1>1. /\ ~Updating /\ phase' = "status" /\ update' = UpdateOf(t, k, s) /\ tasks' = tasks
      /\ reports'[t][k] = s
  BY DEF TypeInv, TypeOK, UpdateTask, Updating, memVars
<1>2. TextsOf(reports'[t], old)
  BY <1>1, NotUpdating, TextsStable DEF TextInv
<1>3. /\ new.status = s
      /\ new.output = IF s = "running" \/ k \in Silent THEN old.output ELSE k
      /\ new.error = IF s = "failed" THEN k ELSE old.error
  BY <1>1 DEF Updated, Field, Updating, UpdateOf, Final
<1>4. k # NoText
  OBVIOUS
<1> HIDE DEF old, new
<1>5. TextsOf(reports'[t], new)
  BY <1>1, <1>2, <1>3, <1>4 DEF TextsOf, Final
<1> QED BY <1>5 DEF new

LEMMA TextNext == TypeInv /\ CallInv /\ UpdateInv /\ TextInv /\ [Next]_vars => TextInv'
<1> SUFFICES ASSUME TypeInv, CallInv, UpdateInv, TextInv, [Next]_vars, NEW t \in Tasks
             PROVE  /\ TextsOf(reports'[t], Updated(t)')
                    /\ TextsOf(reports'[t], settled'.tasks[t])
                    /\ TextsOf(reports'[t], file'.contents.tasks[t])
                    /\ TextsOf(reports'[t], tmp'.contents.tasks[t])
  BY DEF TextInv
<1> DEFINE Known == {Updated(t), settled.tasks[t], file.contents.tasks[t],
                     tmp.contents.tasks[t], AbsentTask, NewTask}
           Left == {Updated(t)', settled'.tasks[t], file'.contents.tasks[t],
                    tmp'.contents.tasks[t]}
<1>1. \A r \in Known : TextsOf(reports'[t], r)
  BY TextsStable, NoTexts DEF TextInv
<1>2. ~Updating => Updated(t) = tasks[t]
  BY NotUpdating
<1>3. ~Updating' => Updated(t)' = tasks'[t]
  <2>1. tasks' \in [Tasks -> TaskRecord]
    BY TypeNext DEF TypeInv, TypeOK, Memory, Contents
  <2>2. tasks'[t] = [status |-> tasks'[t].status, output |-> tasks'[t].output,
                     error |-> tasks'[t].error]
    BY <2>1 DEF TaskRecord
  <2> QED BY <2>2 DEF Updated, Field
<1>4. UNCHANGED <<tasks, update, phase>> => Updated(t)' = Updated(t)
  BY DEF Updated, Field, Updating
<1>5. Nothing.tasks[t] = AbsentTask
  BY DEF Nothing
<1>7. CASE Left \subseteq Known
  BY <1>1, <1>7
<1>8. ASSUME NEW u \in Tasks, CreateTask(u) PROVE Left \subseteq Known
  <2>1. ~Updating /\ ~Updating' /\ tasks'[t] \in {tasks[t], NewTask}
    BY <1>8, Typed DEF CreateTask, Updating
  <2> QED BY <1>8, <1>2, <1>3, <2>1 DEF CreateTask, diskVars
<1>9. ASSUME NEW u \in Tasks, Acknowledge(u) PROVE Left \subseteq Known
  BY <1>9, <1>4 DEF Acknowledge, memVars, callVars, diskVars
<1>10. ASSUME NEW A \in SUBSET Agents, NEW s \in {"online", "offline"}, SetAgents(A, s)
       PROVE Left \subseteq Known
  BY <1>10, <1>2, <1>3 DEF SetAgents, Updating, diskVars
<1>11. CASE WriteFields
  <2>1. Left \subseteq Known
    BY <1>11, UpdatedKept, WriteFieldsStep DEF diskVars
  <2> QED BY <1>7, <2>1
<1>12. CASE Persist
  <2>1. /\ ~Updating /\ ~Updating' /\ tasks' = tasks /\ settled' \in {settled, Memory}
        /\ file'.contents \in {file.contents, tmp.contents}
        /\ tmp'.contents \in {tmp.contents, Nothing, Memory}
    BY <1>12, RecordTypes DEF Persist, WriteTmp, WriteFails, Rename, RenameFails, Unlock,
                      memVars, diskVars, Updating
  <2>2. Memory.tasks = tasks
    BY DEF Memory
  <2>3. Left \subseteq Known
    BY <1>2, <1>3, <1>5, <2>1, <2>2
  <2> QED BY <1>7, <2>3
<1>13. CASE Read \/ Sync \/ UNCHANGED vars
  <2>1. UNCHANGED <<memVars, callVars, tmp, file>>
    BY <1>13 DEF Read, GetTask, EncodeField, Respond, Sync, diskVars, vars
  <2>2. Left \subseteq Known
    BY <1>4, <2>1 DEF memVars, callVars
  <2> QED BY <1>7, <2>2
<1>14. CASE Crash \/ PowerFails
  <2>1. /\ ~Updating' /\ tasks' = Nothing.tasks /\ settled' = settled
        /\ file'.contents \in {file.contents, Nothing}
        /\ tmp'.contents \in {tmp.contents, Nothing}
    BY <1>14, RecordTypes DEF Crash, PowerFails, Stop, Updating
  <2>2. Left \subseteq Known
    BY <1>3, <1>5, <2>1
  <2> QED BY <1>7, <2>2
<1>15. CASE Load \/ LoadFails
  <2>1. /\ ~Updating' /\ tasks' \in {file.contents.tasks, Nothing.tasks}
        /\ settled'.tasks = tasks' /\ UNCHANGED <<tmp, file>>
    BY <1>15 DEF Load, LoadFails, Start, Updating, diskVars
  <2>2. Left \subseteq Known
    BY <1>3, <1>5, <2>1
  <2> QED BY <1>7, <2>2
<1>16. ASSUME NEW u \in Tasks, NEW k \in Runs, NEW s \in {"running"} \cup Final,
              UpdateTask(u, k, s)
       PROVE  /\ TextsOf(reports'[t], Updated(t)')
              /\ TextsOf(reports'[t], settled'.tasks[t])
              /\ TextsOf(reports'[t], file'.contents.tasks[t])
              /\ TextsOf(reports'[t], tmp'.contents.tasks[t])
  <2>1. CASE t = u /\ tasks[u] # AbsentTask
    <3>1. TextsOf(reports'[t], Updated(t)')
      BY <1>16, <2>1, TextsOfReport
    <3>2. UNCHANGED <<settled, tmp, file>>
      BY <1>16 DEF UpdateTask, diskVars
    <3> QED BY <1>1, <3>1, <3>2
  <2>2. CASE ~(t = u /\ tasks[u] # AbsentTask)
    <3>1. /\ ~Updating /\ (Updating' => update'.task = u /\ tasks[u] # AbsentTask)
          /\ UNCHANGED <<tasks, settled, tmp, file>>
      BY <1>16 DEF UpdateTask, UpdateOf, Updating, memVars, diskVars
    <3>2. Updated(t)' = Updated(t)
      BY <2>2, <3>1 DEF Updated, Field
    <3>3. Left \subseteq Known
      BY <3>1, <3>2
    <3> QED BY <1>7, <3>3
  <2> QED BY <2>1, <2>2
<1> QED BY <1>7, <1>8, <1>9, <1>10, <1>11, <1>12, <1>13, <1>14, <1>15, <1>16
        DEF Next, UpsertAgent, SetAgentOffline, MarkStaleAgents

(* If one run has reported, what a finished record says comes from it. *)
LEMMA OnlyRun ==
    ASSUME NEW t \in Tasks, NEW record, TextsOf(reports[t], record), record.status \in Final,
           NEW k \in Runs, Reported(t) = {k}
    PROVE  ResultOf(k, record) /\ reports[t][k] = record.status
<1>1. PICK j \in Runs : /\ reports[t][j] = record.status
                        /\ j \notin Silent => record.output # NoText
                        /\ record.status = "failed" => record.error # NoText
  BY DEF TextsOf
<1>2. j = k
  BY <1>1 DEF Reported, Final
<1>3. record.output = IF k \in Silent THEN NoText ELSE k
  BY <1>1, <1>2 DEF TextsOf, Reported, Final
<1>4. record.error = IF record.status = "failed" THEN k ELSE NoText
  BY <1>1, <1>2 DEF TextsOf, Reported, Final
<1> QED BY <1>1, <1>2, <1>3, <1>4 DEF ResultOf

(* Between two calls a finished task shows what its one run left, and an    *)
(* error on a completed task is the other run's.                            *)
THEOREM TextsCorrect == Spec => []TextsOfRuns
<1>1. TypeInv /\ TextInv => TextsOfRuns
  <2> SUFFICES ASSUME TypeInv, TextInv, NEW t \in Tasks, tasks[t].status \in Final,
                      phase = "free"
               PROVE  /\ \A k \in Runs : Reported(t) = {k} => ResultOf(k, tasks[t])
                      /\ tasks[t].status = "completed" /\ tasks[t].error # NoText =>
                            \E k \in Reported(t) \ {tasks[t].error} : reports[t][k] = "completed"
    BY DEF TextsOfRuns
  <2>1. TextsOf(reports[t], tasks[t])
    BY NotUpdating DEF TextInv, Updating
  <2>2. \A k \in Runs : Reported(t) = {k} => ResultOf(k, tasks[t])
    BY <2>1, OnlyRun
  <2>3. ASSUME tasks[t].status = "completed", tasks[t].error # NoText
        PROVE  \E k \in Reported(t) \ {tasks[t].error} : reports[t][k] = "completed"
    BY <2>1, <2>3 DEF TextsOf, Reported, Final
  <2> QED BY <2>2, <2>3
<1>2. Spec => [](TypeInv /\ CallInv /\ UpdateInv /\ TextInv)
  BY TypeInit, TypeNext, CallInit, CallNext, UpdateInit, UpdateNext, TextInit, TextNext, PTL
     DEF Spec
<1> QED BY <1>1, <1>2, PTL

-----------------------------------------------------------------------------
(* What a client that polls is shown. *)

(* A status that a reader takes from the record is the one of some run that *)
(* has reported, and if it is final and only one has, the one that stays.   *)
LEMMA StatusSeen ==
    ASSUME TypeInv, CallInv, UpdateInv, TextInv, NEW t \in Tasks, tasks[t].status \in Final
    PROVE  /\ \E k \in Runs : reports[t][k] \in Final
           /\ \A k \in Runs : Reported(t) = {k} => Updated(t).status \in Final
<1>1. CASE ~(Updating /\ update.task = t)
  <2>1. Updated(t).status = tasks[t].status
    BY <1>1 DEF Updated, Field
  <2> QED BY <2>1 DEF TextInv, TextsOf, Final
<1>2. CASE phase = "status" /\ update.task = t
  <2>1. PICK k \in Runs : reports[t][k] = tasks[t].status
    BY <1>2 DEF CallInv, TextInv, TextsOf
  <2>2. PICK j \in Runs : reports[t][j] = update.status
    BY <1>2 DEF UpdateInv, Updating
  <2>3. Updated(t).status = update.status
    BY <1>2 DEF TypeInv, TypeOK, Final, Updated, Field, Updating
  <2> QED BY <2>1, <2>2, <2>3 DEF TypeInv, TypeOK, Reported, Final
<1>3. CASE phase \in {"output", "error"} /\ update.task = t
  <2>1. Updated(t).status = tasks[t].status
    BY <1>3 DEF UpdateInv, Updated, Field
  <2> QED BY <2>1 DEF TextInv, TextsOf, Final
<1> QED BY <1>1, <1>2, <1>3 DEF Updating

LEMMA ReaderInit == Init => ReaderInv
BY DEF Init, ReaderInv, SeenFinal, Again, NoReader

LEMMA ReaderNext ==
    TypeInv /\ CallInv /\ UpdateInv /\ TextInv /\ ReaderInv /\ [Next]_vars => ReaderInv'
<1> SUFFICES ASSUME TypeInv, CallInv, UpdateInv, TextInv, ReaderInv, [Next]_vars
             PROVE  ReaderInv'
  OBVIOUS
<1> USE DEF ReaderInv, SeenFinal, Again
<1>1. ASSUME UNCHANGED readVars, phase' # "down" \/ phase' = phase PROVE ReaderInv'
  BY <1>1, ReportsStable DEF readVars, Final
<1>2. ASSUME NEW t \in Tasks, CreateTask(t) \/ Acknowledge(t) PROVE ReaderInv'
  BY <1>1, <1>2 DEF CreateTask, Acknowledge, callVars
<1>3. ASSUME NEW t \in Tasks, NEW k \in Runs, NEW s \in {"running"} \cup Final,
             UpdateTask(t, k, s)
      PROVE ReaderInv'
  BY <1>1, <1>3 DEF UpdateTask
<1>4. ASSUME NEW A \in SUBSET Agents, NEW s \in {"online", "offline"}, SetAgents(A, s)
      PROVE ReaderInv'
  BY <1>1, <1>4 DEF SetAgents
<1>5. CASE WriteFields
  BY <1>1, <1>5, WriteFieldsStep
<1>6. CASE Persist
  BY <1>1, <1>6 DEF Persist, WriteTmp, WriteFails, Rename, RenameFails, Unlock
<1>7. ASSUME NEW t \in Tasks, GetTask(t) PROVE ReaderInv'
  <2>1. /\ reader' = [task |-> t, next |-> "status", again |-> t \in finals]
        /\ reader.next = "none" /\ phase' = "free" /\ UNCHANGED <<response, finals, reports>>
    BY <1>7 DEF GetTask, NoReader, callVars
  <2>2. response = AbsentTask /\ AbsentTask.status \notin Final
    BY <2>1 DEF AbsentTask, Final
  <2> QED BY <2>1, <2>2
<1>8. CASE EncodeField("status", "output")
  <2>1. reader.task \in Tasks /\ tasks[reader.task] \in TaskRecord
    BY <1>8, Typed DEF EncodeField, TypeInv, CallersWellFormed
  <2>2. response'.status \in Final => tasks[reader.task].status \in Final
    BY <1>8 DEF TypeInv, TypeOK, EncodeField, Seen, Final
  <2>3. response'.status \in Final => \E k \in Runs : reports[reader.task][k] \in Final
    BY <2>1, <2>2, StatusSeen
  <2>4. /\ reader'.next = "output" /\ reader'.task = reader.task
        /\ reader'.again = reader.again
        /\ UNCHANGED <<phase, finals, reports>>
    BY <1>8 DEF TypeInv, TypeOK, EncodeField, callVars
  <2>5. phase # "down" /\ reader.next = "status"
    BY <1>8 DEF EncodeField
  <2> QED BY <2>3, <2>4, <2>5
<1>9. CASE EncodeField("output", "error") \/ EncodeField("error", "sent")
  <2>1. /\ reader'.next \in {"error", "sent"} /\ reader'.task = reader.task
        /\ reader'.again = reader.again /\ response'.status = response.status
        /\ UNCHANGED <<phase, finals, reports>> /\ reader.next \in {"output", "error"}
    BY <1>9 DEF TypeInv, TypeOK, EncodeField, callVars
  <2> QED BY <2>1
<1>10. CASE Respond
  BY <1>10 DEF Respond, NoReader, callVars
<1>11. CASE Crash \/ PowerFails
  BY <1>11 DEF Crash, PowerFails, Stop, NoReader
<1>12. CASE Sync \/ UNCHANGED vars
  BY <1>1, <1>12 DEF Sync, vars, callVars
<1>13. CASE Load \/ LoadFails
  BY <1>1, <1>13 DEF Load, LoadFails, Start
<1> QED BY <1>2, <1>3, <1>4, <1>5, <1>6, <1>7, <1>8, <1>9, <1>10, <1>11, <1>12, <1>13
        DEF Next, Read, UpsertAgent, SetAgentOffline, MarkStaleAgents

LEMMA PollInit == Init => PollInv
BY DEF Init, PollInv, LeftAlone, SeenFinal, Again, NoReader

(* No report can come on a task that only one run has reported on, once it  *)
(* was seen finished.                                                       *)
LEMMA NoFurtherReport ==
    ASSUME TypeInv, ReaderInv, NEW t \in Tasks, SeenFinal(t), NEW k \in Runs,
           NEW s \in {"running"} \cup Final, UpdateTask(t, k, s),
           NEW j \in Runs, Reported(t)' = {j}
    PROVE  FALSE
<1>1. PICK i \in Runs : reports[t][i] \in Final
  BY DEF ReaderInv
<1>2. i # k
  BY <1>1 DEF UpdateTask, Final
<1>3. reports'[t][i] # "none" /\ reports'[t][k] # "none"
  BY <1>1, <1>2 DEF TypeInv, TypeOK, UpdateTask, Final
<1> QED BY <1>2, <1>3 DEF Reported

LEMMA PollNext ==
    TypeInv /\ CallInv /\ UpdateInv /\ TextInv /\ ReaderInv /\ PollInv /\ [Next]_vars
        => PollInv'
<1> SUFFICES ASSUME TypeInv, CallInv, UpdateInv, TextInv, ReaderInv, PollInv, [Next]_vars,
                    NEW t \in Tasks, NEW k \in Runs, Reported(t)' = {k}
             PROVE  LeftAlone(t)'
  BY DEF PollInv
<1> USE DEF SeenFinal, Again
<1>1. ASSUME UNCHANGED <<readVars, reports>>, Updated(t)' = Updated(t),
             Updating' /\ update'.task = t => Updating /\ update.task = t,
             ~(Updating /\ update.task = t) => tasks'[t] = tasks[t]
      PROVE  LeftAlone(t)'
  BY <1>1 DEF PollInv, LeftAlone, Reported, readVars
<1>2. ASSUME UNCHANGED <<readVars, reports>>, ~Updating, ~Updating', tasks'[t] = tasks[t]
      PROVE  LeftAlone(t)'
  BY <1>1, <1>2 DEF Updated, Field
<1>3. ASSUME NEW u \in Tasks, CreateTask(u) PROVE LeftAlone(t)'
  <2>1. t # u
    BY <1>3 DEF CreateTask, UpdateInv, Reported
  <2> QED BY <1>2, <1>3, <2>1, Typed DEF CreateTask, Updating
<1>4. ASSUME NEW u \in Tasks, Acknowledge(u) PROVE LeftAlone(t)'
  BY <1>1, <1>4 DEF Acknowledge, memVars, callVars, Updated, Field, Updating
<1>5. ASSUME NEW u \in Tasks, NEW j \in Runs, NEW s \in {"running"} \cup Final,
             UpdateTask(u, j, s)
      PROVE LeftAlone(t)'
  <2>1. CASE u = t
    <3>1. ~SeenFinal(t)
      BY <1>5, <2>1, NoFurtherReport
    <3>2. ~SeenFinal(t)' /\ ~Again(t)'
      BY <1>5, <3>1 DEF UpdateTask, ReaderInv, readVars
    <3> QED BY <3>2 DEF LeftAlone
  <2>2. CASE u # t
    <3>1. /\ ~Updating /\ (Updating' => update'.task = u) /\ UNCHANGED <<tasks, readVars>>
          /\ reports'[t] = reports[t]
      BY <1>5, <2>2 DEF TypeInv, TypeOK, UpdateTask, UpdateOf, Updating, memVars
    <3>2. Updated(t)' = Updated(t)
      BY <2>2, <3>1 DEF Updated, Field
    <3> QED BY <2>2, <3>1, <3>2 DEF PollInv, LeftAlone, Reported, readVars
  <2> QED BY <2>1, <2>2
<1>6. ASSUME NEW A \in SUBSET Agents, NEW s \in {"online", "offline"}, SetAgents(A, s)
      PROVE LeftAlone(t)'
  BY <1>2, <1>6 DEF SetAgents, Updating
<1>7. CASE WriteFields
  <2>1. Updated(t)' = Updated(t)
    BY <1>7, UpdatedKept
  <2>2. /\ Updating /\ (Updating' => update'.task = update.task)
        /\ t # update.task => tasks'[t] = tasks[t]
        /\ UNCHANGED <<readVars, reports>>
    BY <1>7, WriteFieldsStep DEF Updating
  <2> QED BY <1>1, <2>1, <2>2
<1>8. CASE Persist
  BY <1>2, <1>8 DEF Persist, WriteTmp, WriteFails, Rename, RenameFails, Unlock, memVars, Updating
<1>9. ASSUME NEW u \in Tasks, GetTask(u) PROVE LeftAlone(t)'
  <2>1. /\ reader' = [task |-> u, next |-> "status", again |-> u \in finals]
        /\ reader.next = "none" /\ ~Updating /\ ~Updating' /\ response = AbsentTask
        /\ UNCHANGED <<response, finals, tasks, reports>>
    BY <1>9 DEF GetTask, NoReader, ReaderInv, memVars, callVars, Updating
  <2>2. AbsentTask.status \notin Final
    BY DEF AbsentTask, Final
  <2>3. Updated(t)' = Updated(t)
    BY <2>1 DEF Updated, Field
  <2> QED BY <2>1, <2>2, <2>3 DEF PollInv, LeftAlone, Reported
<1>10. ASSUME NEW f \in {"status", "output", "error"}, NEW next \in {"output", "error", "sent"},
              EncodeField(f, next),
              next = IF f = "status" THEN "output" ELSE IF f = "output" THEN "error" ELSE "sent"
       PROVE LeftAlone(t)'
  <2>1. /\ reader.task \in Tasks /\ tasks[reader.task] \in TaskRecord
        /\ reader.next = f /\ reader'.next = next /\ reader'.task = reader.task
        /\ reader'.again = reader.again
        /\ UNCHANGED <<tasks, update, phase, finals, reports>>
    BY <1>10, Typed DEF EncodeField, TypeInv, TypeOK, CallersWellFormed, memVars, callVars
  <2>2. PICK v \in Seen(f) : response' = [response EXCEPT ![f] = v]
    BY <1>10 DEF EncodeField
  <2>3. /\ response'[f] = v
        /\ \A g \in {"status", "output", "error"} \ {f} : response'[g] = response[g]
    BY <2>2 DEF TypeInv, TypeOK
  <2>4. Updated(t)' = Updated(t) /\ Updating' = Updating
    BY <2>1 DEF Updated, Field, Updating
  <2>5. SeenFinal(t)' => Updated(t).status \in Final
    <3>1. CASE t \in finals \/ f # "status"
      BY <2>1, <2>3, <3>1 DEF PollInv, LeftAlone, Reported
    <3>2. CASE f = "status" /\ t \notin finals
      <4>1. v \in Final => v = tasks[reader.task].status
        BY <2>2, <3>2 DEF Seen, Final
      <4> QED BY <2>1, <2>3, <3>2, <4>1, StatusSeen DEF Reported
    <3> QED BY <3>1, <3>2
  <2>6. ASSUME Again(t)
        PROVE  /\ ~(Updating /\ update.task = t)
               /\ response'.status = tasks[t].status
               /\ f \in {"output", "error"} => response'.output = tasks[t].output
               /\ f = "error" => response'.error = tasks[t].error
    <3>1. LeftAlone(t)
      BY <2>1 DEF PollInv, Reported
    <3>2. ~(Updating /\ update.task = t)
      BY <2>6, <3>1 DEF LeftAlone
    <3>3. v = tasks[t][f]
      BY <2>2, <2>6, <3>2 DEF Seen, Updating
    <3> QED BY <2>1, <2>3, <2>6, <3>1, <3>2, <3>3 DEF LeftAlone
  <2> QED BY <1>10, <2>1, <2>4, <2>5, <2>6 DEF LeftAlone
<1>11. CASE Respond
  <2>1. /\ reader'.next = "none" /\ reader.next = "sent"
        /\ UNCHANGED <<tasks, update, phase, reports>>
        /\ finals' = IF response.status \in Final THEN finals \cup {reader.task} ELSE finals
    BY <1>11 DEF Respond, NoReader, memVars, callVars
  <2>2. Updated(t)' = Updated(t)
    BY <2>1 DEF Updated, Field, Updating
  <2> QED BY <2>1, <2>2 DEF PollInv, LeftAlone, Reported
<1>12. CASE Crash \/ PowerFails
  BY <1>12 DEF Crash, PowerFails, Stop, NoReader, LeftAlone
<1>13. CASE Sync \/ UNCHANGED vars
  BY <1>1, <1>13 DEF Sync, vars, memVars, callVars, Updated, Field, Updating
<1>14. CASE Load \/ LoadFails
  BY <1>14 DEF Load, LoadFails, Start, ReaderInv, readVars, LeftAlone
<1>15. CASE Read
  BY <1>9, <1>10, <1>11, <1>15 DEF Read
<1> QED BY <1>3, <1>4, <1>5, <1>6, <1>7, <1>8, <1>12, <1>13, <1>14, <1>15
        DEF Next, UpsertAgent, SetAgentOffline, MarkStaleAgents

(* A client that has been told that a task is finished, of which one run    *)
(* has reported, gets the whole result with its next request, although no   *)
(* request ever waits for an update.                                        *)
THEOREM NextPollCorrect == Spec => []NextPollComplete
<1>1. TypeInv /\ TextInv /\ ReaderInv /\ PollInv => NextPollComplete
  <2> SUFFICES ASSUME TypeInv, TextInv, ReaderInv, PollInv,
                      reader.next = "sent", reader.again,
                      NEW k \in Runs, Reported(reader.task) = {k}
               PROVE  response.status \in Final /\ ResultOf(k, response)
    BY DEF NextPollComplete
  <2> DEFINE t == reader.task
  <2>1. t \in Tasks /\ Again(t) /\ SeenFinal(t)
    BY DEF TypeInv, CallersWellFormed, Again, SeenFinal, ReaderInv
  <2>2. LeftAlone(t)
    BY <2>1 DEF PollInv
  <2>3. /\ response.status = tasks[t].status /\ response.output = tasks[t].output
        /\ response.error = tasks[t].error /\ Updated(t) = [status |-> tasks[t].status,
              output |-> tasks[t].output, error |-> tasks[t].error]
        /\ tasks[t].status \in Final
    BY <2>1, <2>2 DEF LeftAlone, Updated, Field
  <2>4. TextsOf(reports[t], response)
    BY <2>1, <2>3, SMTT(30) DEF TextInv, TextsOf
  <2> QED BY <2>1, <2>3, <2>4, OnlyRun
<1>2. Spec => [](TypeInv /\ CallInv /\ UpdateInv /\ TextInv /\ ReaderInv /\ PollInv)
  BY TypeInit, TypeNext, CallInit, CallNext, UpdateInit, UpdateNext, TextInit, TextNext,
     ReaderInit, ReaderNext, PollInit, PollNext, PTL DEF Spec
<1> QED BY <1>1, <1>2, PTL
=============================================================================
