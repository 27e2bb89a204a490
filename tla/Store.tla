------------------------------- MODULE Store -------------------------------
(***************************************************************************)
(* The store of the server (internal/server/store.go): two maps behind a   *)
(* lock, written to a data file before the lock is released, and read back *)
(* when the server starts. A call that changes the maps holds the lock     *)
(* while it changes them, writes the temporary file and renames it, and    *)
(* the server may stop between any two of these steps.                     *)
(*                                                                         *)
(* getTask gives out the record itself: the HTTP handler encodes it field  *)
(* by field after the lock was released, and updateTask may be writing the *)
(* fields meanwhile.                                                       *)
(***************************************************************************)
EXTENDS Naturals

CONSTANTS
    Agents,
    Tasks,
    Runs,      \* the runs of a task's script, named by the text they leave
    Silent,    \* the runs whose script prints nothing
    NoText,    \* the empty string: not an element of Runs
    Garbled,   \* a string read while it is written: not an element of Runs
    MaxEvents  \* bound on the polls, failures and crashes together

VARIABLES
    agents,    \* s.agents: the status of each agent
    tasks,     \* s.tasks: the status, output and error of each task
    phase,     \* what the holder of s.mu does next
    update,    \* the arguments of the updateTask call that holds it
    tmp,       \* the temporary file
    file,      \* the data file
    synced,    \* the data file is on the disk, and not only in the cache
    request,   \* the requests that create the tasks
    reader,    \* the handler of GET /api/v1/tasks/{id}
    response,  \* the fields that it has encoded
    events,    \* how many polls, failures and crashes there were
    \* History, read by no guard.
    settled,   \* the contents that the last finished call left
    reports,   \* the last report of each run that reached the server
    finals,    \* the tasks that a response of this process called finished
    diverged,  \* the last write failed, or the file could not be read
    lost       \* such a divergence outlived the process, or the power failed

memVars == <<agents, tasks>>
diskVars == <<tmp, file, synced>>
readVars == <<reader, response, finals>>
callVars == <<phase, update, settled>>
lossVars == <<diverged, lost>>
vars == <<memVars, diskVars, readVars, callVars, lossVars, request, reports, events>>

ASSUME StoreAssumption ==
    /\ NoText \notin Runs /\ Garbled \notin Runs /\ Garbled # NoText
    /\ {NoText, Garbled} \cap {"running", "completed", "failed"} = {}
    /\ Silent \subseteq Runs
    /\ MaxEvents \in Nat

Texts == Runs \cup {NoText}
Final == {"completed", "failed"}
TaskRecord == [status : {"absent", "pending", "running"} \cup Final,
               output : Texts, error : Texts]
AbsentTask == [status |-> "absent", output |-> NoText, error |-> NoText]

(* Mutant of NewTask: the status is not set. *)
UnsetTask == [AbsentTask EXCEPT !.status = NoText]

NewTask == [AbsentTask EXCEPT !.status = "pending"]

NoUpdate == [task |-> NoText, status |-> "running", output |-> NoText, error |-> NoText]
NoReader == [task |-> NoText, next |-> "none", again |-> FALSE]

Contents == [agents : [Agents -> {"absent", "online", "offline"}],
             tasks : [Tasks -> TaskRecord]]
Memory == [agents |-> agents, tasks |-> tasks]
Nothing == [agents |-> [a \in Agents |-> "absent"], tasks |-> [t \in Tasks |-> AbsentTask]]

(* A file that is missing or does not parse is loaded as nothing. *)
Files == [state : {"missing", "torn", "whole"}, contents : Contents]
Missing == [state |-> "missing", contents |-> Nothing]
Torn == [state |-> "torn", contents |-> Nothing]

TypeOK ==
    /\ Memory \in Contents /\ settled \in Contents
    /\ phase \in {"free", "status", "output", "error", "write", "rename", "down"}
    /\ update \in [task : Tasks \cup {NoText}, status : {"running"} \cup Final,
                   output : Texts, error : Texts]
    /\ tmp \in Files /\ file \in Files /\ synced \in BOOLEAN
    /\ request \in [Tasks -> {"none", "storing", "stored", "acknowledged", "aborted"}]
    /\ reader \in [task : Tasks \cup {NoText},
                   next : {"none", "status", "output", "error", "sent"}, again : BOOLEAN]
    /\ response \in [status : {"absent", "pending", "running", Garbled} \cup Final,
                     output : Texts \cup {Garbled}, error : Texts \cup {Garbled}]
    /\ events \in 0..MaxEvents
    /\ reports \in [Tasks -> [Runs -> {"none", "running"} \cup Final]]
    /\ finals \in SUBSET Tasks
    /\ diverged \in BOOLEAN /\ lost \in BOOLEAN

Init ==
    /\ agents = Nothing.agents /\ tasks = Nothing.tasks /\ settled = Nothing
    /\ phase = "free" /\ update = NoUpdate
    /\ tmp = Missing /\ file = Missing /\ synced = TRUE
    /\ request = [t \in Tasks |-> "none"]
    /\ reader = NoReader /\ response = AbsentTask /\ finals = {}
    /\ events = 0
    /\ reports = [t \in Tasks |-> [k \in Runs |-> "none"]]
    /\ diverged = FALSE /\ lost = FALSE

-----------------------------------------------------------------------------
(* The calls that change the maps. Each takes the free lock. *)

(* Mutant of CreateTask: the task is not persisted. *)
CreateTaskInMemory(t) ==
    /\ phase = "free" /\ request[t] = "none"
    /\ tasks' = [tasks EXCEPT ![t] = NewTask]
    /\ settled' = [settled EXCEPT !.tasks = tasks']
    /\ request' = [request EXCEPT ![t] = "stored"]
    /\ UNCHANGED <<agents, phase, update, diskVars, readVars, lossVars, reports, events>>

(* createTask, called by dispatchTask with a new ID. *)
CreateTask(t) ==
    /\ phase = "free" /\ request[t] = "none"
    /\ tasks' = [tasks EXCEPT ![t] = NewTask]
    /\ request' = [request EXCEPT ![t] = "storing"]
    /\ phase' = "write"
    /\ UNCHANGED <<agents, update, settled, diskVars, readVars, lossVars, reports, events>>

(* Mutant of SetAgents: the agents are not persisted. *)
SetAgentsInMemory(A, s) ==
    /\ phase = "free"
    /\ agents' = [a \in Agents |-> IF a \in A THEN s ELSE agents[a]]
    /\ settled' = [settled EXCEPT !.agents = agents']
    /\ UNCHANGED <<tasks, phase, update, diskVars, readVars, lossVars, request, reports, events>>

SetAgents(A, s) ==
    /\ phase = "free"
    /\ agents' = [a \in Agents |-> IF a \in A THEN s ELSE agents[a]]
    /\ phase' = "write"
    /\ UNCHANGED <<tasks, update, settled, diskVars, readVars, lossVars, request, reports,
                   events>>

UpsertAgent(a) == SetAgents({a}, "online")

(* An agent that is not known is left alone. *)
SetAgentOffline(a) == agents[a] # "absent" /\ SetAgents({a}, "offline")

(* The sweep marks the agents it finds and writes if it found any. *)
MarkStaleAgents(A) ==
    A # {} /\ (\A a \in A : agents[a] = "online") /\ SetAgents(A, "offline")

(* Mutant of UpdateOf: every final report carries an error text. *)
UpdateOfAlwaysError(t, k, s) ==
    [task |-> t, status |-> s,
     output |-> IF s = "running" \/ k \in Silent THEN NoText ELSE k,
     error |-> IF s \in Final THEN k ELSE NoText]

(* The report s on run k, as updateTask gets it: the end comes with what    *)
(* the script printed and, if it failed, with the error.                    *)
UpdateOf(t, k, s) ==
    [task |-> t, status |-> s,
     output |-> IF s = "running" \/ k \in Silent THEN NoText ELSE k,
     error |-> IF s = "failed" THEN k ELSE NoText]

(* updateTask: a report on a task that is not in the store is ignored, any  *)
(* other is taken, whatever the task's status is. A run reports twice.      *)
UpdateTask(t, k, s) ==
    /\ phase = "free"
    /\ request[t] # "none"
    /\ IF s = "running" THEN reports[t][k] = "none" ELSE reports[t][k] = "running"
    /\ reports' = [reports EXCEPT ![t][k] = s]
    /\ IF tasks[t] = AbsentTask THEN UNCHANGED <<phase, update>>
       ELSE phase' = "status" /\ update' = UpdateOf(t, k, s)
    /\ UNCHANGED <<memVars, settled, diskVars, readVars, lossVars, request, events>>

(* One field of the record is written; an empty text leaves it alone. *)
WriteField(f, next) ==
    /\ phase = f
    /\ tasks' = IF update[f] = NoText THEN tasks
                ELSE [tasks EXCEPT ![update.task][f] = update[f]]
    /\ phase' = next
    /\ update' = IF next = "write" THEN NoUpdate ELSE update
    /\ UNCHANGED <<agents, settled, diskVars, readVars, lossVars, request, reports, events>>

WriteFields ==
    WriteField("status", "output") \/ WriteField("output", "error") \/ WriteField("error", "write")

-----------------------------------------------------------------------------
(* persist. Its caller releases the lock and never learns of an error. *)

Event == events < MaxEvents /\ events' = events + 1

Unlock(failed) ==
    /\ phase' = "free" /\ settled' = Memory /\ diverged' = failed
    /\ request' = [t \in Tasks |-> IF request[t] = "storing" THEN "stored" ELSE request[t]]
    /\ UNCHANGED <<memVars, update, readVars, reports, lost>>

WriteTmp ==
    /\ phase = "write" /\ phase' = "rename"
    /\ tmp' = [state |-> "whole", contents |-> Memory]
    /\ UNCHANGED <<memVars, update, settled, file, synced, readVars, lossVars, request, reports,
                   events>>

(* Mutant of WriteFails: there is no temporary file. *)
WriteFailsInPlace ==
    /\ phase = "write"
    /\ file' \in {file, Torn}
    /\ Unlock(TRUE) /\ Event
    /\ UNCHANGED <<tmp, synced>>

WriteFails ==
    /\ phase = "write"
    /\ tmp' \in {tmp, Torn}
    /\ Unlock(TRUE) /\ Event
    /\ UNCHANGED <<file, synced>>

Rename ==
    /\ phase = "rename"
    /\ file' = tmp /\ tmp' = Missing /\ synced' = FALSE
    /\ Unlock(FALSE)
    /\ UNCHANGED events

RenameFails ==
    /\ phase = "rename"
    /\ Unlock(TRUE) /\ Event
    /\ UNCHANGED diskVars

Persist == WriteTmp \/ WriteFails \/ Rename \/ RenameFails

(* dispatchTask has returned and the client is sent the task's ID. *)
Acknowledge(t) ==
    /\ phase # "down" /\ request[t] = "stored"
    /\ request' = [request EXCEPT ![t] = "acknowledged"]
    /\ UNCHANGED <<memVars, callVars, diskVars, readVars, lossVars, reports, events>>

-----------------------------------------------------------------------------
(* GET /api/v1/tasks/{id} *)

(* Mutant of GetTask: the lock is not taken. *)
GetTaskUnlocked(t) ==
    /\ phase # "down" /\ reader = NoReader /\ tasks[t] # AbsentTask
    /\ reader' = [task |-> t, next |-> "status", again |-> t \in finals]
    /\ Event
    /\ UNCHANGED <<memVars, callVars, diskVars, response, finals, lossVars, request, reports>>

(* A reader waits for the lock and releases it with the record in hand. *)
GetTask(t) ==
    /\ phase = "free" /\ reader = NoReader /\ tasks[t] # AbsentTask
    /\ reader' = [task |-> t, next |-> "status", again |-> t \in finals]
    /\ Event
    /\ UNCHANGED <<memVars, callVars, diskVars, response, finals, lossVars, request, reports>>

(* A string is two words: a reader that meets the writer may take one word  *)
(* of the old string and one of the new.                                    *)
Seen(f) == {tasks[reader.task][f]} \cup
           (IF phase = f /\ update.task = reader.task /\ update[f] # NoText
            THEN {Garbled} ELSE {})

(* The encoder takes the fields in the order of their declaration. *)
EncodeField(f, next) ==
    /\ reader.next = f
    /\ \E v \in Seen(f) : response' = [response EXCEPT ![f] = v]
    /\ reader' = [reader EXCEPT !.next = next]
    /\ UNCHANGED <<memVars, callVars, diskVars, finals, lossVars, request, reports, events>>

Respond ==
    /\ reader.next = "sent"
    /\ reader' = NoReader /\ response' = AbsentTask
    /\ finals' = IF response.status \in Final THEN finals \cup {reader.task} ELSE finals
    /\ UNCHANGED <<memVars, callVars, diskVars, lossVars, request, reports, events>>

Read ==
    \/ \E t \in Tasks : GetTask(t)
    \/ EncodeField("status", "output") \/ EncodeField("output", "error")
    \/ EncodeField("error", "sent") \/ Respond

-----------------------------------------------------------------------------
(* The end of the process and its start. *)

(* The memory is gone, and so are the requests. *)
Stop ==
    /\ phase # "down" /\ phase' = "down"
    /\ agents' = Nothing.agents /\ tasks' = Nothing.tasks
    /\ update' = NoUpdate
    /\ reader' = NoReader /\ response' = AbsentTask /\ finals' = {}
    /\ request' = [t \in Tasks |-> IF request[t] \in {"storing", "stored"} THEN "aborted"
                                   ELSE request[t]]
    /\ Event
    /\ UNCHANGED <<settled, reports, diverged>>

(* The files stay; the temporary one may be half written. *)
Crash ==
    /\ Stop
    /\ tmp' \in IF phase = "write" THEN {tmp, Torn} ELSE {tmp}
    /\ lost' = (lost \/ diverged)
    /\ UNCHANGED <<file, synced>>

(* The kernel writes back when it likes: persist asks for no sync. *)
Sync ==
    /\ ~synced /\ synced' = TRUE
    /\ UNCHANGED <<memVars, callVars, tmp, file, readVars, lossVars, request, reports, events>>

(* Until then the new name may stand for a file without its data. *)
PowerFails ==
    /\ Stop
    /\ file' \in IF synced THEN {file} ELSE {file, Torn}
    /\ synced' = TRUE /\ tmp' = Missing
    /\ lost' = (lost \/ diverged \/ file' # file)

Start(m) ==
    /\ phase = "down" /\ phase' = "free"
    /\ agents' = m.agents /\ tasks' = m.tasks /\ settled' = m
    /\ UNCHANGED <<update, diskVars, readVars, request, reports>>

(* Mutant of Load: the tasks are not taken over. *)
LoadAgentsOnly ==
    /\ Start([file.contents EXCEPT !.tasks = Nothing.tasks])
    /\ diverged' = FALSE
    /\ UNCHANGED <<lost, events>>

(* load: the contents of the file, or nothing ... *)
Load ==
    /\ Start(file.contents)
    /\ diverged' = FALSE
    /\ UNCHANGED <<lost, events>>

(* ... or nothing although there is a file, if it cannot be read. The       *)
(* server starts all the same, and its first write replaces the file.       *)
LoadFails ==
    /\ file.state = "whole"
    /\ Start(Nothing)
    /\ diverged' = TRUE /\ lost' = TRUE
    /\ Event

Next ==
    \/ \E t \in Tasks : CreateTask(t) \/ Acknowledge(t)
    \/ \E t \in Tasks, k \in Runs, s \in {"running"} \cup Final : UpdateTask(t, k, s)
    \/ \E a \in Agents : UpsertAgent(a) \/ SetAgentOffline(a)
    \/ \E A \in SUBSET Agents : MarkStaleAgents(A)
    \/ WriteFields \/ Persist \/ Read
    \/ Crash \/ PowerFails \/ Sync \/ Load \/ LoadFails

Spec == Init /\ [][Next]_vars

-----------------------------------------------------------------------------
(* Between two calls, and unless the last write failed, the file holds what *)
(* the memory holds: no call that changes the maps forgets to persist them. *)
FileCurrent == phase = "free" /\ ~diverged => file.contents = Memory

(* A task whose ID was sent to the client is in memory and, unless the last *)
(* write failed, on file, whatever stopped the server in between. Only a    *)
(* write that failed before the server stopped, a file that could not be    *)
(* read or a power failure loses it.                                        *)
AcknowledgedTaskKept ==
    \A t \in Tasks : request[t] = "acknowledged" /\ ~lost =>
        /\ phase # "down" => tasks[t] # AbsentTask
        /\ ~diverged => file.contents.tasks[t] # AbsentTask

(* A task that is on file stays there, through crashes and failed writes,   *)
(* unless the power failed or the server once started without what the      *)
(* file held.                                                               *)
FileTasksKept ==
    [][\A t \in Tasks : file.contents.tasks[t] # AbsentTask =>
           lost' \/ file'.contents.tasks[t] # AbsentTask]_vars

(* What a record with a final status says if run k alone has reported. *)
ResultOf(k, record) ==
    /\ record.output = (IF k \in Silent THEN NoText ELSE k)
    /\ record.error = (IF record.status = "failed" THEN k ELSE NoText)

Reported(t) == {k \in Runs : reports[t][k] # "none"}

(* A finished task of which one run has reported shows what this run left,  *)
(* after a restart too: no part of an update is ever on file. With two runs *)
(* the output or the error may be the other's, even an error on a task that *)
(* is completed.                                                            *)
TextsOfRuns ==
    \A t \in Tasks : tasks[t].status \in Final /\ phase = "free" =>
        /\ \A k \in Runs : Reported(t) = {k} => ResultOf(k, tasks[t])
        /\ tasks[t].status = "completed" /\ tasks[t].error # NoText =>
              \E k \in Reported(t) \ {tasks[t].error} : reports[t][k] = "completed"

(* A response that calls a task finished may lack its texts, but the next   *)
(* one has them, unless the task runs again: it waits for the update.       *)
NextPollComplete ==
    reader.next = "sent" /\ reader.again =>
        \A k \in Runs : Reported(reader.task) = {k} =>
            response.status \in Final /\ ResultOf(k, response)

(* The store keeps the contract that the rest of the server relies on. *)
Contract == INSTANCE StoreContract
            WITH current <- settled, saved <- file.contents, running <- phase # "down"

StoreContractKept == Contract!Spec

=============================================================================
