# RasPiCD: TLA+ specifications and proofs

RasPiCD runs scripts on Raspberry Pis on behalf of CI jobs. A server keeps agents
and tasks and holds one WebSocket to every agent; an agent runs the scripts it is
sent one after the other and reports their status. The code is Go: goroutines,
channels, two locks, one data file. This directory models the goroutines where they
meet, the store with its data file, the clocks that decide who is alive, and the way
of a task from the request to the script. TLC checks the models on small instances,
and TLAPS proves all their safety properties for instances of any size. Liveness is
checked by TLC only.

## Inventory

| Part | Source | State | Operations | Talks to |
|------|--------|-------|------------|----------|
| Hub | `internal/server/hub.go` | `conns`, the send channels | `register`, `isConnected`, `unregister`, `push` | handlers, through channels |
| WebSocket handler | `internal/server/ws.go` | its program counter, the socket | hello, duplicate check, flush, write loop, read loop, clean-up | hub, store, agent |
| HTTP API | `internal/server/handlers.go` | its program counter | create, broadcast, list, get | store, hub |
| Store | `internal/server/store.go`, `internal/models/models.go` | agents, tasks, the data file | `upsertAgent`, `touchAgent`, `setAgentOffline`, `markStaleAgents`, `createTask`, `updateTask`, lists | file system |
| Server life cycle | `internal/server/server.go`, `cmd/server/main.go` | the ticker of the sweep | start, sweep, stop, keys | store |
| Agent client | `internal/agent/client.go` | `send`, `taskCh`, three goroutines per connection | connect, read, write, execute | server, executor |
| Agent life cycle | `cmd/agent/main.go`, `deploy/agent.service` | backoff, context | run loop, retry, shutdown | client, systemd |
| Executor | `internal/agent/executor.go` | none | verify, check names, run, environment | operating system |
| Signing | `internal/models/models.go`, `internal/server/server.go` | keys | sign, verify | executor |

What is hard about each part, and what makes it correct:

- **Hub.** `push` looks a connection up under the read lock and sends after the
  unlock; `register` closes the channel of a connection it replaces, and whoever
  sends on it afterwards panics. Correct: the entry of an agent is always the
  connection that is in use, no channel is closed twice, no other connection's
  clean-up removes the entry, and a frame is only ever put on a channel of the
  agent it is addressed to.
- **WebSocket handler.** Duplicate check, store call, hub call, list and flush are
  five separate steps, interleaved with those of other connections of the same
  ID, with HTTP handlers and with the sweep. Correct: no task falls between flush
  and push, an agent shown as online has a handler that will mark it offline, an
  evicted connection ends by itself.
- **HTTP API.** Stores a task, then asks the hub. A broadcast is a loop of this over the
  agents that it listed under the lock and found online after the unlock, and a panic ends
  it half way. Correct: it never waits for an agent, and what it stored is delivered sooner
  or later.
- **Store.** One lock, a data file that is rewritten and renamed on every change, writes that
  may fail without the caller knowing, and records that are read without the lock;
  statuses read back after a restart describe connections that are gone. Correct: a call
  takes effect at once or not at all, in memory and on file; what a client was told is
  stored is kept, and a result it was told of can be read.
- **Clocks.** Pings, read deadlines, heartbeats, the sweep and the backoff run on timers of
  two machines, and the periods have to fit each other. Correct: a live agent is neither cut
  off nor called stale, a dead one is not called online for long, and an agent comes back
  in bounded time, unless the server has changed its key meanwhile.
- **Agent client.** Connect starts a writer and an executor and waits for neither. An
  executor outlives its connection, and its results go nowhere. Correct: towards
  the server, all of this looks like a peer that reports twice on each frame, in
  order; a script is never started without the server having sent its task.
- **Agent life cycle.** It retries for ever, except after a rejection, which it takes for
  a configuration error, and unless its verify key is not the server's when it starts.
- **Executor and signing.** Sequential, but a task passes JSON several times between its
  signature and the verification, keys change with restarts, and the scripts directory is
  looked at three times while it may be edited. Correct: what runs is what was requested and
  signed, as the user that was named, with its own variables over those of the agent and none
  of another task's, and the result tells the truth.

`PROJECT.json` lists the hazards, each at its line with the properties that would
catch it.

## Modules

| Module | Content |
|--------|---------|
| `AgentHub` | hub, WebSocket handler, task creation and broadcast, sweep, restart; the agent is the weakest peer that its code allows |
| `AgentClient` | the agent process: loop, reader, executors, writers |
| `Delivery` | both composed over connections that fail silently; `AgentHub` with its abstract peer is what it refines |
| `StoreContract` | what the server relies on its store for |
| `Store` | the two maps, the lock, the data file, failed writes, crashes, a reader without the lock; implements `StoreContract` |
| `Heartbeat` | pings, read deadlines, the sweep, backoff and restarts of one agent, with clocks |
| `Execution` | signing, JSON, names, users, environment and result of a task, and the keys of both sides |
| `MCAgentHub`, `MCDelivery`, `MCStore`, `MCExecution` | instances for TLC (`Heartbeat` needs none: its constants are numbers) |
| `AgentHub_proofs`, `Store_proofs`, `Heartbeat_proofs`, `Execution_proofs` | theorems and their proofs |
| `AgentClient_proofs` | lemmas about the agent's steps, whoever takes the other half of them |
| `Delivery_proofs` | theorems about both sides together, from those two |
| `QueueCounts` | lemmas on how often a task waits in a queue |

The models share no state. `AgentHub` takes every store call as one atomic step that is on
file when it ends; `Store` says when that is so. `AgentHub` has no clocks; `Heartbeat` says
which periods make its assumption about them true. `AgentClient` takes an outcome of a
script for given; `Execution` says how it comes about.

### AgentHub

Every goroutine is a program counter (`handler`, `writer`, `request`), and every
stretch of code between two accesses to shared state is one action. What is read
under a lock and used after the unlock is read in one action and used in another.

| Code | Model |
|------|-------|
| `hub.conns`, `close(old.send)` | `conns`, `closed` |
| `agentConn.send`, capacity 32 | `sendq`, capacity `SendCap` |
| `handleAgentWS` up to the read loop | `Dial`, then the actions of `Handshake` |
| `listTasks` and the flush loop | `ListPending`, `FlushTask` (in any order: the list comes from a map), `FlushPanics` |
| `wsWriteLoop` | `WriteFrame`, `WriteDroppedFrame`, `WriteIntoVoid`, `StopWriter` |
| `wsReadLoop`, `handleWSResult`, the deferred clean-up | `ResultRunning`, `ResultFinal`, `Unregister`, `SetOffline` |
| `handleTasks`, `dispatchTask` | `PostTask`, `CreateTask` |
| `handleBroadcastTask` | `ListAgents` under the lock, `SkipAgent` for a status that is read after the unlock, `StartBroadcast` |
| `hub.push` | `PushFinds`, `PushFindsNone`, then `PushSends`, `PushFull` or `PushPanics` |
| `staleSweep`, `markStaleAgents` | `StaleSweep` |
| end of the process and start on the data file | `Restart` |

A task is the pair of the request that created it and its agent, which is what the
random task IDs amount to. `sock` is the socket as the server's reads and writes see
it: `up`, `lost` (the peer is gone, found out at the next read or write, at once or
by a deadline), `closed`. The peer is a queue `inbox` of accepted tasks and the flag
`started`. It reports `running`, then an outcome, for the first of them; both are
forgotten when the connection is lost. `reached`, `offers` (how often a connection was
offered a task) and `loaded` are history and read by no guard.

What is abstracted: time (see Fairness), frames that do not parse and other frames
that change no state, output and error texts, the order of a list, the data file
(every completed store call is on it), authentication.

### AgentClient and Delivery

`AgentClient` has the process (`main`: it dials, reads, has exited after a rejection,
or was stopped), the connection that Connect reads from (`live`), and for every
connection its `taskCh`, `executor`, `hand`, `send` and `sender`. Those of earlier
connections live on beside those of the present one: an executor drains its closed
`taskCh` and blocks when its `send` is full; a writer ends at its first failed write
or ping. `ProcessEnds` ends them all.

`Delivery` takes the two halves of each exchange in one step: `Dial`, `DeliverTask`,
`DeliverReport`, `Reject`. Everything else is a step of one side. `Lose` breaks the
connection without telling anybody. The server finds out when it reads (`CleanUp`)
or writes (`WriterStep`), the agent when it reads (`AgentDisconnects`), in any order
and any time apart. A frame that is under way when the connection breaks is one that
was not sent, or was written into the void.

The server's steps come from `S`, an instance of `AgentHub` whose peer is empty, so
the peer of `AgentHub` restricts nothing. In `H`, the other instance, `inbox` is
derived from the agent: `Unreported` is the tasks of the final reports in `send`, the task
in hand, and `taskCh`, as long as the socket is up, and `FirstStarted` says that the first
of them has been announced. Because reports take turns (`ReportsPaired`), the final ones are
every second report, which is how `FinalTasks` finds them. `PeerRefined` says that this
instance's specification holds: what was checked and proved of `AgentHub` with the simple
peer applies to the server with the real agent.

### Store and StoreContract

The lock of `memStore` is `phase`: a call that changes the maps takes it (`free` to
`write`), writes the temporary file (`WriteTmp`), renames it (`Rename`) and unlocks. In
between, a write may fail (`WriteFails`, `RenameFails`: `persist` logs and returns, the
caller never knows), the process may stop (`Crash`) or the power may fail (`PowerFails`).

| Code | Model |
|------|-------|
| `createTask`, `upsertAgent`, `setAgentOffline`, `markStaleAgents` | `CreateTask`, `SetAgents` and its three uses |
| `updateTask` | `UpdateTask`, then one `WriteField` per field: a reader does not take the lock |
| `persist` | `Persist` |
| `getTask`, and `writeJSON` after it | `GetTask`, `EncodeField`, `Respond` |
| `load` | `Load`, `LoadFails` |
| the response with the task's ID | `Acknowledge` |

`Seen` is the data race: the encoder may take the pointer of one string and the length of
another, which is `Garbled`. `UpdateOf` is what a result frame carries: output and error text
of a run are named by the run. `StoreContract` has the contents that calls act on, those
on file and whether the server is up; the contents of `Store` that it sees are those that
the last finished call left (`settled`), so a call in progress is a stutter.

What is abstracted: a server without a data file; `touchAgent`, which persists nothing and
is in `Heartbeat`; a marshal or mkdir error, which is a failed write; what a power failure
does to a file that was renamed and not synced, which is that its data may be missing.

### Heartbeat

One agent, its present connection and the server. `Tick` lets a unit of time pass if nothing
is due. Pings, pongs and deadlines are kept for both sides; `heard` is the age of
`LastHeartbeat` as the sweep sees it. `LinkFails` breaks the connection and tells nobody, with
or without the network as a whole. `Backoff` is `next` with its jitter as a choice; like the
code's, it is never reset. `ServerRestarts` reads back a status and an older heartbeat,
since `touchAgent` does not persist, and a server without a configured key makes a new one.

`key` is what the agent's verify key is to the server: `none`, the `servers`, or an `other` one.
It is looked at when a process starts and at no other time (`KeyVerified`): a process that runs
reconnects to a server with another key, but once it has exited, after a rejection, each
`Restart` exits again. It does so until the server is in reach and the key is the server's, which
takes an operator (`InstallKey`). `apart`, the clock of `ReconnectsInTime`, stands still while the
server is not in reach and while an agent that has exited has another key (`Reachable`).

What is abstracted: timers are punctual, handlers take no time, a ping is answered within
`Delay`, a write deadline ends a connection no differently than a read deadline, and a server in
reach answers the request for its key with the key (`handlePubKey` has no other answer to a
GET). That handlers take no time excludes the clean-up that marks the agent of a newer
connection offline: `LiveAgentOnline` is about the clocks, and `doc_connected_online` shows the race.

### Execution

A task is followed from `Create` to `Report`, one at a time. A signature is the pair of the key
and the message; `SigningMessage` keeps apart what Marshal keeps apart (a nil map and an empty
one). `RoundTrip` is JSON as the data file and the frame apply it: `omitempty` drops an empty
config, numbers become float64 (`Decoded`). A script name is the sequence of its segments and
`PathOf` is what `filepath.Join` makes of it; `Clean`, which removes empty and dot segments,
is a recursive function over the prefixes of a path. `ExecutionAssumption` says of names that
they have a segment and of `Words`, the segments that match `segmentRegex`, that none is empty
or a dot segment; the expression has neither dots nor empty matches.

`BuildEnv` yields the environments a config may lead to. It starts from `environ`, which is
what `os.Environ()` gives of `RASPICD_CONFIG` and `RASPICD_CONFIG_*`: the agent's process has it
from systemd, with its environment file, and never changes it. The task's variables come after it, and
`exec.Cmd` takes the last of each name (`Overriding`). A value of the agent's is therefore seen
where the task has no scalar of that name, a list for instance, and `RASPICD_CONFIG` itself where
its config is empty. Of keys that differ only in case, the map's order decides (`TaskScalars`).

| Code | Model |
|------|-------|
| `loadOrGenerateSigningKey` | `ServerRestarts`: a key that is not configured changes with each `boot` |
| `VerifyServerPublicKey`, `run` of the agent | `AgentStarts`, with the `environ` of the new process, `InstallKey` (by an operator) |
| `dispatchTask`, `signTask` | `Create`, `SignTask` |
| `Run` | `Refuse`, `CheckName`, `Stat`, `Prepare`, `Execute`, each where the code looks at the directory again |
| `readRunAsUser`, `buildEnv` | `ReadRunAsUser`, `BuildEnv`, `TaskScalars` |
| the report of the result | `Report` |

The scripts directory may be edited between any two steps. `AgentStops` hands the task back or
loses it; `Delivery` says when which happens.

What is abstracted: the ID of a task, the text that a number is formatted as, the output of a
script, and of the environment all variables with other names (PATH, HOME), which the script has as
the agent has them. `sudo -E`, by which a script with a `.user` file is started, is taken to pass the
environment on, which depends on its policy.

## Runs

Runs that must pass:

| Run | Instance | Distinct states | Shows |
|-----|----------|-----------------|-------|
| `hub` | one agent ID, two connections, one request, one restart, fair | 99 000 | `TypeOK`, `HubMatchesHandlers`, `OnlineHasHandler`, `NoTaskOverlooked`, `RerunOnlyIfOfferedTwice` under all interleavings of handshakes, evictions, clean-ups and a push; `RequestsFinish`, `GoneAgentGoesOffline`, `EvictedConnectionEnds` |
| `hub_broadcast` | two agents, one connection each, one request, one restart | 181 000 | `FramesAddressed`, `NoTaskOverlooked` while a broadcast goes on |
| `delivery` | one agent, two connections, one request, the first connection may fail, fair | 289 000 | `DeliveryTypeOK`, `PeerRefined`, `StartsBacked`, `RunningOnConnection`, `StableConnectionDelivers` |
| `delivery_restarts` | one agent, two connections, two requests, one restart of the server | 435 000 | the safety properties with a backlog of tasks and of reports; `ReportsPaired` |
| `store` | one agent, one task, two runs (one prints nothing), two events | 1 430 000 | `FileCurrent`, `AcknowledgedTaskKept`, `FileTasksKept`, `TextsOfRuns`, `NextPollComplete`, `StoreContractKept` |
| `heartbeat` | the code's periods in units of about 10 s, with and without a verify key | 1 006 000 | `LiveConnectionKept`, `LiveAgentOnline`, `GoneAgentOffline`, `ReconnectsInTime` |
| `execution` | two scripts, five names, four configs, two environments of the agent, one restart of the server, two edits | 850 000 | `RunsWhatWasRequested`, `RunsOnlySigned`, `RefusedForCause`, `EnvironmentOfTask`, `RunsAsNamedUser`, `ResultTruthful` |

Bounds, and why they are enough.

- *Connections.* Two connections of one ID give an eviction, a clean-up between two
  registrations and a rejection; the properties of `hub` speak of at most two connections of
  an ID at a time. For the invariants, `AgentHub_proofs` covers any number of them.
- *Capacities.* With channels of capacity one, a single task that is both flushed and pushed
  finds a channel full, blocks the flush and overflows the agent's queue. In `delivery` the
  agent's own channel (`ReportCap`) has one place, so that every final report may find it full;
  in `delivery_restarts` it has two, so that reports of two tasks meet in it and
  it is full with a running report in front and with a final one. `AgentQueueCap`, `SendCap`
  and `ReportCap` are parameters and are 8, 32 and 32 in the code.
- *Restarts.* One separates a state from what was read back, and a second one adds no new
  kind of state. `MaxCrashes`, `Fragile`, `MaxRestarts`, `MaxEdits` and `MaxEvents` are bounds of
  the models only. `Fragile` names the connections that the network may break in `Delivery`;
  stopping the agent or restarting the server breaks any.
- *Store.* `MaxEvents` bounds polls, failed writes and crashes together. Two allow a failed
  write and then a crash, two crashes, and two polls of one task, the longest chains that
  a property speaks of. Two runs are what a task that is offered twice has; one prints
  nothing, so that an empty text meets one that is not. Agents and tasks do not interact but
  by being in one file; `Store_proofs` covers any number.
- *Heartbeat.* The code's 30, 60 and 90 s are 3, 6 and 9 units; the floor of the sweep, the
  first delay of the backoff and `RestartSec` are rounded up to one, and the 45 s that an
  attempt to dial may take (`AttemptTime`) to five. `ReconnectTime` is tight
  in this instance. A smaller unit gives no new order of events, and `Heartbeat_proofs`
  covers all periods.
- *Execution.* The names have dot segments, one of which leaves the directory and one of
  which does not; the configs are empty, collide in case, hold a value that is no scalar and
  a number that a float64 does not hold. One environment of the agent has variables of the names
  that configs lead to, the other has none.

Symmetry is used in `hub_broadcast`, over connections of one agent and over requests, and
never with liveness.

Deadlock checking is off for the hub and for `Delivery`: connections and requests are each
used once, so every instance comes to rest when they are used up. That nobody waits for ever
where the code should go on is what the liveness properties say. It is on for the others.

Runs that must find a violation, each of a statement of the repository:

| Run | The statement | What happens |
|-----|---------------|--------------|
| `doc_connected_online` | README 259: a connected agent is registered as online | the clean-up of the evicted connection marks the ID offline, and it stays so |
| `doc_flush_ends` | README 352: tasks created while offline are flushed on reconnect | with more pending tasks than the channel holds, the flush waits for a writer that is started after it |
| `doc_scripts_sequential` | `client.go` 162-163: a single goroutine runs the scripts | the executor of the lost connection is still running when the next one starts, possibly the same task |
| `doc_keeps_reconnecting` | README 352: the agent reconnects automatically | the server still holds the connection that the agent knows is lost, rejects the agent as its own duplicate, and the agent exits |
| `doc_signed_verified` | `models.go` 31: the canonical bytes that are signed and verified | the config `{}` is signed as `{}`, left out of the frame and verified as `null`: the agent refuses the task |

More statements do not hold and have no run:

- README 260-263, a second agent with a connected ID is rejected and the first is unaffected:
  two hellos can both pass the check before either registers, and the later evicts the
  earlier (`HubMatchesHandlers` is stated so that it allows this).
- IMPLEMENTATION 247-250, pending, running, completed or failed: a task stored between
  `register` and `listTasks` is pushed and flushed, runs twice and goes from completed back to
  running (`RerunOnlyIfOfferedTwice` says that nothing else has this effect).
- IMPLEMENTATION 136, a map protected by an RWMutex, on which
  `examples/github-actions/deploy-and-wait.yml` relies: a response is encoded without the lock and
  may say completed without the output. `NextPollComplete` is what holds instead.
- README 350, an agent stopped with SIGTERM finishes a running task: `Terminate` ends the
  process in any state, and `RunningOnConnection` allows the result.
- `server.go` 102-103, a stale agent is found within one extra timeout regardless of how short
  it is: the floor of two seconds exceeds short timeouts (`GoneAgentOffline` has the bound
  that holds), and a timeout below the ping period marks a live agent offline for good.
- `cmd/agent/main.go` 60 and README 247, the maximum delay between retries: the jitter is
  added after the limit, by a quarter of it, and the backoff is never reset (`ReconnectTime`
  counts with both).
- `executor.go` 95-97 and README 410, scripts with a `.user` file run as that user: a file whose
  text is no valid name is ignored, and the script runs as the agent's user (`ReadRunAsUser`).

## Fairness

`AgentHub!Fairness`: weak fairness of each handler's handshake, of the write loop, of
the clean-up and of each request, because a goroutine that can run is scheduled;
and of the sweep for each agent, because its ticker keeps ticking. None for dialling,
posting, failures, restarts or the agent's reports. A lost connection is noticed
because every read has a deadline of `WSPongWait`; that is the fairness of
`CleanUp`. In `hub` a connection that is up may stay up for ever.

`Delivery!Fairness` is one condition: as long as something can happen by itself,
something does. `Progress` lists what happens by itself: the server's goroutines as
above without the sweep; the agent's executor and writer run, the latter into a lost socket
as well, scripts end, its reader
notices a lost connection by its own deadline, and its loop dials as long as there
are connections left. This follows from fairness to each goroutine and suffices,
because every connection and every task is used up in finitely many steps. Scripts
do end only if their authors see to it: the code sets no time limit, so a script
that hangs stops its executor, and `StableConnectionDelivers` says nothing about that.

The sweep of `AgentHub` is untimed. `Fresh` says which agents it leaves alone: those with a
connection that is being set up or is served on a working socket. This is
`LiveAgentOnline` of `Heartbeat`, which is proved for `PingPeriod + Delay <= AgentTimeout`: 30 s
and a delay against 90 s. With a shorter timeout, which the code allows, it does not hold.

`Store`, `Heartbeat` and `Execution` state no fairness and no liveness. In `Heartbeat`, what must
happen in time is a safety property: `Tick` waits for what is due, and the bounds are
on the clocks.

## Proofs

`AgentHub_proofs` proves, for all constants that satisfy `HubAssumption` (distinct
"none" values, `AgentOf` a function from connections to agents, capacities natural
numbers):

| Theorem | Property | Inductive invariant |
|---------|----------|---------------------|
| `TypeCorrect` | `TypeOK` | `TypeInv` |
| `HubCorrect` | `HubMatchesHandlers` | `TypeInv /\ HubInv` |
| `OnlineCorrect` | `OnlineHasHandler` | `TypeInv /\ HubInv /\ OnlineHasHandler` |
| `NoTaskOverlookedCorrect` | `NoTaskOverlooked` | `TypeInv /\ HubInv /\ CoverInv` |
| `FramesAddressedCorrect` | `FramesAddressed` | `TypeInv /\ FrameInv` |
| `RerunCorrect` | `RerunOnlyIfOfferedTwice` | `TypeInv /\ OfferInv` |

None of the properties is inductive as it stands:

- `TypeInv` adds that a request with a task in hand knows its agent, that the
  connection it found belongs to that agent, and that the hub files connections
  under their own ID. Without it `PushSends` could append anything.
- `HubInv` adds that a closed channel belongs to a handler that has registered;
  otherwise a handler could be evicted before it registers.
- `CoverInv` says where a pending task may be while a connection is flushed or served:
  it has been reached, is still to be flushed, or is in the hands of a request that
  has yet to look the connection up or to send on it. Before the list is taken
  nothing can be missed, because the connection is registered first; this is the
  argument for that order.
- `FrameInv` adds that the list to be flushed holds the agent's own tasks.
- `OfferInv` counts: the offers of a task to a connection, less those that still wait in its
  channel or with its peer, are spent. A step may spend an offer and never takes one back, a
  connection holds a task no more often than it was offered it, and some connection has spent
  an offer of every finished task. A finished task that is reported on again therefore had
  two. The counting itself is in `QueueCounts`: what `Append` and `Tail` do to the number of
  times that a task is in a queue.

Each is one lemma for the initial state, one for a step with one case per action,
and a temporal step. The same holds of the other modules.

`Delivery_proofs`, for all constants that satisfy `DeliveryAssumption`: any number of agents,
connections, requests, restarts and failures, and any capacities.

| Theorem | Property | From |
|---------|----------|------|
| `DeliveryInvCorrect` | | the inductive invariant `DeliveryInv` |
| `DeliveryTypeCorrect` | `DeliveryTypeOK` | `DeliveryInv` |
| `ReportsPairedCorrect` | `ReportsPaired` | `ClientInv`, a part of `DeliveryInv` |
| `StartsBackedCorrect` | `StartsBacked` | `OwedInv`, a part of `DeliveryInv` |
| `RunningCorrect` | `RunningOnConnection` | `DeliveryInv /\ RunningInv` |
| `PeerRefinedCorrect` | `PeerRefined` | `DeliveryInv`, and `PeerStep` for a step |
| `HubCorrectWithAgent` | the properties of `AgentHub`, with the agent as its peer | `PeerStep` and the theorems of `AgentHub_proofs` |

`DeliveryInv` takes the type invariant of the hub and, from `AgentClient_proofs`, `ClientInv`,
which says of each connection, live or not:

- `Alternates`, `Paired`: the reports in `send` take turns, and a running one is followed by one
  on the same task; `EndsInHand`: the last is the running report of the task in hand while
  its script is under way, and a final one otherwise. So the next report fits, whatever
  the writer has taken from the front;
- `ReportsStarted`: what is reported on, or in hand and announced, was started here;
- `Untouched`, `LoopInv`: a connection not yet dialed has no trace, and Connect reads from one
  that was.

`LinkInv` ties the sides together: the agent reads from the connection whose socket is up, and
has nothing to do on it before the server's write loop runs. `OwedInv` is `StartsBacked` made
inductive: the starts of a task, those to come (it is in `taskCh`, or in hand and not yet
announced) and the frames in the channel are no more than its offers.

`PeerStep` is the refinement of a step: whatever the two sides do, `AgentHub` does it with the
derived peer, or stutters. The agent's own steps between two reports are stutters, because they
move a task along `Unreported` without changing it; a running report that is transmitted starts
the first task of the peer, and a final one removes it; a frame that is received is appended,
and one that is dropped is `WriteDroppedFrame`; a connection that is lost empties the peer,
while the agent's own queues go on. `RunningInv` says of a running task that a peer runs it or
that a connection on which it was started is lost; of a peer, `AgentHub_proofs` shows when it stops
running a task (`RunningStep`).

`Store_proofs` proves all properties of `Store`, for any agents, tasks, runs and number of
events:

| Theorem | Property | Inductive invariant |
|---------|----------|---------------------|
| `TypeCorrect` | `TypeOK` | `TypeInv` |
| `FileCurrentCorrect`, `ContractCorrect` | `FileCurrent`, `StoreContractKept` | `TypeInv /\ CallInv`, and `FileCurrent` itself |
| `AcknowledgedCorrect`, `FileTasksCorrect` | `AcknowledgedTaskKept`, `FileTasksKept` | `TypeInv /\ CallInv /\ LossInv` |
| `TextsCorrect` | `TextsOfRuns` | `TypeInv /\ CallInv /\ TextInv /\ UpdateInv` |
| `NextPollCorrect` | `NextPollComplete` | these and `ReaderInv /\ PollInv` |

`CallInv` relates the phase of a call to what it has done: which record differs from
`settled`, and that the temporary file holds the memory when it is renamed. `LossInv` does for
a stored task what the property says of an acknowledged one. `TextInv` says of every record, in
memory, in `settled` and in both files, that its texts and its final status come from runs that
reported them: a restart may bring back any of these. `UpdateInv` says which part of an update is
written. `PollInv` follows a reader that starts after a response called its task finished: the
fields it has encoded are those of the record, which is not being updated, because the
reader took the lock after the update had released it.

`Heartbeat_proofs`, for all periods, deadlines and timeouts that satisfy
`HeartbeatAssumption`:

| Theorem | Property | Needs | Inductive invariant |
|---------|----------|-------|---------------------|
| `TypeCorrect` | `TypeOK` | | `TypeInv`, with which sides hold a working link |
| `LiveConnectionCorrect` | `LiveConnectionKept` | `PingPeriod + Delay < PongWait` | `PingInv`: the age of a deadline is bounded by the age of the last ping and of its pong |
| `LiveAgentCorrect` | `LiveAgentOnline` | `PingPeriod + Delay <= AgentTimeout` | with `HeardInv`: the heartbeat is not older than the server's deadline, since a pong renews both |
| `GoneAgentCorrect` | `GoneAgentOffline` | | `BrokenInv`, `SweepInv`: a failed link is not older than the server's deadline, and an online agent was not stale at the last sweep |
| `ReconnectCorrect` | `ReconnectsInTime` | `AttemptTime <= PongWait`, `RestartSec <= LongestWait` | `ApartInv`: the time apart is bounded by the deadline of a side that still holds the old connection, and with what is left to wait it is within `ReconnectTime`; for a process that has exited with another key it stands still |

`ReconnectsInTime` says nothing of the time that an agent is shut out by a new key, which only an
operator ends, and bounds it again from then on.

The inequalities are hypotheses of the theorems, not of the model. The first two hold of the
code's values for any delay below 30 s. An attempt to dial ends after the 45 s of
`websocket.DefaultDialer` (`client.go` 104) or the 10 s of the agent's HTTP client
(`client.go` 55), against a read deadline of 60 s. `RestartSec` is 5 s in
`deploy/agent.service` and the longest wait is a quarter more than `MaxRetry`; with a maximum
delay below 4 s systemd would be the slower one, and the bound would be its delay.

`Execution_proofs`, for any names, files, users, configs, environments of the agent and number of restarts and edits:

| Theorem | Property | Inductive invariant |
|---------|----------|---------------------|
| `TypeCorrect` | `TypeOK` | `StateInv` |
| `SignedCorrect` | `RunsOnlySigned` | with `VerifiedInv`: past the check, the task bears the agent's key |
| `RefusedCorrect` | `RefusedForCause` | with `TaskInv`, `RequestInv`: a stored task bears the key of its boot and a config that JSON leaves alone |
| `EnvironmentCorrect` | `EnvironmentOfTask` | with `EnvInv`: the environment in hand, and of what ran, is one that `BuildEnv` makes of the task's config and the agent's environment (`BuiltEnv` says what is in it) |
| `UserCorrect` | `RunsAsNamedUser` | with `UserInv`: the file's present text is among those shown |
| `ResultCorrect` | `ResultTruthful` | `StateInv` |
| `RequestedCorrect` | `RunsWhatWasRequested` | with `FileInv`: past the check of names, the task's name is valid, and the file that was started is at its path; with `EnvInv` for the config |

`RequestedCorrect` rests on `CleanWords`: `Clean` changes no path that has only `Words`. `Clean` is
recursive, and induction is not available here; the proof takes the least prefix that is
changed, which exists because the natural numbers are well-founded (`LeastNatural`), and shows that
the one before it is changed already.

Only model-checked: all liveness, which the prover cannot handle with fairness. These are
`RequestsFinish`, `GoneAgentGoesOffline` and `EvictedConnectionEnds` of `AgentHub` and
`StableConnectionDelivers` of `Delivery`. The inductive invariants are not listed in the runs'
configs, which name what a reader wants to know; `DeliveryInv` was confirmed by TLC on both
instances of `Delivery` before it was proved.

## Not modelled

- Authentication, TLS, the web page, packaging and logging: no state that other
  parts depend on.
- Frames between the two sides as a queue: a frame crosses in one step. What a delayed
  report could do to the store it does here by being sent later.
- Two different agent processes in `Delivery`: `AgentHub` covers several agents and two
  processes that share an ID.
- Two server processes on one data file, as after a start that cannot listen and is not
  noticed; a server without a data file.
- Reading flags, listening, URLs: no state.

## Plan

No safety property of a run is left without a theorem. What could follow:

1. The safety half of the liveness properties: what has to hold for `RequestsFinish` and
   `EvictedConnectionEnds` in every state, namely which goroutine is able to take the
   next step (for instance, that a handler whose channel was closed is never left with a
   writer that waits for it).
2. `StableConnectionDelivers` needs queues with room for all tasks. That no frame is dropped
   when `AgentQueueCap` and `SendCap` are at least the number of offers follows from `OwedInv`
   and could be a theorem of its own.
3. A record of the identity of the agent process in `AgentHub`, so that results can be traced to
   the process that was sent the task.
