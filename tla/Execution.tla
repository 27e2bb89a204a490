----------------------------- MODULE Execution -----------------------------
(***************************************************************************)
(* What becomes of a request between the API and the script: the server    *)
(* signs the task (internal/server/server.go, internal/models/models.go),  *)
(* JSON carries it through the data file and the frame, and the agent's    *)
(* executor verifies it, finds the script and runs it with the agent's     *)
(* environment and the task's variables (internal/agent/executor.go); of   *)
(* the environment, the names of such variables are modelled, and sudo -E  *)
(* is taken to pass it on.  The signing key is the server's                *)
(* (cmd/server/main.go), the verify key the agent's (cmd/agent/main.go),   *)
(* and the scripts directory can be edited at any time.                    *)
(*                                                                         *)
(* Tasks are followed one at a time; a task's ID is left out.  A script    *)
(* name is the sequence of its segments, and a path is relative to the     *)
(* scripts directory.                                                      *)
(***************************************************************************)
EXTENDS Naturals, SequencesExt

CONSTANTS
    Words,        \* segments that match segmentRegex
    Names,        \* the script names that are requested
    Files,        \* the paths that hold a script
    Users,        \* user names that match segmentRegex
    ConfigKeys,   \* top-level keys of configs
    Upper,        \* ToUpper of each
    Values,       \* JSON values
    Scalars,      \* those that are strings, numbers or booleans
    Decoded,      \* what Unmarshal makes of each: a number becomes a float64
    Configs,      \* the configs of requests, as maps
    Environs,     \* the environments that the agent may be started with
    MaxRestarts,  \* bound on the server's restarts
    MaxEdits      \* bound on the edits of the scripts directory

ASSUME ExecutionAssumption ==
    /\ Words \subseteq STRING \ {"", ".", ".."} /\ Names \subseteq Seq(STRING) \ {<<>>}
    /\ Users \subseteq Words /\ Scalars \subseteq Values
    /\ Upper \in [ConfigKeys -> ConfigKeys]
    /\ Decoded \in [Values -> Values]
    /\ Configs \subseteq UNION {[K -> Values] : K \in SUBSET ConfigKeys}
    /\ \A e \in Environs : DOMAIN e.scalars \subseteq ConfigKeys
    /\ \A v \in Values : /\ Decoded[Decoded[v]] = Decoded[v]
                         /\ Decoded[v] \in Scalars <=> v \in Scalars
    /\ MaxRestarts \in Nat /\ MaxEdits \in Nat

VARIABLES
    configured,   \* RASPICD_SIGNING_KEY is set: the key survives restarts
    signingKey,   \* the server's key, named by the boot that made it
    verifyKey,    \* RASPICD_VERIFY_KEY of the agent, or NoKey
    checked,      \* the boot of the server that the running agent was started against
    environ,      \* RASPICD_CONFIG and RASPICD_CONFIG_* in os.Environ() of the agent
    task,         \* the task, as it is in the store, then at the agent
    pc,           \* how far it is
    scripts,      \* the mode of each path: absent, plain, executable
    userFiles,    \* the text of each path's .user file, or NoFile
    runAs, env,   \* the executor's
    result,       \* the TaskResultRequest
    edits,        \* edits of the directory so far
    \* History, read by no guard.
    boot,         \* starts of the server
    request,      \* what was requested, and of which boot
    shown,        \* contents of the task's .user file since it was received
    ran           \* what the script was run with, and its exit

keyVars == <<configured, signingKey, boot>>
agentVars == <<verifyKey, checked, environ>>
dirVars == <<scripts, userFiles, edits>>
runVars == <<runAs, env, result, ran>>
vars == <<keyVars, agentVars, task, pc, dirVars, runVars, request, shown>>

Boots == 0..MaxRestarts
NoKey == MaxRestarts + 1
NotRunning == MaxRestarts + 1
NoFile == "nofile"
Invalid == "invalid"
AgentUser == "agent"
NoName == <<"">>
NoError == "none"
Empty == [k \in {} |-> NoFile]
NoConfig == [nil |-> TRUE, map |-> Empty]
NoTask == [script |-> <<>>, config |-> NoConfig, signature |-> <<NoKey, <<>>>>]
NoRun == [file |-> <<>>, user |-> AgentUser, env |-> [config |-> NoConfig, scalars |-> Empty],
          exit |-> "unstarted"]

-----------------------------------------------------------------------------
(* JSON. A config that is empty is left out by omitempty, and what is left  *)
(* out is decoded as a nil map.                                             *)

(* Mutant of DecodedConfig: numbers stay as they are written. *)
DecodedConfigExact(map) == map

DecodedConfig(map) == [k \in DOMAIN map |-> Decoded[map[k]]]

RoundTrip(t) ==
    [t EXCEPT !.config = IF t.config.map = Empty THEN NoConfig
                         ELSE [t.config EXCEPT !.map = DecodedConfig(@)]]

-----------------------------------------------------------------------------
(* Signing. A key's signature of a message is the pair of both. *)

(* SigningMessage: Marshal writes a nil map as null and an empty one as {}. *)
SigningMessage(t) == <<t.script, t.config>>

SignTask(t) == [t EXCEPT !.signature = <<signingKey, SigningMessage(t)>>]

(* Mutant of Verified: any signature is accepted. *)
VerifiedAny(t) == verifyKey = NoKey \/ t.signature # NoTask.signature

(* verifySignature; without a verify key every task is accepted. *)
Verified(t) ==
    verifyKey = NoKey \/ t.signature = <<verifyKey, SigningMessage(t)>>

-----------------------------------------------------------------------------
(* Names and paths. *)

(* Mutant of IsValidScriptName: dots are allowed. *)
IsValidScriptNameOrDots(name) == Range(name) \subseteq Words \cup {".", ".."}

IsValidScriptName(name) == Range(name) \subseteq Words

(* filepath.Join cleans the path; the suffix keeps the last segment from    *)
(* being a dot segment.                                                     *)
Clean(path) ==
    LET cleaned[n \in 0..Len(path)] ==
            IF n = 0 THEN <<>>
            ELSE LET p == cleaned[n - 1]
                     s == path[n]
                 IN  CASE s \in {"", "."} -> p
                       [] s = ".." /\ p # <<>> /\ Last(p) # ".." -> Front(p)
                       [] OTHER -> Append(p, s)
    IN  cleaned[Len(path)]
PathOf(name) == Append(Clean(Front(name)), Last(name))

StaysInside(path) == path[1] # ".."
ValidScript(name) == IsValidScriptName(name) /\ StaysInside(PathOf(name))

(* Mutant of UserFileOf: the directories of the name are left out. *)
UserFileOfBase(name) == <<Last(name)>>

UserFileOf(name) == PathOf(name)

Mode(path) == IF path \in Files THEN scripts[path] ELSE "absent"
UserText(path) == IF path \in Files THEN userFiles[path] ELSE NoFile

(* readRunAsUser: a file that is absent or has no valid name is ignored. *)
ReadRunAsUser(text) == IF text \in Users THEN text ELSE AgentUser

(* The variables of a task's top-level scalars: of the keys that only       *)
(* differ in case, the one that the map's order puts last wins.             *)
TaskScalars(map) ==
    LET keys == {k \in DOMAIN map : map[k] \in Scalars}
        names == {Upper[k] : k \in keys}
        lasts == {f \in [names -> keys] : \A n \in names : Upper[f[n]] = n}
    IN {[n \in names |-> map[f[n]]] : f \in lasts}

(* Of two variables with one name, the later counts. *)
Overriding(later, earlier) ==
    [n \in DOMAIN later \cup DOMAIN earlier |->
        IF n \in DOMAIN later THEN later[n] ELSE earlier[n]]

(* buildEnv: the environment of the agent's process, then the variables of  *)
(* the task; an empty config adds none.                                     *)
BuildEnv(config) ==
    {[config |-> IF config.map = Empty THEN environ.config ELSE config,
      scalars |-> Overriding(scalars, environ.scalars)] : scalars \in TaskScalars(config.map)}

(* Mutant of Environments: the variables are set in the agent's process, so *)
(* that those of earlier tasks stay.                                        *)
EnvironmentsKept(config) ==
    {[e EXCEPT !.scalars = Overriding(@, env.scalars)] : e \in BuildEnv(config)}

(* The environments a script may be given. *)
Environments(config) == BuildEnv(config)

-----------------------------------------------------------------------------
Modes == {"absent", "plain", "executable"}
Texts == Users \cup {NoFile, Invalid}
Errors == {NoError, "signature", "name", "missing", "run"}
NoResult == [status |-> "none", error |-> NoError]

TypeOK ==
    /\ configured \in BOOLEAN /\ boot \in Boots
    /\ signingKey \in Boots /\ verifyKey \in Boots \cup {NoKey}
    /\ checked \in Boots \cup {NotRunning} /\ environ \in Environs \cup {NoRun.env}
    /\ pc \in {"none", "stored", "received", "verified", "found", "ready", "done"}
    /\ pc # "none" => /\ task.script \in Names \ {NoName}
                      /\ task.config.nil => task.config.map = Empty
                      /\ \A k \in DOMAIN task.config.map :
                            Decoded[task.config.map[k]] = task.config.map[k]
    /\ scripts \in [Files -> Modes] /\ userFiles \in [Files -> Texts]
    /\ runAs \in Users \cup {AgentUser} /\ shown \subseteq Texts
    /\ result.status \in {"none", "completed", "failed"} /\ result.error \in Errors
    /\ edits \in 0..MaxEdits

Init ==
    /\ configured \in BOOLEAN /\ boot = 0 /\ signingKey = 0
    /\ verifyKey \in Boots \cup {NoKey} /\ checked = NotRunning
    /\ environ = NoRun.env
    /\ task = NoTask /\ pc = "none"
    /\ scripts = [f \in Files |-> "executable"]
    /\ userFiles = [f \in Files |-> NoFile] /\ edits = 0
    /\ runAs = AgentUser /\ env = NoRun.env /\ result = NoResult
    /\ request = [script |-> <<>>, config |-> NoConfig, boot |-> 0]
    /\ shown = {} /\ ran = NoRun

-----------------------------------------------------------------------------
(* The server. *)

(* handleTasks or handleBroadcastTask, dispatchTask, signTask. *)
Create(name, config) ==
    /\ pc = "none" /\ name # NoName
    /\ task' = SignTask([NoTask EXCEPT !.script = name,
                            !.config = [config EXCEPT !.map = DecodedConfig(@)]])
    /\ pc' = "stored"
    /\ request' = [script |-> name, config |-> config, boot |-> boot]
    /\ UNCHANGED <<keyVars, agentVars, dirVars, runVars, shown>>

(* loadOrGenerateSigningKey, and load of the data file. *)
ServerRestarts ==
    /\ boot < MaxRestarts
    /\ boot' = boot + 1
    /\ signingKey' = IF configured THEN signingKey ELSE boot'
    /\ task' = IF pc = "stored" THEN RoundTrip(task) ELSE task
    /\ UNCHANGED <<configured, agentVars, pc, dirVars, runVars, request, shown>>

-----------------------------------------------------------------------------
(* The agent's process. *)

(* Mutant of AgentStarts: the server's key is not compared. *)
AgentStartsUnchecked ==
    /\ checked = NotRunning
    /\ checked' = boot /\ environ' \in Environs
    /\ UNCHANGED <<keyVars, verifyKey, task, pc, dirVars, runVars, request, shown>>

(* run and VerifyServerPublicKey: an agent whose verify key is not the      *)
(* server's exits. systemd gives each process the environment of its file.  *)
AgentStarts ==
    /\ checked = NotRunning
    /\ verifyKey \in {NoKey, signingKey}
    /\ checked' = boot /\ environ' \in Environs
    /\ UNCHANGED <<keyVars, verifyKey, task, pc, dirVars, runVars, request, shown>>

(* A task that was at the agent is delivered again or lost; its environment *)
(* goes with the process.                                                  *)
AgentStops ==
    /\ checked # NotRunning
    /\ checked' = NotRunning
    /\ pc' \in IF pc \in {"none", "stored"} THEN {pc} ELSE {"none", "stored"}
    /\ ran' = NoRun /\ result' = NoResult /\ shown' = {}
    /\ environ' = NoRun.env /\ env' = NoRun.env /\ runAs' = AgentUser
    /\ UNCHANGED <<keyVars, verifyKey, task, dirVars, request>>

(* The operator gives the agent the key of the server. *)
InstallKey ==
    /\ checked = NotRunning /\ verifyKey # signingKey
    /\ verifyKey' = signingKey
    /\ UNCHANGED <<keyVars, checked, environ, task, pc, dirVars, runVars, request, shown>>

-----------------------------------------------------------------------------
(* The executor. *)

At(from, to) ==
    /\ checked # NotRunning /\ pc = from /\ pc' = to
    /\ UNCHANGED <<keyVars, agentVars, dirVars, request>>

Fail(error) == result' = [status |-> "failed", error |-> error]

(* The frame of the task arrives and is decoded. *)
Receive ==
    /\ At("stored", "received")
    /\ task' = RoundTrip(task)
    /\ shown' = {UserText(PathOf(task.script))}
    /\ UNCHANGED runVars

Refuse ==
    /\ At("received", "done")
    /\ ~Verified(task)
    /\ Fail("signature")
    /\ UNCHANGED <<task, shown, runAs, env, ran>>

CheckName ==
    /\ \/ At("received", "verified") /\ ValidScript(task.script) /\ UNCHANGED result
       \/ At("received", "done") /\ ~ValidScript(task.script) /\ Fail("name")
    /\ Verified(task)
    /\ UNCHANGED <<task, shown, runAs, env, ran>>

Stat ==
    /\ LET executable == Mode(PathOf(task.script)) = "executable"
       IN \/ At("verified", "found") /\ executable /\ UNCHANGED result
          \/ At("verified", "done") /\ ~executable /\ Fail("missing")
    /\ UNCHANGED <<task, shown, runAs, env, ran>>

Prepare ==
    /\ At("found", "ready")
    /\ env' \in Environments(task.config)
    /\ runAs' = ReadRunAsUser(UserText(UserFileOf(task.script)))
    /\ UNCHANGED <<task, shown, result, ran>>

(* Mutant of Finish: what a script exits with is not an error. *)
FinishUnchecked(exit) ==
    IF exit = "unstarted" THEN Fail("run") ELSE result' = [status |-> "completed", error |-> NoError]

(* The end of Run: a task is completed if there is no error. *)
Finish(exit) ==
    IF exit = "success" THEN result' = [status |-> "completed", error |-> NoError] ELSE Fail("run")

(* cmd.Run: the script, or sudo, cannot be started, or it runs and exits.   *)
Execute(exit) ==
    /\ At("ready", "done")
    /\ exit # "unstarted" => Mode(PathOf(task.script)) = "executable"
    /\ Finish(exit)
    /\ ran' = [file |-> PathOf(task.script), user |-> runAs, env |-> env, exit |-> exit]
    /\ UNCHANGED <<task, shown, runAs, env>>

(* The result is sent; the next task can come. *)
Report ==
    /\ At("done", "none")
    /\ ran' = NoRun /\ result' = NoResult /\ shown' = {}
    /\ UNCHANGED <<task, runAs, env>>

-----------------------------------------------------------------------------
(* The scripts directory. *)

Edit ==
    /\ edits < MaxEdits /\ edits' = edits + 1
    /\ UNCHANGED <<keyVars, agentVars, task, pc, runVars, request>>

EditScript(f, mode) ==
    /\ mode # scripts[f] /\ scripts' = [scripts EXCEPT ![f] = mode]
    /\ Edit
    /\ UNCHANGED <<userFiles, shown>>

EditUserFile(f, text) ==
    /\ text # userFiles[f] /\ userFiles' = [userFiles EXCEPT ![f] = text]
    /\ shown' = IF pc \in {"none", "stored"} \/ PathOf(task.script) # f THEN shown
                ELSE shown \cup {text}
    /\ Edit
    /\ UNCHANGED scripts

Next ==
    \/ \E name \in Names, map \in Configs : Create(name, [nil |-> FALSE, map |-> map])
    \/ \E name \in Names : Create(name, NoConfig)
    \/ ServerRestarts \/ AgentStarts \/ AgentStops \/ InstallKey
    \/ Receive \/ Refuse \/ CheckName \/ Stat \/ Prepare \/ Report
    \/ \E exit \in {"unstarted", "success", "failure"} : Execute(exit)
    \/ \E f \in Files : \/ \E mode \in Modes : EditScript(f, mode)
                        \/ \E text \in Texts : EditUserFile(f, text)

Spec == Init /\ [][Next]_vars

-----------------------------------------------------------------------------
Started == ran.exit # "unstarted"

(* What runs is what was requested: the script whose path is the name as it *)
(* was written, with the whole config, after the data file and the frame.   *)
(* Only if the request has none is RASPICD_CONFIG the agent's own, if any.  *)
RunsWhatWasRequested ==
    Started =>
        LET map == DecodedConfig(request.config.map)
        IN /\ ran.file = request.script
           /\ IF map = Empty THEN ran.env.config = environ.config
              ELSE ran.env.config.map = map

(* An agent with a verify key runs no task of a server with another key. *)
RunsOnlySigned ==
    Started /\ verifyKey # NoKey => task.signature[1] = verifyKey

(* A task is refused for its signature only if its config is {}, or if the  *)
(* key is not configured and the task was created by another process of the *)
(* server than the one that the agent compared its key with.                *)
RefusedForCause ==
    result.error = "signature" =>
        \/ request.config = [nil |-> FALSE, map |-> Empty]
        \/ ~configured /\ request.boot # checked

(* A script has a variable for each top-level scalar of its own task, with  *)
(* the value of a key of that name, and otherwise exactly what the agent's  *)
(* process was started with: nothing is left of other tasks.                *)
EnvironmentOfTask ==
    Started =>
        LET map == DecodedConfig(request.config.map)
            keys == {k \in DOMAIN map : map[k] \in Scalars}
            names == {Upper[k] : k \in keys}
            scalars == ran.env.scalars
        IN /\ DOMAIN scalars = names \cup DOMAIN environ.scalars
           /\ \A n \in names : \E k \in keys : Upper[k] = n /\ scalars[n] = map[k]
           /\ \A n \in DOMAIN environ.scalars \ names : scalars[n] = environ.scalars[n]

(* A script runs as the user that its .user file named at some moment since *)
(* the task was received, and as the agent's user only if at some moment it *)
(* named none.                                                              *)
RunsAsNamedUser == Started => ran.user \in {ReadRunAsUser(t) : t \in shown}

(* The result says completed if and only if the script ran and succeeded. *)
ResultTruthful ==
    pc = "done" => (result.status = "completed" <=> ran.exit = "success")

(* models.go: the bytes that are signed are those that are verified, so     *)
(* that an agent with the key of the signer does not refuse the task.       *)
SignedIsVerified ==
    result.error = "signature" => task.signature[1] # verifyKey
=============================================================================
