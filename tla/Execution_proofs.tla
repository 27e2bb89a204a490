-------------------------- MODULE Execution_proofs --------------------------
(***************************************************************************)
(* The safety of Execution for any keys, names, configs and scripts and    *)
(* any number of restarts and edits.                                       *)
(***************************************************************************)
EXTENDS Execution, SequenceTheorems, WellFoundedInduction, TLAPS

(* The config that was signed, and what is left of it after JSON. *)
SignedConfig == [nil |-> request.config.nil, map |-> DecodedConfig(request.config.map)]
SentConfig == IF SignedConfig.map = Empty THEN NoConfig ELSE SignedConfig

(* The key that the server has had since a start. *)
KeyOf(b) == IF configured THEN 0 ELSE b

RequestInv ==
    pc # "none" =>
        /\ request.script \in Names \ {NoName}
        /\ request.config \in {NoConfig} \cup {[nil |-> FALSE, map |-> m] : m \in Configs}

(* The task is the request, signed by the server of its time. *)
TaskInv ==
    pc # "none" => \E config \in {SignedConfig, SentConfig} :
        task = [script |-> request.script, config |-> config,
                signature |-> <<KeyOf(request.boot), <<request.script, SignedConfig>>>>]

KeyInv ==
    /\ signingKey = KeyOf(boot)
    /\ checked # NotRunning => verifyKey \in {NoKey, KeyOf(checked)}

(* An agent that does not run has nothing in hand, and a task that is not   *)
(* done has neither run nor a result.                                       *)
HandInv ==
    /\ checked = NotRunning => pc \in {"none", "stored"}
    /\ pc # "done" => ran = NoRun /\ result = NoResult

(* Whatever was verified stays so. *)
VerifiedInv == pc \in {"verified", "found", "ready"} \/ Started => Verified(task)

EnvInv ==
    /\ pc = "ready" => env \in BuildEnv(task.config)
    /\ Started => ran.env \in BuildEnv(task.config)

UserInv ==
    /\ pc \notin {"none", "stored"} => UserText(PathOf(task.script)) \in shown
    /\ pc = "ready" => runAs \in {ReadRunAsUser(t) : t \in shown}
    /\ Started => ran.user \in {ReadRunAsUser(t) : t \in shown}

(* What is run is the script at the path of a valid name. *)
FileInv ==
    /\ pc \in {"verified", "found", "ready"} => ValidScript(task.script)
    /\ Started => ValidScript(task.script) /\ ran.file = PathOf(task.script)

LEMMA Bounds == MaxRestarts \in Nat /\ MaxEdits \in Nat
BY ExecutionAssumption DEF ExecutionAssumption

LEMMA DecodedTypes ==
    /\ Decoded \in [Values -> Values]
    /\ \A v \in Values : Decoded[Decoded[v]] = Decoded[v]
BY ExecutionAssumption DEF ExecutionAssumption

(* TypeOK without what it says of the task, which follows from TaskInv. *)
BasicTypes ==
    /\ configured \in BOOLEAN /\ boot \in Boots
    /\ signingKey \in Boots /\ verifyKey \in Boots \cup {NoKey}
    /\ checked \in Boots \cup {NotRunning} /\ environ \in Environs \cup {NoRun.env}
    /\ pc \in {"none", "stored", "received", "verified", "found", "ready", "done"}
    /\ scripts \in [Files -> Modes] /\ userFiles \in [Files -> Texts]
    /\ runAs \in Users \cup {AgentUser} /\ shown \subseteq Texts
    /\ result.status \in {"none", "completed", "failed"} /\ result.error \in Errors
    /\ edits \in 0..MaxEdits

-----------------------------------------------------------------------------
(* Configs and JSON. *)

LEMMA ConfigType ==
    ASSUME NEW m \in Configs
    PROVE  /\ m = [k \in DOMAIN m |-> m[k]]
           /\ \A k \in DOMAIN m : m[k] \in Values
<1>1. PICK K \in SUBSET ConfigKeys : m \in [K -> Values]
  BY ExecutionAssumption DEF ExecutionAssumption
<1> QED BY <1>1

LEMMA DecodedEmpty == DecodedConfig(Empty) = Empty
BY DEF DecodedConfig, Empty

(* A request's config, after JSON once and more often. *)
LEMMA DecodedRequest ==
    ASSUME NEW c, c \in {NoConfig} \cup {[nil |-> FALSE, map |-> m] : m \in Configs}
    PROVE  LET map == DecodedConfig(c.map)
           IN /\ c = [nil |-> c.nil, map |-> c.map] /\ c.nil \in BOOLEAN
              /\ DecodedConfig(map) = map
              /\ \A k \in DOMAIN map : map[k] \in Values /\ Decoded[map[k]] = map[k]
              /\ map = Empty => c.map = Empty
              /\ c.nil => c = NoConfig /\ map = Empty
<1>1. CASE c = NoConfig
  BY <1>1, DecodedEmpty DEF NoConfig, Empty
<1>2. ASSUME NEW m \in Configs, c = [nil |-> FALSE, map |-> m]
      PROVE  LET map == DecodedConfig(c.map)
             IN /\ c = [nil |-> c.nil, map |-> c.map] /\ c.nil \in BOOLEAN
                /\ DecodedConfig(map) = map
                /\ \A k \in DOMAIN map : map[k] \in Values /\ Decoded[map[k]] = map[k]
                /\ map = Empty => c.map = Empty
                /\ c.nil => c = NoConfig /\ map = Empty
  <2>1. /\ DOMAIN DecodedConfig(m) = DOMAIN m
        /\ \A k \in DOMAIN m : /\ DecodedConfig(m)[k] = Decoded[m[k]]
                               /\ DecodedConfig(m)[k] \in Values
                               /\ Decoded[DecodedConfig(m)[k]] = DecodedConfig(m)[k]
    BY ConfigType, DecodedTypes DEF DecodedConfig
  <2>2. DecodedConfig(DecodedConfig(m)) = DecodedConfig(m)
    BY <2>1 DEF DecodedConfig
  <2>3. DecodedConfig(m) = Empty => m = Empty
    <3>1. DOMAIN m = {} => m = Empty
      BY ConfigType DEF Empty
    <3> QED BY <2>1, <3>1 DEF Empty
  <2> QED BY <1>2, <2>1, <2>2, <2>3
<1> QED BY <1>1, <1>2

-----------------------------------------------------------------------------
(* Types, keys and what is in hand. *)

StateInv == BasicTypes /\ KeyInv /\ HandInv

LEMMA StateInit == Init => StateInv
<1> SUFFICES ASSUME Init PROVE StateInv
  OBVIOUS
<1>1. scripts \in [Files -> Modes] /\ userFiles \in [Files -> Texts]
  BY DEF Init, Modes, Texts
<1>2. boot \in Boots /\ signingKey \in Boots
  BY Bounds DEF Init, Boots
<1>3. result.status = "none" /\ result.error = NoError /\ NoError \in Errors
  BY DEF Init, NoResult, Errors
<1>4. KeyInv /\ HandInv
  BY Bounds DEF Init, KeyInv, HandInv, KeyOf
<1> QED BY <1>1, <1>2, <1>3, <1>4, Bounds DEF Init, StateInv, BasicTypes

(* The steps of the executor, by what they do to the result. *)
LEMMA ExecutorStep ==
    ASSUME StateInv, checked # NotRunning, UNCHANGED <<keyVars, agentVars, dirVars>>,
           runAs' = runAs, shown' = shown, pc \in {"received", "verified", "ready"},
           \/ pc' \in {"verified", "found"} /\ UNCHANGED <<result, ran>>
           \/ /\ pc' = "done"
              /\ \/ \E error \in Errors : result' = [status |-> "failed", error |-> error]
                 \/ result' = [status |-> "completed", error |-> NoError]
    PROVE  StateInv'
<1>1. NoError \in Errors
  BY DEF Errors
<1>2. pc' = "done" => result'.status \in {"completed", "failed"} /\ result'.error \in Errors
  BY <1>1
<1> QED BY <1>2 DEF StateInv, BasicTypes, KeyInv, HandInv, KeyOf, keyVars, agentVars, dirVars

LEMMA UserTypes ==
    ASSUME BasicTypes, NEW path
    PROVE  UserText(path) \in Texts /\ ReadRunAsUser(UserText(path)) \in Users \cup {AgentUser}
BY DEF BasicTypes, UserText, Texts, ReadRunAsUser

LEMMA StateNext == StateInv /\ [Next]_vars => StateInv'
<1> SUFFICES ASSUME StateInv, [Next]_vars PROVE StateInv'
  OBVIOUS
<1> USE Bounds DEF StateInv, BasicTypes, KeyInv, HandInv, KeyOf, keyVars, agentVars, dirVars, runVars
<1>1. ASSUME NEW name \in Names, NEW config, Create(name, config) PROVE StateInv'
  BY <1>1 DEF Create
<1>2. CASE ServerRestarts
  <2>1. boot' \in Boots /\ signingKey' \in Boots /\ signingKey' = KeyOf(boot)'
    BY <1>2 DEF ServerRestarts, Boots
  <2> QED BY <1>2, <2>1 DEF ServerRestarts
<1>3. CASE AgentStarts
  BY <1>3 DEF AgentStarts, Boots, NotRunning
<1>4. CASE AgentStops
  BY <1>4 DEF AgentStops, NoResult, Errors
<1>5. CASE InstallKey
  BY <1>5 DEF InstallKey
<1>6. CASE Receive
  <2>1. shown' \subseteq Texts
    BY <1>6, UserTypes DEF Receive
  <2> QED BY <1>6, <2>1 DEF Receive, At
<1>7. CASE Refuse
  BY <1>7, ExecutorStep DEF Refuse, At, Fail, Errors
<1>8. CASE CheckName
  BY <1>8, ExecutorStep DEF CheckName, At, Fail, Errors
<1>9. CASE Stat
  BY <1>9, ExecutorStep DEF Stat, At, Fail, Errors
<1>10. CASE Prepare
  <2>1. runAs' \in Users \cup {AgentUser}
    BY <1>10, UserTypes DEF Prepare
  <2> QED BY <1>10, <2>1 DEF Prepare, At
<1>11. CASE Report
  BY <1>11 DEF Report, At, NoResult, Errors
<1>12. ASSUME NEW exit, Execute(exit) PROVE StateInv'
  BY <1>12, ExecutorStep DEF Execute, At, Finish, Fail, Errors
<1>13. ASSUME NEW f \in Files, NEW mode \in Modes, EditScript(f, mode) PROVE StateInv'
  <2>1. scripts' \in [Files -> Modes] /\ edits' \in 0..MaxEdits
    BY <1>13 DEF EditScript, Edit
  <2> QED BY <1>13, <2>1 DEF EditScript, Edit
<1>14. ASSUME NEW f \in Files, NEW text \in Texts, EditUserFile(f, text) PROVE StateInv'
  <2>1. userFiles' \in [Files -> Texts] /\ edits' \in 0..MaxEdits /\ shown' \subseteq Texts
    BY <1>14 DEF EditUserFile, Edit
  <2> QED BY <1>14, <2>1 DEF EditUserFile, Edit
<1>15. CASE UNCHANGED vars
  BY <1>15 DEF vars
<1> QED BY <1>1, <1>2, <1>3, <1>4, <1>5, <1>6, <1>7, <1>8, <1>9, <1>10, <1>11, <1>12, <1>13,
           <1>14, <1>15 DEF Next

-----------------------------------------------------------------------------
(* The task is the request. *)

LEMMA SentTwice ==
    ASSUME RequestInv, pc # "none"
    PROVE  /\ SentConfig \in {SignedConfig, NoConfig}
           /\ \A config \in {SignedConfig, SentConfig} :
                /\ config.map = SignedConfig.map
                /\ (IF config.map = Empty THEN NoConfig
                    ELSE [config EXCEPT !.map = DecodedConfig(@)]) = SentConfig
<1>1. DecodedConfig(SignedConfig.map) = SignedConfig.map
  BY DecodedRequest DEF RequestInv, SignedConfig
<1>2. [SignedConfig EXCEPT !.map = DecodedConfig(@)] = SignedConfig
  BY <1>1 DEF SignedConfig
<1> QED BY <1>2, <1>1 DEF SentConfig, NoConfig

LEMMA TaskInit == Init => RequestInv /\ TaskInv
BY DEF Init, RequestInv, TaskInv

(* A step that leaves the request and the task alone. *)
LEMMA TaskKept ==
    ASSUME RequestInv, TaskInv, UNCHANGED <<configured, task, request>>, pc = "none" => pc' = "none"
    PROVE  RequestInv' /\ TaskInv'
BY DEF RequestInv, TaskInv, SignedConfig, SentConfig, KeyOf

LEMMA TaskSent ==
    ASSUME RequestInv, TaskInv, pc # "none", task' = RoundTrip(task),
           UNCHANGED <<configured, request>>
    PROVE  RequestInv' /\ TaskInv'
<1>1. PICK config \in {SignedConfig, SentConfig} :
        task = [script |-> request.script, config |-> config,
                signature |-> <<KeyOf(request.boot), <<request.script, SignedConfig>>>>]
  BY DEF TaskInv
<1>2. task' = [task EXCEPT !.config = SentConfig]
  <2>1. RoundTrip(task) =
          [task EXCEPT !.config = IF task.config.map = Empty THEN NoConfig
                                  ELSE [task.config EXCEPT !.map = DecodedConfig(@)]]
    BY DEF RoundTrip
  <2> QED BY <1>1, <2>1, SentTwice
<1>3. task' = [script |-> request.script, config |-> SentConfig,
               signature |-> <<KeyOf(request.boot), <<request.script, SignedConfig>>>>]
  BY <1>1, <1>2
<1>4. SignedConfig' = SignedConfig /\ SentConfig' = SentConfig
  BY DEF SignedConfig, SentConfig
<1> QED BY <1>3, <1>4 DEF RequestInv, TaskInv, KeyOf

LEMMA TaskNext ==
    StateInv /\ RequestInv /\ TaskInv /\ [Next]_vars => RequestInv' /\ TaskInv'
<1> SUFFICES ASSUME StateInv, RequestInv, TaskInv, [Next]_vars PROVE RequestInv' /\ TaskInv'
  OBVIOUS
<1>1. ASSUME NEW name \in Names, NEW config, Create(name, config),
             config \in {NoConfig} \cup {[nil |-> FALSE, map |-> m] : m \in Configs}
      PROVE RequestInv' /\ TaskInv'
  <2>1. /\ request' = [script |-> name, config |-> config, boot |-> boot]
        /\ name # NoName /\ configured' = configured /\ pc' = "stored"
    BY <1>1 DEF Create, keyVars
  <2>2. [config EXCEPT !.map = DecodedConfig(@)] =
            [nil |-> config.nil, map |-> DecodedConfig(config.map)]
    BY <1>1, DecodedRequest
  <2>3. SignedConfig' = [nil |-> config.nil, map |-> DecodedConfig(config.map)]
    BY <2>1 DEF SignedConfig
  <2>4. task' = [script |-> name, config |-> SignedConfig',
                 signature |-> <<signingKey, <<name, SignedConfig'>>>>]
    BY <1>1, <2>2, <2>3 DEF Create, SignTask, SigningMessage, NoTask
  <2>5. signingKey = KeyOf(boot)
    BY DEF StateInv, KeyInv
  <2>6. RequestInv'
    BY <1>1, <2>1 DEF RequestInv
  <2>7. TaskInv'
    BY <2>1, <2>4, <2>5 DEF TaskInv, KeyOf
  <2> QED BY <2>6, <2>7
<1>2. CASE ServerRestarts
  BY <1>2, TaskKept, TaskSent DEF ServerRestarts
<1>3. CASE AgentStarts \/ InstallKey
  BY <1>3, TaskKept DEF AgentStarts, InstallKey, keyVars
<1>4. CASE AgentStops
  BY <1>4, TaskKept DEF AgentStops, keyVars
<1>5. CASE Receive
  BY <1>5, TaskSent DEF Receive, At, keyVars
<1>6. CASE Refuse \/ CheckName \/ Stat \/ Prepare \/ Report
  BY <1>6, TaskKept DEF Refuse, CheckName, Stat, Prepare, Report, At, keyVars
<1>7. ASSUME NEW exit, Execute(exit) PROVE RequestInv' /\ TaskInv'
  BY <1>7, TaskKept DEF Execute, At, keyVars
<1>8. ASSUME NEW f \in Files, NEW mode \in Modes, EditScript(f, mode)
      PROVE RequestInv' /\ TaskInv'
  BY <1>8, TaskKept DEF EditScript, Edit, keyVars
<1>9. ASSUME NEW f \in Files, NEW text \in Texts, EditUserFile(f, text)
      PROVE RequestInv' /\ TaskInv'
  BY <1>9, TaskKept DEF EditUserFile, Edit, keyVars
<1>10. CASE UNCHANGED vars
  BY <1>10, TaskKept DEF vars, keyVars
<1> QED BY <1>1, <1>2, <1>3, <1>4, <1>5, <1>6, <1>7, <1>8, <1>9, <1>10 DEF Next

(* Whatever the server stores, and the agent gets, is a task that was       *)
(* requested, with a config that JSON does not change any more.             *)
THEOREM TypeCorrect == Spec => []TypeOK
<1>1. StateInv /\ RequestInv /\ TaskInv => TypeOK
  <2> SUFFICES ASSUME StateInv, RequestInv, TaskInv, pc # "none"
               PROVE  /\ task.script \in Names \ {NoName}
                      /\ task.config.nil => task.config.map = Empty
                      /\ \A k \in DOMAIN task.config.map :
                            Decoded[task.config.map[k]] = task.config.map[k]
    BY DEF StateInv, BasicTypes, TypeOK
  <2>1. task.script = request.script /\ task.config \in {SignedConfig, SentConfig}
    BY DEF TaskInv
  <2>2. SignedConfig.nil => SignedConfig.map = Empty
    BY DecodedRequest DEF RequestInv, SignedConfig
  <2>3. \A k \in DOMAIN SignedConfig.map : Decoded[SignedConfig.map[k]] = SignedConfig.map[k]
    BY DecodedRequest DEF RequestInv, SignedConfig
  <2>4. task.config.map = SignedConfig.map
    BY <2>1, SentTwice
  <2>5. task.config.nil => task.config.map = Empty
    BY <2>1, <2>2 DEF SentConfig, NoConfig
  <2> QED BY <2>1, <2>3, <2>4, <2>5 DEF RequestInv
<1>2. Spec => [](StateInv /\ RequestInv /\ TaskInv)
  BY StateInit, StateNext, TaskInit, TaskNext, PTL DEF Spec
<1> QED BY <1>1, <1>2, PTL

-----------------------------------------------------------------------------
(* Signatures. *)

LEMMA NotStarted == ran = NoRun => ~Started
BY DEF NoRun, Started

LEMMA VerifiedInit == Init => VerifiedInv
BY NotStarted DEF Init, VerifiedInv

LEMMA VerifiedNext == StateInv /\ VerifiedInv /\ [Next]_vars => VerifiedInv'
<1> SUFFICES ASSUME StateInv, VerifiedInv, [Next]_vars PROVE VerifiedInv'
  OBVIOUS
<1> USE DEF VerifiedInv
<1>1. ASSUME UNCHANGED <<verifyKey, task, ran>>, pc' = pc PROVE VerifiedInv'
  BY <1>1 DEF Verified, Started
<1>2. ASSUME pc' \in {"none", "stored", "received"}, ran' = NoRun PROVE VerifiedInv'
  BY <1>2 DEF Started, NoRun
<1>3. ASSUME NEW name \in Names, NEW config, Create(name, config) PROVE VerifiedInv'
  BY <1>2, <1>3 DEF StateInv, HandInv, Create, runVars
<1>4. CASE ServerRestarts
  BY <1>1, <1>2, <1>4 DEF StateInv, HandInv, ServerRestarts, agentVars, runVars
<1>5. CASE AgentStarts
  BY <1>1, <1>5 DEF AgentStarts, runVars
<1>6. CASE AgentStops
  BY <1>2, <1>6 DEF AgentStops
<1>7. CASE InstallKey
  BY <1>2, <1>7 DEF StateInv, HandInv, InstallKey, runVars
<1>8. CASE Receive
  BY <1>2, <1>8 DEF StateInv, HandInv, Receive, At, runVars
<1>9. CASE Refuse
  BY <1>9 DEF StateInv, HandInv, Refuse, At, Started, NoRun
<1>10. CASE CheckName
  BY <1>10 DEF CheckName, At, agentVars, Verified
<1>11. CASE Stat \/ Prepare
  BY <1>11 DEF Stat, Prepare, At, agentVars, Verified
<1>12. ASSUME NEW exit, Execute(exit) PROVE VerifiedInv'
  BY <1>12 DEF Execute, At, agentVars, Verified
<1>13. CASE Report
  BY <1>2, <1>13 DEF Report, At
<1>14. ASSUME NEW f \in Files, NEW mode \in Modes, EditScript(f, mode) PROVE VerifiedInv'
  BY <1>1, <1>14 DEF EditScript, Edit, agentVars, runVars
<1>15. ASSUME NEW f \in Files, NEW text \in Texts, EditUserFile(f, text) PROVE VerifiedInv'
  BY <1>1, <1>15 DEF EditUserFile, Edit, agentVars, runVars
<1>16. CASE UNCHANGED vars
  BY <1>1, <1>16 DEF vars, agentVars, runVars
<1> QED BY <1>3, <1>4, <1>5, <1>6, <1>7, <1>8, <1>9, <1>10, <1>11, <1>12, <1>13, <1>14, <1>15,
           <1>16 DEF Next

(* No script runs for a server whose key is not the agent's verify key,     *)
(* whatever was restarted and whatever keys were installed in between.      *)
THEOREM SignedCorrect == Spec => []RunsOnlySigned
<1>1. VerifiedInv => RunsOnlySigned
  BY DEF VerifiedInv, Verified, RunsOnlySigned
<1>2. Spec => [](StateInv /\ VerifiedInv)
  BY StateInit, StateNext, VerifiedInit, VerifiedNext, PTL DEF Spec
<1> QED BY <1>1, <1>2, PTL

LEMMA RefusedInit == Init => RefusedForCause
BY DEF Init, RefusedForCause, NoResult, NoError

LEMMA RefusedNext ==
    StateInv /\ RequestInv /\ TaskInv /\ RefusedForCause /\ [Next]_vars => RefusedForCause'
<1> SUFFICES ASSUME StateInv, RequestInv, TaskInv, RefusedForCause, [Next]_vars,
                    result'.error = "signature"
             PROVE  \/ request'.config = [nil |-> FALSE, map |-> Empty]
                    \/ ~configured' /\ request'.boot # checked'
  BY DEF RefusedForCause
<1>1. CASE Refuse
  <2>1. UNCHANGED <<configured, request, checked, verifyKey>> /\ ~Verified(task)
        /\ checked # NotRunning /\ pc # "none"
    BY <1>1 DEF Refuse, At, keyVars, agentVars
  <2>2. PICK config \in {SignedConfig, SentConfig} :
          task = [script |-> request.script, config |-> config,
                  signature |-> <<KeyOf(request.boot), <<request.script, SignedConfig>>>>]
    BY <2>1 DEF TaskInv
  <2>3. verifyKey = KeyOf(checked)
    BY <2>1 DEF StateInv, KeyInv, Verified
  <2>4. CASE config = SignedConfig
    <3>1. SigningMessage(task) = <<request.script, SignedConfig>>
          /\ task.signature = <<KeyOf(request.boot), <<request.script, SignedConfig>>>>
      BY <2>2, <2>4 DEF SigningMessage
    <3>2. KeyOf(request.boot) # KeyOf(checked)
      BY <2>1, <2>3, <3>1 DEF Verified
    <3> QED BY <2>1, <3>2 DEF KeyOf
  <2>5. CASE config # SignedConfig
    <3>1. SignedConfig.map = Empty /\ SignedConfig # NoConfig
      BY <2>2, <2>5 DEF SentConfig
    <3>2. request.config.map = Empty /\ ~request.config.nil
      BY <2>1, <3>1, DecodedRequest DEF RequestInv, SignedConfig, NoConfig
    <3>3. /\ request.config = [nil |-> request.config.nil, map |-> request.config.map]
          /\ request.config.nil \in BOOLEAN
      BY <2>1, DecodedRequest DEF RequestInv
    <3> QED BY <2>1, <3>2, <3>3
  <2> QED BY <2>4, <2>5
<1>2. ASSUME UNCHANGED <<configured, request, checked, result>>
      PROVE  \/ request'.config = [nil |-> FALSE, map |-> Empty]
             \/ ~configured' /\ request'.boot # checked'
  BY <1>2 DEF RefusedForCause
<1>3. ASSUME result = NoResult, UNCHANGED result PROVE FALSE
  BY <1>3 DEF NoResult, NoError
<1>4. ASSUME NEW name \in Names, NEW config, Create(name, config) PROVE FALSE
  BY <1>3, <1>4 DEF StateInv, HandInv, Create, runVars
<1>5. CASE ServerRestarts
  BY <1>2, <1>5 DEF ServerRestarts, agentVars, runVars
<1>6. CASE AgentStarts
  BY <1>3, <1>6 DEF StateInv, HandInv, AgentStarts, runVars
<1>7. CASE AgentStops \/ Report
  BY <1>7 DEF AgentStops, Report, NoResult, NoError
<1>8. CASE InstallKey \/ Receive
  BY <1>2, <1>8 DEF InstallKey, Receive, At, keyVars, agentVars, runVars
<1>9. CASE CheckName \/ Stat \/ Prepare
  BY <1>2, <1>9 DEF CheckName, Stat, Prepare, At, Fail, keyVars, agentVars
<1>10. ASSUME NEW exit, Execute(exit) PROVE FALSE
  BY <1>10 DEF Execute, Finish, Fail, NoError
<1>11. ASSUME NEW f \in Files, NEW mode \in Modes, EditScript(f, mode)
       PROVE UNCHANGED <<configured, request, checked, result>>
  BY <1>11 DEF EditScript, Edit, keyVars, agentVars, runVars
<1>12. ASSUME NEW f \in Files, NEW text \in Texts, EditUserFile(f, text)
       PROVE UNCHANGED <<configured, request, checked, result>>
  BY <1>12 DEF EditUserFile, Edit, keyVars, agentVars, runVars
<1>13. CASE UNCHANGED vars
  BY <1>2, <1>13 DEF vars, keyVars, agentVars, runVars
<1> QED BY <1>1, <1>2, <1>4, <1>5, <1>6, <1>7, <1>8, <1>9, <1>10, <1>11, <1>12, <1>13 DEF Next

(* A refusal has one of two causes: the config {} that JSON turns into      *)
(* null, or a key that the server made up anew since.                       *)
THEOREM RefusedCorrect == Spec => []RefusedForCause
<1>1. Spec => [](StateInv /\ RequestInv /\ TaskInv /\ RefusedForCause)
  BY StateInit, StateNext, TaskInit, TaskNext, RefusedInit, RefusedNext, PTL DEF Spec
<1> QED BY <1>1, PTL

-----------------------------------------------------------------------------
(* What a script is run with. *)

LEMMA RunInit == Init => EnvInv /\ UserInv
BY NotStarted DEF Init, EnvInv, UserInv

LEMMA RunNext ==
    StateInv /\ RequestInv /\ TaskInv /\ EnvInv /\ UserInv /\ [Next]_vars
        => EnvInv' /\ UserInv'
<1> SUFFICES ASSUME StateInv, RequestInv, TaskInv, EnvInv, UserInv, [Next]_vars PROVE EnvInv' /\ UserInv'
  OBVIOUS
<1> USE DEF EnvInv, UserInv
<1>1. ASSUME UNCHANGED <<task, environ, env, runAs, ran, userFiles>>, pc' = pc,
             shown' = shown
      PROVE  EnvInv' /\ UserInv'
  BY <1>1 DEF Started, UserText, BuildEnv
<1>2. ASSUME pc' \in {"none", "stored"}, ran' = NoRun PROVE EnvInv' /\ UserInv'
  BY <1>2 DEF Started, NoRun
<1>3. ASSUME NEW name \in Names, NEW config, Create(name, config) PROVE EnvInv' /\ UserInv'
  BY <1>2, <1>3 DEF StateInv, HandInv, Create, runVars
<1>4. CASE ServerRestarts
  <2>1. CASE pc = "stored"
    BY <1>2, <1>4, <2>1 DEF StateInv, HandInv, ServerRestarts, runVars
  <2>2. CASE pc # "stored"
    BY <1>1, <1>4, <2>2 DEF ServerRestarts, agentVars, dirVars, runVars
  <2> QED BY <2>1, <2>2
<1>5. CASE AgentStarts \/ InstallKey
  <2>1. pc' \in {"none", "stored"} /\ ran' = NoRun
    BY <1>5 DEF AgentStarts, InstallKey, StateInv, HandInv, runVars
  <2> QED BY <1>2, <2>1
<1>6. CASE AgentStops \/ Report
  BY <1>2, <1>6 DEF AgentStops, Report, At, StateInv, HandInv
<1>7. CASE Receive
  <2>1. /\ pc' = "received" /\ ran' = NoRun /\ userFiles' = userFiles
        /\ shown' = {UserText(PathOf(task.script))}
    BY <1>7 DEF StateInv, HandInv, Receive, At, dirVars, runVars
  <2>2. task.script = request.script
    BY <1>7 DEF TaskInv, Receive, At
  <2>3. task'.script = request.script
    BY <1>7, <2>1, TaskNext DEF TaskInv, Receive, At
  <2>4. PathOf(task.script)' = PathOf(task.script)
    BY <2>2, <2>3
  <2>5. ~Started'
    BY <2>1 DEF Started, NoRun
  <2> QED BY <2>1, <2>4, <2>5 DEF UserText
<1>8. CASE Refuse \/ CheckName \/ Stat
  <2>1. /\ UNCHANGED <<task, environ, env, runAs, ran, userFiles, shown>>
        /\ pc \in {"received", "verified"} /\ pc' # "ready"
    BY <1>8 DEF Refuse, CheckName, Stat, At, agentVars, dirVars
  <2> QED BY <2>1 DEF Started, UserText, BuildEnv
<1>9. CASE Prepare
  <2>1. /\ UNCHANGED <<task, environ, ran, userFiles, shown>> /\ pc = "found" /\ pc' = "ready"
        /\ env' \in BuildEnv(task.config)
        /\ runAs' = ReadRunAsUser(UserText(PathOf(task.script)))
    BY <1>9 DEF Prepare, At, agentVars, dirVars, Environments, UserFileOf
  <2> QED BY <2>1 DEF Started, UserText, BuildEnv
<1>10. ASSUME NEW exit, Execute(exit) PROVE EnvInv' /\ UserInv'
  <2>1. /\ UNCHANGED <<task, environ, userFiles, shown>> /\ pc = "ready" /\ pc' = "done"
        /\ ran'.env = env /\ ran'.user = runAs
    BY <1>10 DEF Execute, At, agentVars, dirVars
  <2> QED BY <2>1 DEF UserText, BuildEnv
<1>11. ASSUME NEW f \in Files, NEW mode \in Modes, EditScript(f, mode)
       PROVE EnvInv' /\ UserInv'
  <2>1. UNCHANGED <<task, environ, env, runAs, ran, userFiles, shown, pc>>
    BY <1>11 DEF EditScript, Edit, agentVars, runVars
  <2> QED BY <2>1 DEF Started, UserText, BuildEnv
<1>12. ASSUME NEW f \in Files, NEW text \in Texts, EditUserFile(f, text)
       PROVE EnvInv' /\ UserInv'
  <2>1. /\ UNCHANGED <<task, environ, env, runAs, ran, pc>> /\ shown \subseteq shown'
        /\ userFiles' = [userFiles EXCEPT ![f] = text]
        /\ pc \notin {"none", "stored"} /\ PathOf(task.script) = f => text \in shown'
    BY <1>12 DEF EditUserFile, Edit, agentVars, runVars
  <2>2. pc \notin {"none", "stored"} => UserText(PathOf(task.script))' \in shown'
    BY <2>1 DEF StateInv, BasicTypes, UserText
  <2> QED BY <2>1, <2>2 DEF Started, BuildEnv
<1>13. CASE UNCHANGED vars
  BY <1>1, <1>13 DEF vars, agentVars, dirVars, runVars
<1> QED BY <1>3, <1>4, <1>5, <1>6, <1>7, <1>8, <1>9, <1>10, <1>11, <1>12, <1>13 DEF Next

(* What a script was given: the task's variables over those of the agent.   *)
LEMMA BuiltEnv ==
    ASSUME NEW e, NEW config, e \in BuildEnv(config)
    PROVE  LET keys == {k \in DOMAIN config.map : config.map[k] \in Scalars}
               names == {Upper[k] : k \in keys}
           IN /\ e.config = IF config.map = Empty THEN environ.config ELSE config
              /\ DOMAIN e.scalars = names \cup DOMAIN environ.scalars
              /\ \A n \in names : \E k \in keys : Upper[k] = n /\ e.scalars[n] = config.map[k]
              /\ \A n \in DOMAIN environ.scalars \ names : e.scalars[n] = environ.scalars[n]
<1> DEFINE keys == {k \in DOMAIN config.map : config.map[k] \in Scalars}
           names == {Upper[k] : k \in keys}
<1>1. PICK own \in TaskScalars(config.map) :
        e = [config |-> IF config.map = Empty THEN environ.config ELSE config,
             scalars |-> Overriding(own, environ.scalars)]
  BY DEF BuildEnv
<1>2. PICK f \in [names -> keys] :
        /\ \A n \in names : Upper[f[n]] = n
        /\ own = [n \in names |-> config.map[f[n]]]
  BY <1>1 DEF TaskScalars
<1>3. /\ e.config = IF config.map = Empty THEN environ.config ELSE config
      /\ e.scalars = Overriding(own, environ.scalars)
  BY <1>1
<1>4. /\ DOMAIN own = names
      /\ \A n \in names : f[n] \in keys /\ Upper[f[n]] = n /\ own[n] = config.map[f[n]]
  <2> HIDE DEF names, keys
  <2> QED BY <1>2
<1>5. Overriding(own, environ.scalars) =
        [n \in DOMAIN own \cup DOMAIN environ.scalars |->
            IF n \in DOMAIN own THEN own[n] ELSE environ.scalars[n]]
  BY DEF Overriding
<1> HIDE DEF names, keys
<1>6. /\ DOMAIN e.scalars = names \cup DOMAIN environ.scalars
      /\ \A n \in names : e.scalars[n] = config.map[f[n]]
      /\ \A n \in DOMAIN environ.scalars \ names : e.scalars[n] = environ.scalars[n]
  BY <1>3, <1>4, <1>5
<1>7. \A n \in names : \E k \in keys : Upper[k] = n /\ e.scalars[n] = config.map[k]
  BY <1>4, <1>6
<1> QED BY <1>3, <1>6, <1>7 DEF names, keys

(* Whatever happens to the server, to other tasks and to the directory, a   *)
(* script sees the scalars of its own task's config and, under every other  *)
(* name, exactly what the process of the agent was started with.            *)
THEOREM EnvironmentCorrect == Spec => []EnvironmentOfTask
<1>1. StateInv /\ RequestInv /\ TaskInv /\ EnvInv => EnvironmentOfTask
  <2> SUFFICES ASSUME StateInv, RequestInv, TaskInv, EnvInv, Started
               PROVE  EnvironmentOfTask
    BY DEF EnvironmentOfTask
  <2>1. pc # "none"
    BY NotStarted DEF StateInv, HandInv
  <2>2. task.config.map = DecodedConfig(request.config.map)
    BY <2>1, SentTwice DEF TaskInv, SignedConfig
  <2>3. ran.env \in BuildEnv(task.config)
    BY DEF EnvInv
  <2>4. LET keys == {k \in DOMAIN task.config.map : task.config.map[k] \in Scalars}
            names == {Upper[k] : k \in keys}
        IN /\ DOMAIN ran.env.scalars = names \cup DOMAIN environ.scalars
           /\ \A n \in names :
                \E k \in keys : Upper[k] = n /\ ran.env.scalars[n] = task.config.map[k]
           /\ \A n \in DOMAIN environ.scalars \ names :
                ran.env.scalars[n] = environ.scalars[n]
    BY <2>3, BuiltEnv
  <2> QED BY <2>2, <2>4 DEF EnvironmentOfTask
<1>2. Spec => [](StateInv /\ RequestInv /\ TaskInv /\ EnvInv /\ UserInv)
  BY StateInit, StateNext, TaskInit, TaskNext, RunInit, RunNext, PTL DEF Spec
<1> QED BY <1>1, <1>2, PTL

(* An edit of the .user file while the task is on its way is seen or not,   *)
(* but no script runs as a user that the file did not name meanwhile.       *)
THEOREM UserCorrect == Spec => []RunsAsNamedUser
<1>1. UserInv => RunsAsNamedUser
  BY DEF UserInv, RunsAsNamedUser
<1>2. Spec => [](StateInv /\ RequestInv /\ TaskInv /\ EnvInv /\ UserInv)
  BY StateInit, StateNext, TaskInit, TaskNext, RunInit, RunNext, PTL DEF Spec
<1> QED BY <1>1, <1>2, PTL

(* A task is reported as completed if and only if its script ended well.    *)
THEOREM ResultCorrect == Spec => []ResultTruthful
<1>1. Init => ResultTruthful
  BY DEF Init, ResultTruthful
<1>2. StateInv /\ ResultTruthful /\ [Next]_vars => ResultTruthful'
  <2> SUFFICES ASSUME StateInv, ResultTruthful, [Next]_vars, pc' = "done"
               PROVE  result'.status = "completed" <=> ran'.exit = "success"
    BY DEF ResultTruthful
  <2>1. CASE pc = "done" /\ UNCHANGED <<result, ran>>
    BY <2>1 DEF ResultTruthful
  <2>2. CASE Refuse \/ CheckName \/ Stat
    <3>1. result'.status = "failed" /\ ran' = ran /\ pc # "done"
      BY <2>2 DEF Refuse, CheckName, Stat, At, Fail
    <3> QED BY <3>1 DEF StateInv, HandInv, NoRun
  <2>3. ASSUME NEW exit, Execute(exit)
        PROVE  result'.status = "completed" <=> ran'.exit = "success"
    BY <2>3 DEF Execute, Finish, Fail
  <2> QED BY <2>1, <2>2, <2>3
          DEF Next, Create, ServerRestarts, AgentStarts, AgentStops, InstallKey, Receive,
              Prepare, Report, At, EditScript, EditUserFile, Edit, runVars, vars
<1>3. Spec => [](StateInv /\ ResultTruthful)
  BY <1>1, <1>2, StateInit, StateNext, PTL DEF Spec
<1> QED BY <1>3, PTL

-----------------------------------------------------------------------------
(* Names and paths. *)

LEMMA LeastNatural ==
    ASSUME NEW T \in SUBSET Nat, T # {}
    PROVE  \E m \in T : \A n \in T : m <= n
<1> DEFINE R == OpToRel(<, Nat)
<1>1. \E x \in T : \A y \in T : ~ (<<y, x>> \in R)
  BY NatLessThanWellFounded, WFMin
<1>2. \A x, y \in Nat : <<y, x>> \in R <=> y < x
  BY DEF OpToRel
<1> HIDE DEF R
<1>3. PICK m \in T : \A n \in T : ~ (<<n, m>> \in R)
  BY <1>1
<1>4. ASSUME NEW n \in T PROVE m <= n
  <2>1. m \in Nat /\ n \in Nat
    OBVIOUS
  <2>2. ~ (n < m)
    BY <1>2, <1>3, <2>1
  <2> QED BY <2>1, <2>2
<1> QED BY <1>4

(* Clean has nothing to do on words. The function that it defines exists,   *)
(* since the prefixes of the path are one, and has no other values, since   *)
(* there would be a first that differs.                                     *)
LEMMA CleanWords == ASSUME NEW path \in Seq(Words) PROVE Clean(path) = path
<1> DEFINE step(p, s) == CASE s \in {"", "."} -> p
                           [] s = ".." /\ p # <<>> /\ Last(p) # ".." -> Front(p)
                           [] OTHER -> Append(p, s)
           body(g) == [n \in 0..Len(path) |->
                         IF n = 0 THEN <<>> ELSE step(g[n - 1], path[n])]
           cleaned == CHOOSE g : g = body(g)
           prefix == [n \in 0..Len(path) |-> SubSeq(path, 1, n)]
<1>1. Clean(path) = cleaned[Len(path)]
  BY Zenon DEF Clean
<1>2. prefix = body(prefix)
  <2> SUFFICES ASSUME NEW n \in 0..Len(path)
               PROVE  prefix[n] = IF n = 0 THEN <<>> ELSE step(prefix[n - 1], path[n])
    OBVIOUS
  <2>1. CASE n = 0
    BY <2>1
  <2>2. CASE n # 0
    <3>1. n - 1 \in 0..Len(path) /\ n \in 1..Len(path) /\ path[n] \in Words
      BY <2>2
    <3>2. step(prefix[n - 1], path[n]) = Append(prefix[n - 1], path[n])
      BY <3>1, ExecutionAssumption DEF ExecutionAssumption
    <3>3. SubSeq(path, 1, n) = Append(SubSeq(path, 1, n - 1), path[n])
      BY <3>1
    <3> QED BY <2>2, <3>1, <3>2, <3>3
  <2> QED BY <2>1, <2>2
<1>3. cleaned = body(cleaned)
  <2> HIDE DEF body, prefix
  <2> QED BY <1>2, Zenon
<1>4. \A n \in 0..Len(path) : cleaned[n] = prefix[n]
  <2> HIDE DEF cleaned, prefix
  <2> SUFFICES ASSUME NEW k \in 0..Len(path), cleaned[k] # prefix[k] PROVE FALSE
    OBVIOUS
  <2> DEFINE T == {n \in 0..Len(path) : cleaned[n] # prefix[n]}
  <2>1. T \in SUBSET Nat /\ k \in T
    OBVIOUS
  <2>2. PICK m \in T : \A n \in T : m <= n
    <3> HIDE DEF T
    <3> QED BY <2>1, LeastNatural
  <2>3. \A n \in 0..Len(path) :
            /\ cleaned[n] = IF n = 0 THEN <<>> ELSE step(cleaned[n - 1], path[n])
            /\ prefix[n] = IF n = 0 THEN <<>> ELSE step(prefix[n - 1], path[n])
    BY <1>2, <1>3
  <2> HIDE DEF step
  <2>4. m # 0
    BY <2>2, <2>3
  <2>5. m - 1 \in 0..Len(path) /\ m - 1 \notin T
    BY <2>2, <2>4
  <2> QED BY <2>2, <2>3, <2>4, <2>5
<1>5. prefix[Len(path)] = path /\ Len(path) \in 0..Len(path)
  OBVIOUS
<1> HIDE DEF cleaned, prefix
<1> QED BY <1>1, <1>4, <1>5

LEMMA PathOfValid ==
    ASSUME NEW name \in Names, ValidScript(name) PROVE PathOf(name) = name
<1>1. name \in Seq(STRING) /\ name # <<>> /\ Range(name) \subseteq Words
  BY ExecutionAssumption DEF ExecutionAssumption, ValidScript, IsValidScriptName
<1>2. name \in Seq(Words) /\ Len(name) \in Nat \ {0}
  <2>1. \A i \in 1..Len(name) : name[i] \in Words
    BY <1>1 DEF Range
  <2> QED BY <1>1, <2>1
<1>3. Front(name) \in Seq(Words)
  BY <1>2 DEF Front
<1>4. Clean(Front(name)) = Front(name)
  BY <1>3, CleanWords
<1>5. Append(Front(name), Last(name)) = name
  BY <1>2 DEF Front, Last
<1> QED BY <1>4, <1>5 DEF PathOf

LEMMA FileInit == Init => FileInv
BY NotStarted DEF Init, FileInv

LEMMA FileNext == StateInv /\ FileInv /\ [Next]_vars => FileInv'
<1> SUFFICES ASSUME StateInv, FileInv, [Next]_vars PROVE FileInv'
  OBVIOUS
<1> USE DEF FileInv
<1>1. ASSUME UNCHANGED <<task, ran>>, pc' = pc PROVE FileInv'
  BY <1>1 DEF Started
<1>2. ASSUME pc' \in {"none", "stored", "received"}, ran' = NoRun PROVE FileInv'
  BY <1>2 DEF Started, NoRun
<1>3. ASSUME NEW name \in Names, NEW config, Create(name, config) PROVE FileInv'
  BY <1>2, <1>3 DEF StateInv, HandInv, Create, runVars
<1>4. CASE ServerRestarts
  BY <1>1, <1>2, <1>4 DEF StateInv, HandInv, ServerRestarts, runVars
<1>5. CASE AgentStarts \/ InstallKey
  BY <1>1, <1>5 DEF AgentStarts, InstallKey, runVars
<1>6. CASE AgentStops
  BY <1>2, <1>6 DEF AgentStops
<1>7. CASE Receive
  BY <1>2, <1>7 DEF StateInv, HandInv, Receive, At, runVars
<1>8. CASE Refuse
  BY <1>8 DEF StateInv, HandInv, Refuse, At, Started, NoRun
<1>9. CASE CheckName
  BY <1>9 DEF StateInv, HandInv, CheckName, At, Started, NoRun
<1>10. CASE Stat \/ Prepare
  BY <1>10 DEF StateInv, HandInv, Stat, Prepare, At, Started, NoRun
<1>11. ASSUME NEW exit, Execute(exit) PROVE FileInv'
  BY <1>11 DEF Execute, At, Started
<1>12. CASE Report
  BY <1>2, <1>12 DEF Report, At
<1>13. ASSUME NEW f \in Files, NEW mode \in Modes, EditScript(f, mode) PROVE FileInv'
  BY <1>1, <1>13 DEF EditScript, Edit, runVars
<1>14. ASSUME NEW f \in Files, NEW text \in Texts, EditUserFile(f, text) PROVE FileInv'
  BY <1>1, <1>14 DEF EditUserFile, Edit, runVars
<1>15. CASE UNCHANGED vars
  BY <1>1, <1>15 DEF vars, runVars
<1> QED BY <1>3, <1>4, <1>5, <1>6, <1>7, <1>8, <1>9, <1>10, <1>11, <1>12, <1>13, <1>14, <1>15
        DEF Next

(* What runs is the script whose path is the requested name as it was       *)
(* written, with the whole config, through the data file and the frame.     *)
THEOREM RequestedCorrect == Spec => []RunsWhatWasRequested
<1>1. StateInv /\ RequestInv /\ TaskInv /\ EnvInv /\ FileInv => RunsWhatWasRequested
  <2> SUFFICES ASSUME StateInv, RequestInv, TaskInv, EnvInv, FileInv, Started
               PROVE  RunsWhatWasRequested
    BY DEF RunsWhatWasRequested
  <2>1. pc # "none"
    BY NotStarted DEF StateInv, HandInv
  <2>2. task.script = request.script /\ task.config.map = DecodedConfig(request.config.map)
    BY <2>1, SentTwice DEF TaskInv, SignedConfig
  <2>3. ran.file = request.script
    BY <2>1, <2>2, PathOfValid DEF FileInv, RequestInv
  <2>4. ran.env \in BuildEnv(task.config)
    BY DEF EnvInv
  <2>5. ran.env.config = IF task.config.map = Empty THEN environ.config ELSE task.config
    BY <2>4, BuiltEnv
  <2> QED BY <2>2, <2>3, <2>5 DEF RunsWhatWasRequested
<1>2. Spec => [](StateInv /\ RequestInv /\ TaskInv /\ EnvInv /\ UserInv /\ FileInv)
  BY StateInit, StateNext, TaskInit, TaskNext, RunInit, RunNext, FileInit, FileNext, PTL DEF Spec
<1> QED BY <1>1, <1>2, PTL
=============================================================================
