---------------------------- MODULE MCExecution ----------------------------
(* An instance of Execution: two scripts, names with and without dots, keys *)
(* that differ in case, a number that a float64 does not hold, an agent's   *)
(* environment without and with variables that are also those of tasks.     *)
EXTENDS Execution

MCWords == {"deploy", "app", "www-data"}
MCNames == {<<"deploy">>, <<"app", "deploy">>, <<"app", "..", "deploy">>, <<"..", "deploy">>, <<"">>}
MCFiles == {<<"deploy">>, <<"app", "deploy">>}
MCUpper == [k \in {"port", "Port", "PORT", "tags", "TAGS"} |->
                IF k \in {"tags", "TAGS"} THEN "TAGS" ELSE "PORT"]
MCDecoded == [v \in {"on", "2^53", "2^53+1", "list"} |-> IF v = "2^53+1" THEN "2^53" ELSE v]
MCConfigs == {[k \in {} |-> "on"],
              [k \in {"port", "Port"} |-> IF k = "port" THEN "on" ELSE "2^53+1"],
              [k \in {"PORT", "tags"} |-> IF k = "tags" THEN "list" ELSE "2^53+1"]}
MCEnvirons == {NoRun.env,
               [config |-> [nil |-> FALSE, map |-> [k \in {"tags"} |-> "on"]],
                scalars |-> [n \in {"PORT", "TAGS"} |-> "2^53"]]}
=============================================================================
