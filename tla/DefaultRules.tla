---------------------------- MODULE DefaultRules ----------------------------
(***************************************************************************)
(* The rule lists the agents start with (src/engine/rules.go,              *)
(* postgres_rules.go, mongodb_rules.go), in their order.  A rule carries   *)
(* its own name as its pattern: what the regular expressions accept is a   *)
(* parameter for SQL, and spelled out for the labelled texts of MongoDB.   *)
(***************************************************************************)
EXTENDS Sequences

RulesOf(action, names) ==
  [k \in DOMAIN names |-> [name |-> names[k], action |-> action, pattern |-> names[k],
                           users |-> {}, databases |-> {}]]

MySQLBlocked ==
  <<"sqli-or-always-true", "sqli-union-select", "sqli-stacked-queries", "sqli-time-based",
    "exfil-file-ops", "ddl-drop", "ddl-truncate", "privesc-grant", "privesc-user-mgmt">>
MySQLAlerted == <<"recon-information-schema", "recon-mysql-user">>

DefaultRules == RulesOf("block", MySQLBlocked) \o RulesOf("alert", MySQLAlerted)

PostgresBlocked ==
  <<"sqli-or-always-true", "sqli-union-select", "sqli-stacked-queries", "sqli-time-based-pg",
    "exfil-pg-file-read", "exfil-copy-file", "exfil-large-object", "rce-server-program",
    "ddl-drop", "ddl-truncate", "privesc-grant", "privesc-role-mgmt">>
PostgresAlerted == <<"recon-information-schema", "recon-pg-catalog", "recon-pg-shadow">>

(* Faulty variant: reconnaissance is looked for first.                     *)
DefaultPostgresRulesAlertFirst ==
  RulesOf("alert", PostgresAlerted) \o RulesOf("block", PostgresBlocked)

DefaultPostgresRules == RulesOf("block", PostgresBlocked) \o RulesOf("alert", PostgresAlerted)

MongoBlocked ==
  <<"nosqli-where-js", "nosqli-function-js", "ddl-drop-collection", "ddl-drop-database",
    "mass-operation-no-filter", "privesc-user-mgmt", "privesc-grant-roles">>
MongoAlerted == <<"recon-list-databases", "recon-list-collections", "mapreduce-js">>

DefaultMongoDBRules == RulesOf("block", MongoBlocked) \o RulesOf("alert", MongoAlerted)

(* The label a MongoDB expression looks for, and the names after it.  Only *)
(* the CMD expressions are anchored, to the start of the flat text and the *)
(* end of a word; HAS:\$where and EMPTY_FILTER are found anywhere in it.   *)
(* What the model assumes of the names in a text: they are words in one    *)
(* letter case, and none holds a label.                                    *)
MongoPattern(rule) ==
  CASE rule = "nosqli-where-js" -> <<"HAS", {"$where"}>>
    [] rule = "nosqli-function-js" -> <<"HAS", {"$function", "$accumulator"}>>
    [] rule = "ddl-drop-collection" -> <<"CMD", {"drop"}>>
    [] rule = "ddl-drop-database" -> <<"CMD", {"dropDatabase"}>>
    [] rule = "mass-operation-no-filter" -> <<"EMPTY_FILTER", {""}>>
    [] rule = "privesc-user-mgmt" -> <<"CMD", {"createUser", "dropUser", "updateUser"}>>
    [] rule = "privesc-grant-roles" -> <<"CMD", {"grantRolesToUser", "revokeRolesFromUser"}>>
    [] rule = "recon-list-databases" -> <<"CMD", {"listDatabases"}>>
    [] rule = "recon-list-collections" -> <<"CMD", {"listCollections"}>>
    [] rule = "mapreduce-js" -> <<"CMD", {"mapReduce"}>>
=============================================================================
