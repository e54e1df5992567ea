------------------------------ MODULE MCEngine ------------------------------
(***************************************************************************)
(* Small instance of Engine.  Two query texts by one user written in two   *)
(* letter cases, and three rule lists that overlap on purpose: the same    *)
(* query is blocked, alerted, ignored or allowed depending on the list, a  *)
(* list of another length makes a torn scan visible, and one rule applies  *)
(* to a named user and database only.                                      *)
(***************************************************************************)
EXTENDS Engine

MCSql == {"select", "drop"}
MCNames == {"app", "APP", "crm"}
MCCaseFold == [n \in MCNames |-> IF n = "APP" THEN "app" ELSE n]
MCRuleNames == {"ddl", "recon", "quiet", "appOnly"}
MCPatterns == {"reDrop", "reSelect"}
MCAccepts == [p \in MCPatterns |-> IF p = "reDrop" THEN {"drop"} ELSE {"select"}]
MCActions == {"allow", "ignore", "alert", "block"}

R(n, a, p, us, ds) ==
  [name |-> n, action |-> a, pattern |-> p, users |-> us, databases |-> ds]

Strict == <<R("ddl", "block", "reDrop", {}, {}), R("recon", "alert", Nil, {}, {})>>
Scoped == <<R("appOnly", "alert", "reDrop", {"app"}, {"crm"}),
            R("quiet", "ignore", "reDrop", {}, {}),
            R("ddl", "block", "reSelect", {"crm"}, {})>>

MCRuleSets == {<<>>, Strict, Scoped}
MCQueries == {[sql |-> "drop", user |-> "APP", database |-> "crm"],
              [sql |-> "drop", user |-> "crm", database |-> "app"]}
=============================================================================
