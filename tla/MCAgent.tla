------------------------------ MODULE MCAgent ------------------------------
(***************************************************************************)
(* Small instance of Agent: two publications, the first with a disabled    *)
(* rule ahead of the one that decides and an action in capitals, the       *)
(* second with a pattern that does not compile.                            *)
(***************************************************************************)
EXTENDS Agent

MCSql == {"select", "drop"}
MCNames == {"app"}
MCCaseFold == [n \in MCNames |-> n]
MCRuleNames == {"ddl", "recon", "quiet", "mute"}
MCPatterns == {"reDrop", "reSelect"}
MCAccepts == [p \in MCPatterns |-> IF p = "reDrop" THEN {"drop"} ELSE {"select"}]
MCActions == {"allow", "ignore", "alert", "block"}
MCRawActions == {"ignore", "Alert", "BLOCK"}
MCLower == [a \in MCRawActions |-> CASE a = "ignore" -> "ignore"
                                     [] a = "Alert" -> "alert"
                                     [] a = "BLOCK" -> "block"]
MCBadPatterns == {"re("}
MCNoPattern == ""

A(n, a, p, on) == [name |-> n, action |-> a, pattern |-> p, enabled |-> on]

MCPublications ==
  << <<A("mute", "ignore", "", FALSE), A("ddl", "BLOCK", "reDrop", TRUE),
       A("recon", "Alert", "", TRUE)>>,
     <<A("quiet", "ignore", "re(", TRUE), A("ddl", "BLOCK", "reDrop", TRUE)>> >>

MCModes == {[type |-> "tap", monitor |-> TRUE], [type |-> "", monitor |-> FALSE]}
MCInitial == <<>>
MCQueries == {[sql |-> t, user |-> "app", database |-> "app"] : t \in MCSql}
=============================================================================
