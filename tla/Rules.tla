------------------------------- MODULE Rules -------------------------------
(***************************************************************************)
(* Rules and decisions of the engine package (src/engine/engine.go): what  *)
(* it means for a rule to match a query, and the decision an ordered rule  *)
(* list gives it.  A regular expression is known by the set of texts it    *)
(* accepts; case-insensitive comparison is equality of the names' folds.   *)
(***************************************************************************)
EXTENDS Naturals, Sequences

CONSTANTS
  Sql,        \* query texts
  Names,      \* user and database names, in any letter case
  CaseFold,   \* [Names -> Names], the simple case folding of a name
  RuleNames,  \* rule names, "default-allow" not among the configured ones
  Patterns,   \* compiled regular expressions
  Accepts,    \* [Patterns -> SUBSET Sql], the texts MatchString accepts
  Actions,    \* the four actions, and any other text the console may send
  Nil         \* the nil *regexp.Regexp

ASSUME RulesAssumption ==
  /\ CaseFold \in [Names -> Names]
  /\ {"allow", "ignore", "alert", "block"} \subseteq Actions
  /\ Accepts \in [Patterns -> SUBSET Sql]
  /\ Nil \notin Patterns

(* A query as the engine sees it: the arguments sql, username, database.   *)
Query == [sql : Sql, user : Names, database : Names]

(* The struct Rule.  The slices Users and Databases are only searched, so  *)
(* they are sets.                                                          *)
Rule == [name : RuleNames, action : Actions, pattern : Patterns \cup {Nil},
         users : SUBSET Names, databases : SUBSET Names]

(* The struct Decision.                                                    *)
Decision == [action : Actions, rule : RuleNames \cup {"default-allow"}]

DefaultAllow == [action |-> "allow", rule |-> "default-allow"]

EqualFold(a, b) == CaseFold[a] = CaseFold[b]

(* A filter of names: an empty list lets everyone through.                 *)
Admits(filter, name) == filter = {} \/ \E n \in filter : EqualFold(n, name)

(* Rule.matches.                                                           *)
Matches(r, q) ==
  /\ Admits(r.users, q.user)
  /\ Admits(r.databases, q.database)
  /\ r.pattern = Nil \/ q.sql \in Accepts[r.pattern]

DecisionOf(r) == [action |-> r.action, rule |-> r.name]

(***************************************************************************)
(* The decision a rule list promises, without reference to the loop that   *)
(* computes it: that of the matching rule with the smallest index, or      *)
(* default-allow.                                                          *)
(***************************************************************************)
Matching(rs, q) == {k \in DOMAIN rs : Matches(rs[k], q)}

IsFirst(k, rs, q) == k \in Matching(rs, q) /\ \A j \in Matching(rs, q) : k <= j

FirstMatch(rs, q) ==
  IF Matching(rs, q) = {} THEN DefaultAllow
  ELSE DecisionOf(rs[CHOOSE k \in Matching(rs, q) : IsFirst(k, rs, q)])
=============================================================================
