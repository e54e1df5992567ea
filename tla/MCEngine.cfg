SPECIFICATION Spec
CONSTANTS
  Sql <- MCSql
  Names <- MCNames
  CaseFold <- MCCaseFold
  RuleNames <- MCRuleNames
  Patterns <- MCPatterns
  Accepts <- MCAccepts
  Actions <- MCActions
  Nil = Nil
  Callers = {c1}
  Queries <- MCQueries
  RuleSets <- MCRuleSets
  Sinks = {s1}
  NoSink = NoSink
  MaxCalls = 2
  MaxInstalls = 3
INVARIANTS TypeOK FreshDecision EventFidelity
PROPERTY ServiceSpec
