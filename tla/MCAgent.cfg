SPECIFICATION FairSpec
CONSTANTS
  Sql <- MCSql
  Names <- MCNames
  CaseFold <- MCCaseFold
  RuleNames <- MCRuleNames
  Patterns <- MCPatterns
  Accepts <- MCAccepts
  Actions <- MCActions
  Nil = Nil
  RawActions <- MCRawActions
  Lower <- MCLower
  BadPatterns <- MCBadPatterns
  NoPattern <- MCNoPattern
  Publications <- MCPublications
  Initial <- MCInitial
  Conns = {c1}
  Queries <- MCQueries
  Modes <- MCModes
  MaxSeq = 2
INVARIANTS TypeOK EnforcesIntent TruthfulEvents AtMostOnce
PROPERTY Settles
