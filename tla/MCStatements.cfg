SPECIFICATION Spec
CONSTANTS
  Sqls <- MCSqls
  Ids <- MCIds
  Nothing = Nothing
  MaxSends = 6
INVARIANTS TypeOK ChecksWhatRuns FollowsServer
