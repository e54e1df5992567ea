SPECIFICATION TokenSpec
CONSTANTS
  Base = 6
  Texts <- MCTexts
  Rows <- MCRows
  Bodies <- MCBodies
  Caps = {0, 1, 2}
  Secret = "secret"
  FindAllString <- MCFind
  ToLower <- MCToLower
  CredBlock <- MCCredBlock
  Null = Null
  Nothing = Nothing
  Nil = Nil
  Slack = 1
INVARIANTS TypeOK SameText Decodes RowValues KeepsLongest Correlates
