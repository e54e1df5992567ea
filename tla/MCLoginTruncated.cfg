SPECIFICATION InspectSpec
CONSTANTS
  Base = 8
  MongoBase = 64
  Bit <- MCBit
  Name <- MCName
  Words <- MCWords
  Logins <- MCLogins
  OddLengths <- MCOddLengths
  SqlTexts <- MCSqlTexts
  Messages <- MCMessages
  Garbage = {0, 63}
  ErrorText <- MCErrorText
  Nothing = Nothing
  Panic = Panic
  NilRegexp = NilRegexp
INVARIANT TruncatedRefused
