SPECIFICATION ServedSpec
CONSTANTS
  User = {u1, anon}
  Anonymous = {anon}
  HashValue <- MCHash
  Percentage <- MCPercentage
  Text <- MCText
  Number = {0, 1, 8}
  Integer = {8, 9}
  Document = {"{}", "[]", "d1", "d2"}
  Format <- MCFormat
  Parse <- MCParse
  Float <- MCFloat
  EmptyText = ""
  Zero = 0
  One = 1
  EmptyDocument = "{}"
  FlagData <- MCFlagData
  Default <- MCDefault
INVARIANTS OutsideIsUntouched SharesAreExact CoercionTable GettersAnswer
PROPERTIES RaisingKeepsUsers
