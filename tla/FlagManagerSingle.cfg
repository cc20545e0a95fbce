SPECIFICATION FairSpec
CONSTANTS
  Manager = {root, m1}
  Root = root
  Goroutine = {g1}
  Call <- EveryCall
  Payload <- MCPayload
  Key = {"a", "b"}
  EmptyKey = "b"
  Collection = {{}, {"b"}, {"a", "b"}}
  Type = {"boolean", "future"}
  UnknownType = {"future"}
  Backend = "filesystem"
  MaxVersion = 2
INVARIANTS TypeOK SingleDegrades UsageMatchesAnswer
PROPERTIES CallsReturn ImplementsService
