SPECIFICATION Spec
CONSTANTS
  Manager = {root}
  Root = root
  Goroutine = {g1, g2}
  Call <- LoopCalls
  Payload <- LoopPayload
  Key = {"a", "b"}
  EmptyKey = ""
  Collection = {{}}
  Type = {"boolean", "future"}
  UnknownType = {"future"}
  Backend = "null"
  MaxVersion = 2
INVARIANTS RefreshForcesFetch
SYMMETRY Symmetric
