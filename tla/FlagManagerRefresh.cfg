SPECIFICATION Spec
CONSTANTS
  Manager = {root, m1}
  Root = root
  Goroutine = {g1, g2}
  Call <- LoopCalls
  Payload <- LoopPayload
  Key = {"a", "b"}
  EmptyKey = ""
  Collection = {{}}
  Type = {"boolean", "future"}
  UnknownType = {"future"}
  Backend = "memory"
  MaxVersion = 2
INVARIANTS RefreshIsFresh LoadsOnlyWithoutRules AllIsOneSnapshot WarnOnce
PROPERTIES CallsAdvance ImplementsService
SYMMETRY Symmetric
