SPECIFICATION Spec
CONSTANTS
  Client = {c1, c2}
  Process = {p1, p2}
  Value = {v1, v2}
  NoEntry = NoEntry
  Torn = Torn
  Deployment <- MCDeployment
  TTL <- MCTTL
  MaxTime = 3
INVARIANTS NeverFails SetSticks
PROPERTIES KeepsContract
SYMMETRY Symmetric
