SPECIFICATION Spec
CONSTANTS
  Client = {c1, c2}
  Value = {v1, v2}
  NoEntry = NoEntry
  Torn = Torn
  TTL <- MCTTL
  MaxTime = 3
PROPERTIES GetKeepsFresh
