SPECIFICATION WebSpec
CONSTANTS
  Trim <- MCTrim
  Lower <- MCLower
  TrimSlash <- MCTrimSlash
  Atoi <- MCAtoi
  ServerTokens <- MCServerTokens
  DefaultEndpoint = "us"
  Optional = {"logger"}
  Second = 8
  Hour = 100
  Half = 128
  Instance = {1, 2}
  Environments <- MCEnvironments
  Tokens <- MCTokens
  Durations <- MCDurations
  Backends <- MCBackends
  Directories <- MCDirectories
  Endpoints <- MCEndpoints
  CustomCaches <- MCCustomCaches
  MaxCalls = 3
  Handler = {h1, h2}
  Traffic <- MCTraffic
  MaxVersion = 2
INVARIANTS ForeignRulesAreShared LifetimeIsAsked AcceptedIsUsable RequestIsConsistent
  EditsStayInMemory NoCrossTalk
SYMMETRY HandlerSymmetry
CHECK_DEADLOCK FALSE
