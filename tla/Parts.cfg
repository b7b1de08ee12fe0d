SPECIFICATION PartsSpec
CONSTANTS
  Callers = {"c1", "c2"}
  FirstLimit = 2
  Limits = {0, 3}
  Sizes = {1, 4}
  Ticks = 2
  MaxTime = 4
  MaxLimit = 3
  Hosts <- MCHosts
  Patterns <- MCPatterns
  HostLimits = {0, 1, 2}
  DefaultLimit = 3
  Priority <- MCPriority
  Strategies = {"failover", "random", "fastest", "roundrobin"}
  Clients = {"c1", "c2"}
  MaxRetries = 3
  MaxDownloads = 2
  MaxLength = 4
  Parts = {"bucket", "hosts", "mirrors", "inputs"}
INVARIANTS
  TypesOK
  LimiterBounds
  ListIsTrue
  RotationIsComplete
  RobotsAsWritten
  LocalCopyHolds
  MetalinkAsWritten
  SumsAsWritten
  NetrcKeepsLogins
  RetriesAsConfigured
  NamesAsMade
PROPERTIES
  LimitsInForce
CHECK_DEADLOCK FALSE
