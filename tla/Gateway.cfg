CONSTANTS
  Sessions = {s1, s2}
  NoSession = NoSession
  PidSpace = 1
  Secrets = {x, y}
  Requests = {r1}
  MaxQueries = 1
  MaxConnections = 2
  Workers = 1
SPECIFICATION GatewaySpec
INVARIANTS RegistryExact CancelHitsOwner RegisteredServed GracefulExit
PROPERTIES CancelHandled
CHECK_DEADLOCK FALSE
