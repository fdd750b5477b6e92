CONSTANTS
  Conns = {c1, c2, c3, c4}
  MaxConnections = 1
  Workers = 1
SPECIFICATION FairSpec
INVARIANTS TypeOK CapRespected TrackedBounded OneLateAccept DrainHonoured
PROPERTIES FinishedReaped ShutdownCompletes
CHECK_DEADLOCK FALSE
