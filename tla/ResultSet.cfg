CONSTANTS
  MaxRows = 5
  PageSize = 2
  HashSpace = 16777216
  OidMax = 8388607
  Public <- MCPublic
  Int2Max = 3
  Int4Max = 7
  Int8Max = 31
  F32Bits = 2
  F64Bits = 3
  MaxExp = 6
  DecimalMax = 99
  MaxScale = 2
  ExponentFrom = 8
  Nano = 2
  Micro = 4
  Second = 8
  Zones <- MCZones
  MaxClientErrorLen = 6
  Bytes <- MCBytes
  Scenarios <- MCScenarios
SPECIFICATION ResultSetSpec
INVARIANTS TypeOK SlotFollowsQuery OnePageBuffered NeverMisread FailsOnlyByPolicy TypesLoadable CatalogDescribesResult ErrorClean ErrorClassified
PROPERTIES DeliversResult PolledStreamEnds
CHECK_DEADLOCK FALSE
