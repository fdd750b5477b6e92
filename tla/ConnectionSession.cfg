CONSTANTS
  Texts = {"select", "insert", "batch", "begin"}
  NoText = NoText
  Pieces <- MCPieces
  Portals = {p1}
  NoPortal = NoPortal
  Formats = {text}
  NoFormat = NoFormat
  MaxCachedPortals = 1
  CancelRequests = {k1}
  MaxQueries = 2
SPECIFICATION FairSpec
INVARIANTS TypeOK SimpleQueryCancellable PairRunsOnce SlotOutlivesNoStream
PROPERTIES RowsStreamedOnce CancelTakesEffect
CHECK_DEADLOCK FALSE
