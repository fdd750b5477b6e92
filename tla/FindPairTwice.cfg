CONSTANTS
  Texts = {"insert"}
  NoText = NoText
  Pieces <- MCPieces
  Portals = {p1, p2}
  NoPortal = NoPortal
  Formats = {text}
  NoFormat = NoFormat
  MaxCachedPortals = 1
  CancelRequests = {}
  MaxQueries = 3
SPECIFICATION Spec
INVARIANT PairRunsOnce
CHECK_DEADLOCK FALSE
