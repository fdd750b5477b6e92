CONSTANTS
  Texts = {"select", "version", "pgclass"}
  NoText = NoText
  Pieces <- MCPieces
  Portals = {p1, p2, p3}
  NoPortal = NoPortal
  Formats = {text}
  NoFormat = NoFormat
  MaxCachedPortals = 2
  CancelRequests = {}
  MaxQueries = 2
SYMMETRY Symmetry
SPECIFICATION Spec
INVARIANTS CacheBounded ServesBoundText
CHECK_DEADLOCK FALSE
