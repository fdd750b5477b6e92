CONSTANTS
  Texts = {"select"}
  NoText = NoText
  Pieces <- MCPieces
  Portals = {p1}
  NoPortal = NoPortal
  Formats = {text, binary}
  NoFormat = NoFormat
  MaxCachedPortals = 1
  CancelRequests = {}
  MaxQueries = 2
SPECIFICATION Spec
INVARIANT FormatHonoured
CHECK_DEADLOCK FALSE
