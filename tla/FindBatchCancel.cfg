CONSTANTS
  Texts = {"batch"}
  NoText = NoText
  Pieces <- MCPieces
  Portals = {}
  NoPortal = NoPortal
  Formats = {text}
  NoFormat = NoFormat
  MaxCachedPortals = 1
  CancelRequests = {}
  MaxQueries = 2
SPECIFICATION Spec
INVARIANT CancelTargetsLatest
CHECK_DEADLOCK FALSE
