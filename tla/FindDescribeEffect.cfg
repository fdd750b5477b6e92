CONSTANTS
  Texts = {"select", "insert", "selectInsert"}
  NoText = NoText
  Pieces <- MCPieces
  Portals = {p1}
  NoPortal = NoPortal
  Formats = {text}
  NoFormat = NoFormat
  MaxCachedPortals = 1
  CancelRequests = {}
  MaxQueries = 2
SPECIFICATION Spec
INVARIANT DescribeStatementHasNoEffect
CHECK_DEADLOCK FALSE
