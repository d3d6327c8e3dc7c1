SPECIFICATION MCSpec
CONSTANTS
  Junk <- NoByte
  HeaderLen = 2
  ReadBufSize = 3
  Kinds = {"ok", "short", "unknown", "body", "huge"}
  MaxPkts = 3
  h1 = h1
  h2 = h2
  HttpConns = {h1, h2}
  Scripts <- MCScripts
  Handlers <- HandlerUrls
  MaxPieces <- MCPieces
  ULLongMax = 15
  MaxHeaderSize = 36
  Dec = 3
  Hex = 4
CHECK_DEADLOCK FALSE
INVARIANTS
  HandledInOrder
  BufferInv
  RequestExact
  ActedOnce
  ParserAsserts
  RequestServed
PROPERTIES
  ClosingIsLast
  AllHandled
