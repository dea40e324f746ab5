SPECIFICATION ConnectionSpec
CONSTANTS
  Byte = {0, 1, 2, 3}
  Base = 4
  Cookie = 3
  MaxPayload = 2
  MaxFed = 6
  Ops = {"accept", "connect", "send", "recv", "close", "close_server"}
  Results <- MCResults
  Type <- MCType
  Values <- MCValues
  RawPieces <- MCRawPieces
  PoolSize = 2
  BufSize = 4
  None = None
INVARIANTS PiecesDoNotMatter NothingHeldBack BytesInOrder DecodedAreSent
