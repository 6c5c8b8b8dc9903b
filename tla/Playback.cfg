SPECIFICATION FairSpec
CONSTANTS
  PieceNum = 2
  PieceSize = 1
  Size <- MCSize
  Other = 1
  MaxCache = 2
  MaxAhead = 0
  ByteBits = 8
  MaxEvents = 1
  MaxBusy = 1
INVARIANTS TypeOK SizeIsKept CacheLimit
PROPERTIES ServedUnlessAhead
CHECK_DEADLOCK FALSE
