CONSTANTS
  PieceNum = 3
  Max = 1
  a1 = a1
  Api <- NoApi
  MaxPauses = 0
  MaxFaults = 1
  MaxBusy = 0
SPECIFICATION FairSpec
CHECK_DEADLOCK FALSE
INVARIANT MarkLimit
PROPERTY FinishesUnlessStale
