CONSTANTS
  PieceNum = 3
  PieceLen = 2
  LastLen = 1
  a1 = a1
  a2 = a2
  Api <- NoApi
  Seeks = {0, 1}
  MaxFaults = 2
  MaxDeletes = 0
SPECIFICATION FairSpec
PROPERTIES RunningFinishes Implements 
