CONSTANTS
  PieceNum = 3
  PieceLen = 2
  LastLen = 1
  a1 = a1
  a2 = a2
  Api <- ApiThreads
  Seeks = {0}
  MaxFaults = 1
  MaxDeletes = 1
SPECIFICATION Spec
SYMMETRY Symmetry
INVARIANTS TypeOK FinishedIsWritten FinalIsComplete RecordIsTrue CountIsExact
