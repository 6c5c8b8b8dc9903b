CONSTANTS
  PieceNum = 2
  Max = 1
  a1 = a1
  Api <- OneApi
  MaxPauses = 1
  MaxFaults = 0
  MaxBusy = 0
SPECIFICATION Spec
CHECK_DEADLOCK FALSE
INVARIANT TypeOK
PROPERTY AnswersClearMarks
