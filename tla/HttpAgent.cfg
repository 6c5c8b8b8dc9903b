SPECIFICATION Spec
CONSTANTS
  h1 = h1
  h2 = h2
  f1 = f1
  f2 = f2
  f3 = f3
  Hash = {h1, h2}
  Type <- RangeAndWhole
  Fd = {f1, f2, f3}
  NoHash = NoHash
  NoFd = NoFd
  MaxSock = 3
  MaxRetry = 1
  MaxRequests = 3
SYMMETRY Symmetry
INVARIANTS TypeOK SlotsMatch ReuseHasSlot
PROPERTY AnsweredBeforeDrop
