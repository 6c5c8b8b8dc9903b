SPECIFICATION Spec
CONSTANTS
  MaxHash = 3
  Offline = {1, 2}
  a1 = a1
  App = {a1}
  MaxDown = 1
  MaxObject = 3
INVARIANTS TypeOK HeldAlive NoLeak MappedIsListed DownloadLimit
CHECK_DEADLOCK FALSE
