SPECIFICATION WalkSpec
CONSTANTS
  MaxHash = 2
  Offline = {1, 2}
  a1 = a1
  App = {a1}
  MaxDown = 1
  MaxObject = 2
PROPERTIES PlayingIsVisited
CHECK_DEADLOCK FALSE
