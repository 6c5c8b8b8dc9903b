SPECIFICATION Spec
CONSTANTS
  App = {a1}
  Own = {"routine", "msg"}
INVARIANTS TypeOK DeadlocksKnown
CHECK_DEADLOCK FALSE
