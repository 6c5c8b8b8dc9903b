SPECIFICATION Spec
CONSTANTS
  App = {a1}
  Own = {"polling"}
INVARIANTS NoDeadlock
