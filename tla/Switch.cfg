SPECIFICATION FairSpec
CONSTANTS
  Url = {"low", "high"}
  FirstUrl = "low"
  MaxSwitches = 1
  MaxFaults = 1
  MaxQueue = 0
  MaxBusy = 1
INVARIANTS TypeOK NoSwitchLost
PROPERTIES SwitchedUnlessLate
