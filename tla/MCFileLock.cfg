SPECIFICATION Spec
CONSTANTS
  Users = {"u", "v"}
  AtFirst <- LeftEmpty
  MaxFiles = 3
  MaxFaults = 0
INVARIANTS OneHolder
CHECK_DEADLOCK FALSE
