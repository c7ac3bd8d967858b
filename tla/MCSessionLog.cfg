\* Four records, three file operations that fail, two kills or power losses.
SPECIFICATION Spec
CONSTANTS
  Bodies <- MCBodies
  Units <- MCUnits
  Start = "start"
  Repair = "error"
  Synced <- MCSynced
  MaxSeq = 4
  MaxFaults = 3
  MaxDeaths = 2
INVARIANTS LogInv
PROPERTIES JournalSpec StrayNeedsAFailure
CHECK_DEADLOCK FALSE
