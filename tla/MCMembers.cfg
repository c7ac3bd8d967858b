\* Two runs: two delegates at a time, one slot, a task of one member, two turns, one crash.
SPECIFICATION FairSpec
CONSTANTS
  Runs <- MCRuns
  Forms <- MCForms
  MaxMembers = 1
  MaxConcurrent = 2
  MaxSlots = 1
  MaxTurns = 2
  MaxCrashes = 1
INVARIANTS SlotsKept 
PROPERTY CloseEnds
CHECK_DEADLOCK FALSE
