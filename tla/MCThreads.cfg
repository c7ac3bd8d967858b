\* Two calls, two threads, one message of the user, one close or restart.
SPECIFICATION FairSpec
CONSTANTS
  Thread <- MCThread
  Calls <- MCCalls
  Sends <- MCSends
  MaxThreads = 2
  MaxRunning = 2
  WakeAttempts = 3
  MaxFaults = 1
INVARIANTS NoRunForgotten NotesKept
PROPERTY BookkeepingEnds
CHECK_DEADLOCK FALSE
