\* A task of three turns and one of one turn, one process at a time, two crashes, exits or changes.
SPECIFICATION FairLearningSpec
CONSTANTS
  t = t
  u = u
  h = h
  Tasks <- MCTasks
  Hosts <- MCHosts
  MaxAttempts = 2
  MaxPending = 2
  MaxTurn <- MCTurns
  MaxFaults = 2
INVARIANT TurnsKept
PROPERTY QueueWorked
CHECK_DEADLOCK FALSE
