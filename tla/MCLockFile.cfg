\* Three processes, every fault set under which they exclude each other.
SPECIFICATION FairSpec
CONSTANTS
  p1 = p1
  p2 = p2
  p3 = p3
  None = None
  Empty = Empty
  Procs <- MCProcs
  Envs <- MCEnvs
  MaxAttempts = 3
INVARIANTS LockInv MutualExclusion
PROPERTIES UndisturbedRefusedOnlyByLeftover AcquireEnds SingleWriterSpec
CHECK_DEADLOCK FALSE
