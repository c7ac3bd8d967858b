\* Two turns of up to five calls, two at a time, one of them a member.
SPECIFICATION FairSpec
CONSTANTS
  Scripts <- MCScripts
  Subjects = {"none", "x", "y"}
  MaxCalls = 2
  MaxMembers = 1
  MaxFaults = 1
INVARIANTS ResultsInCallOrder LimitsHold NotAskedTwice
PROPERTY CancelEndsTurn
CHECK_DEADLOCK FALSE
