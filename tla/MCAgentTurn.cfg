\* Two turns of two steps, two messages, one append that fails.
SPECIFICATION FairSpec
CONSTANTS
  m1 = m1
  m2 = m2
  Messages <- MCMessages
  MaxTurns = 2
  MaxSteps = 2
  MaxCalls = 2
  StepResends = 1
  MaxOutputContinuations = 1
  MaxPauseContinuations = 1
  CheckRetries = 1
  RequestCap = 3
  MaxFaults = 1
INVARIANTS TurnInv NoSteerLost StoppedTurnAnsweredCalls CapOverrunBounded OneOutcome
PROPERTIES CompletedAnswersSteers CloseReleases
CHECK_DEADLOCK FALSE
