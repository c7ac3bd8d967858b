\* Sessions of two and three turns; see MCBudgets.
SPECIFICATION StateSpec
CONSTANTS
  Budgets <- MCBudgets
  MaxCalls = 2
  CheckpointEvery = 4
  MaxChain = 1
INVARIANTS StatesAgree TurnsAddUp SentIsRebuilt
CHECK_DEADLOCK FALSE
