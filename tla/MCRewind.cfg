SPECIFICATION RewindSpec
CONSTANTS
  s1 = s1
  s2 = s2
  q1 = q1
  q2 = q2
  Requests = {q1, q2}
  Sessions = {s1, s2}
  Files = {"f", "g"}
  AtFirst = {"f"}
  Budgets <- MCBudgets
SYMMETRY Symmetric
INVARIANTS RewindUndoes SnapshotsWhole
PROPERTIES ListedWithReason
CHECK_DEADLOCK FALSE
