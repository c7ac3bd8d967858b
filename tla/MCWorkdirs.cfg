\* Two threads and a member of one of them, two edits, three turns.
SPECIFICATION Spec
CONSTANTS
  project = project
  t = t
  u = u
  m = m
  Project <- project
  Copies <- MCCopies
  From <- MCFrom
  MaxEdits = 2
  MaxTurns = 3
INVARIANT EditsSurvive
PROPERTY MergedIsInSync
CHECK_DEADLOCK FALSE
