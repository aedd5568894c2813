\* A write answered too late is posted again.
SPECIFICATION Spec
CONSTANTS
  r1 = r1  r2 = r2  h1 = h1  h2 = h2  i1 = i1  i2 = i2  g1 = g1  g2 = g2
  Runs = {r1}
  Resumes = {h1}
  Incidents = {i1, i2}
  Targets = {g1}
  Requests <- PausedBodies
  MaxAttempts = 3
  MaxRestarts = 0
  UndoAll = TRUE
  NoState = NoState
INVARIANT ActiveResponseNotRepeated
CHECK_DEADLOCK FALSE
