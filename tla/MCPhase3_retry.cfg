\* Parallel write tools posted up to twice, a restart in between; fair coroutines.
SPECIFICATION FairSpec
CONSTANTS
  r1 = r1  r2 = r2  h1 = h1  h2 = h2  i1 = i1  i2 = i2  g1 = g1  g2 = g2
  Runs = {r1}
  Resumes = {h1}
  Incidents = {i1}
  Targets = {g1, g2}
  Requests <- ParallelBodies
  MaxAttempts = 2
  MaxRestarts = 1
  UndoAll = FALSE
  NoState = NoState
INVARIANT RollbacksAreEarned
PROPERTY EveryRequestEnds
CHECK_DEADLOCK FALSE
