\* A row decided after its incident was run again.
SPECIFICATION GateSpec
CONSTANTS
  r1 = r1  r2 = r2  h1 = h1  h2 = h2  i1 = i1  g1 = g1
  a1 = a1  a2 = a2
  Runs = {r1, r2}
  Resumes = {h1}
  Incidents = {i1}
  Targets = {g1}
  Requests <- PausingBodies
  MaxAttempts = 1
  MaxRestarts = 0
  UndoAll = TRUE
  NoState = NoState
  Rows = {a1}
  Subjects <- Runs
  Results <- Statuses
  NoRow = NoRow
  DirectResume = FALSE
SYMMETRY GateSymmetry
INVARIANT DecisionReachesItsRun
CHECK_DEADLOCK FALSE
