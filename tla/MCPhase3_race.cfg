\* Two runs of one incident and two analysts resuming it.
SPECIFICATION Spec
CONSTANTS
  r1 = r1  r2 = r2  h1 = h1  h2 = h2  i1 = i1  i2 = i2  g1 = g1  g2 = g2
  Runs = {r1, r2}
  Resumes = {h1, h2}
  Incidents = {i1, i2}
  Targets = {g1}
  Requests <- MixedBodies
  MaxAttempts = 1
  MaxRestarts = 1
  UndoAll = TRUE
  NoState = NoState
SYMMETRY ResumeSymmetry
INVARIANTS
  TypeOK
  WritesAreApproved
  RunsAreDecidedOnce
  StatusTellsWhatRan
PROPERTY ImplementsGuardedWrite
CHECK_DEADLOCK FALSE
