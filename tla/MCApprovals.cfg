CONSTANTS
    \* HumanGate
    r1 = r1  r2 = r2  h1 = h1  h2 = h2  i1 = i1  g1 = g1
    a1 = a1  a2 = a2
    Runs = {r1, r2}
    Resumes = {h1, h2}
    Incidents = {i1}
    Targets = {g1}
    Requests <- PausingBodies
    MaxAttempts = 1
    MaxRestarts = 0
    UndoAll = TRUE
    NoState = NoState
    Rows = {a1, a2}
    Subjects <- Runs
    Results <- Statuses
    NoRow = NoRow
    DirectResume = FALSE
    \* ProxyPipeline
    c1 = c1
    c2 = c2
    Calls = {c1, c2}
    ProxyPolicies <- SomeProxyPolicies
    UsageLimit <- SomeUsageLimits
    Trial = FALSE
    MaxRetries = 1
    MaxDay = 2
    MaxProxyRestarts = 1
    MaxUnreadable = 1
    MaxReloads = 1
    \* McpTransport
    ReqCount = 3
    Backends = {"memory", "redis"}
    MaxMade = 2
SPECIFICATION ServicesSpec
SYMMETRY GateSymmetry
INVARIANTS
    RowsGovernWrites
    CallsAreCleared
    UseIsCounted
PROPERTIES
    DecidedRowsAreFinal
    SessionsHold
CHECK_DEADLOCK FALSE
