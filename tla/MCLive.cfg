CONSTANTS
    \* HumanGate
    r1 = r1  h1 = h1  h2 = h2  i1 = i1  g1 = g1  a1 = a1
    Runs = {r1}
    Resumes = {h1, h2}
    Incidents = {i1}
    Targets = {g1}
    Requests <- HighBodies
    MaxAttempts = 1
    MaxRestarts = 1
    UndoAll = TRUE
    NoState = NoState
    Rows = {a1}
    Subjects <- Runs
    Results <- Statuses
    NoRow = NoRow
    DirectResume = TRUE
    \* PhaseCalls
    AddressCount = 2
    MaxAsks = 2
    \* McpTransport
    ReqCount = 2
    Backends = {"memory", "redis"}
    MaxMade = 2
    \* ProxyPipeline
    c1 = c1
    c2 = c2
    Calls = {c1, c2}
    ProxyPolicies <- SomeProxyPolicies
    UsageLimit <- SomeUsageLimits
    Trial = FALSE
    MaxRetries = 2
    MaxDay = 2
    MaxProxyRestarts = 0
    MaxUnreadable = 0
    MaxReloads = 0
SPECIFICATION ServicesSpec
INVARIANTS
    CallsBeginOnce
PROPERTIES
    GateComesFree
    CallsComeBack
    EveryHttpRequestEnds
    EveryCallEnds
CHECK_DEADLOCK FALSE
