\* Of the client, two reads and a write on two connections, with two tokens.
CONSTANTS
    \* WazuhClient
    r1 = r1
    r2 = r2
    w1 = w1
    NoCall = NoCall
    Calls = {r1, r2, w1}
    Writes = {w1}
    Threshold = 2
    Slots = 2
    MaxAttempts = 3
    MaxTokens = 2
    \* RateLimiter
    Clients = {a, b}
    Window = 2
    MaxRequests = 2
    MaxTracked = 1
    BlockFactor = 1
    BlockCap = 1
    MaxClock = 5
    \* TrafficLog
    Subscribers = {l1}
    Tools = {t1, t2}
    Capacity = 3
    QueueSize = 2
    MaxLogged = 4
    \* JsonRpc
    MaxBatch = 2
    MaxItems = 3
SPECIFICATION ServerSpec
INVARIANTS
    ClientTypeOK
    CircuitCountsFailures
    RequestsAreSound
    LimiterHolds
    TrafficHolds
    BodiesAreAnswered
PROPERTY EveryCallReturns
CHECK_DEADLOCK FALSE
