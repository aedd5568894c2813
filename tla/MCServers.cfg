CONSTANTS
    \* OAuthServer
    OClients = {claude, dcr}
    Claude = claude
    MaxCodes = 2
    Verifiers = {v1}
    NoVerifier = none
    Scopes = {s1}
    DCR = TRUE
    CodeCap = 1
    TokenCap = 1
    TokensKept = 1
    ClientCap = 1
    MaxIssued = 4
    MaxBoots = 1
    \* ApiKeys
    Keys = {key1, key2}
    Configured = {key1}
    SessionCap = 2
    SessionsKept = 1
    MaxSessions = 4
    MaxStarts = 1
    \* PolicyLifecycle
    strict = strict
    plain = plain
    broken = broken
    Unreadable = Unreadable
    Nothing = Nothing
    Policies <- SomePolicies
    Loadable <- LoadablePolicies
    Governed <- GovernedPolicies
    Lifecycle <- GovernedPolicies
    AutoVersion <- GovernedPolicies
    NeedApproval <- StrictPolicies
    MaxVersions = 1
    MaxRecords = 2
    MaxProposals = 1
    MaxMishaps = 1
    \* AuditChain
    denied = denied
    decision = decision
    Buffers = {denied, decision}
    Limit <- BufferLimits
    MaxEvents = 3
    MaxRestarts = 1
    MaxDamage = 1
    NoFile = NoFile
    \* Analysis
    IndexedLogs <- SomeLogs
    LateAlerts <- SomeLateAlerts
    Window = 2
    FirstMoment = 4
    LastMoment = 5
    TriageLimit = 2
    CompareFloor = 3
    CompareCap = 5
    PayloadSizes <- SomeSizes
    PayloadBudget = 4
    ModelWindow = 2
    \* PolicyAdvice
    DeniedCalls <- SomeDenials
    DeniedKept = 3
    AdviceLimits = {2}
    Suggestions <- SomeSuggestions
    \* DiscoveryAlerts
    Denials <- SomeRefused
    RuleLists <- SomeRules
    EventsKept = 2
    AlertsKept = 2
    Cooldown = 2
    DefaultWindow = 2
    TicksPerSecond = 2
    MaxTime = 3
    MaxDenials = 3
    MaxFaults = 1
    MaxJudging = 1
    \* GuardPolicy and AgentGuard
    GuardAdmins = {admin1, admin2}
    GuardTexts = {"open", "tight", "bad"}
    PolicyIn <- SomePolicyIn
    DefaultGuard <- SomeDefault
    Blank = blank
    Absent = absent
    MaxAdminCalls = 3
    MaxGuardFaults = 1
    Bodies <- SomeBodies
    Replies <- SomeReplies
    AgentCalls <- SomeProposals
    MLScores <- SomeScores
    GuardKept = 2
    DecodeLimit = 2
    MaxOthers = 1
SPECIFICATION ServicesSpec
INVARIANTS
    PolicyIsKept
    AuditTypeOK
    ReportsAreTrue
    ChainHolds
    AnalysisHolds
    DenialsAreUsed
    GuardHolds
PROPERTIES
    AccessHolds
    ChangesAreAccounted
CHECK_DEADLOCK FALSE
