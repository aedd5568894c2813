CONSTANTS
    \* IncidentDesk
    Desks = {d1, d2}
    MaxTickets = 2
    MaxHours = 2
    MaxWrites = 2
    Tiers = {"critical"}
    PutTiers = {"low"}
    PutStatuses = {"resolved"}
    PutPriorities <- SomePriorities
    MaxFetched = 2
    \* ResponsePlaybook
    Executions = {e1, e2}
    EndpointCount = 2
    \* AlertPoller
    IndexedAlerts = {1, 2, 3}
    PerSecond = 2
    Batch = 2
    Lookback = 2
    MaxTime = 2
    MaxPollerStarts = 2
    \* LlmWatch
    WatchWindow = 1
    Percent = 100
    MaxSeen = 2
    MaxWatchTime = 2
    \* Playbooks
    Incidents = {i1, i2}
    RunCount = 2
    MaxHits = 2
    Thresholds <- SomeThresholds
    Servers = {"plain"}
    MaxRestarts = 1
    \* IncidentGrouping
    Alerts <- SomeAlerts
    NoText = ""
    MaxAlerts = 4
    Threshold = 65
    WindowSize = 2
    GroupRuns = 3
    \* ForensicGraph
    WazuhAlerts <- SomeWazuhAlerts
    Bodies <- SomeBodies
    Entities <- SomeEntities
    NamedEntities <- SomeNames
    ForeignItems <- SomeItems
    BundleIncidents <- SomeIncidents
    MaxGraphRequests = 3
SPECIFICATION ServicesSpec
SYMMETRY DeskSymmetry
INVARIANTS
    PlaybooksHold
    GroupsHold
    ForensicsHold
PROPERTIES
    TicketsHold
    ResponseHolds
    PollerHolds
    WatchHolds
CHECK_DEADLOCK FALSE
