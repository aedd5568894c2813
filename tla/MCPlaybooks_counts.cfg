\* What a run counts, of the answers of either server.
SPECIFICATION PlaybooksSpec
CONSTANTS
    Incidents = {i1}
    RunCount = 1
    MaxHits = 2
    Thresholds <- LowThresholds
    Servers = {"plain", "wazuh"}
    MaxRestarts = 0
INVARIANT CountsAreHits
CHECK_DEADLOCK FALSE
