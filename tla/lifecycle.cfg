SPECIFICATION FairSpec
CONSTANTS
    OnDemand = on_demand
    Resilience = resilience
    Handlers = {h1}
    Requests = {"disconnect", "autoconnect", "policy", "assign", "unassign", "preflight"}
    Overrides = {"none"}
    Grace = 1
    Timeout = 2
    BaseDelay = 1
    MaxDelay = 1
    MaxFailures = 0
    FailureCap = 1
    MaxPass = 1
    MaxRequests = 1
    MaxRestarts = 0
    MaxBad = 1
    MaxDrops = 1

PROPERTIES
    WantedComesUp
    UnusedGoesDown
CHECK_DEADLOCK FALSE
