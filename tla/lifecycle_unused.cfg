SPECIFICATION FairSpec
CONSTANTS
    OnDemand = on_demand
    Resilience = resilience
    Handlers = {h1}
    Requests = {"override_away"}
    Overrides = {"none"}
    Grace = 2
    Timeout = 2
    BaseDelay = 1
    MaxDelay = 2
    MaxFailures = 0
    FailureCap = 2
    MaxPass = 1
    MaxRequests = 1
    MaxRestarts = 0
    MaxBad = 0
    MaxDrops = 0

PROPERTIES
    UnusedGoesDown
CHECK_DEADLOCK FALSE
