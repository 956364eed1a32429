SPECIFICATION Spec
CONSTANTS
    OnDemand = on_demand
    Resilience = resilience
    Handlers = {h1}
    Requests = {"connect", "disconnect", "autoconnect", "policy", "bulk", "assign", "unassign", "override_to", "override_away", "override_end", "preflight"}
    Overrides = {"to"}
    Grace = 2
    Timeout = 1
    BaseDelay = 1
    MaxDelay = 2
    MaxFailures = 2
    FailureCap = 2
    MaxPass = 1
    MaxRequests = 1
    MaxRestarts = 1
    MaxBad = 2
    MaxDrops = 0
INVARIANTS
    TypeOK
PROPERTIES
    BackoffKept
    GraceKept
CHECK_DEADLOCK FALSE
