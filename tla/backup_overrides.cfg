SPECIFICATION Spec
CONSTANTS
    Handlers = {"h1"}
    Managers = {"manager"}
    Files = {"f", "g"}
    Configs = {"c", "d"}
    Clients = {"u"}
    MaxProfiles = 2
    MaxGroups = 1
    MaxRequests = 3
    MaxFaults = 0
INVARIANTS
    OverridesRestorable
CHECK_DEADLOCK FALSE
