SPECIFICATION Spec
CONSTANTS
    Handlers = {"h1", "h2"}
    Managers = {"manager"}
    Files = {"f", "g"}
    Configs = {"c", "d"}
    Clients = {"u"}
    MaxProfiles = 2
    MaxGroups = 1
    MaxRequests = 3
    MaxFaults = 2
INVARIANTS
    TypeOK
    FilesMatchRows
    TunnelsCurrent
    ExportsComplete
CHECK_DEADLOCK FALSE
