SPECIFICATION MCSpec
CONSTANTS
    MaxUsers = 3
    MaxRequests = 4
    MaxCrashes = 1
    Handlers = {"h1", "h2"}
    Uploads = {"a"}
    FormNames = {"a", "b"}
    Clients = {"c"}
    Addresses = {"a1", "a2"}
    Expiry = "expiry"
    Reconciler = "reconciler"
    Loop = "loop"
    MaxProfiles = 2
    MaxGroups = 2
    MaxLibraryRequests = 2
    Callers = {"h1"}
    MaxRefreshEvents = 2
    MaxLooks = 3
    MaxFaults = 1
    Exits = {"e1", "e2"}
    Resolvers = {"pia", "custom"}
INVARIANTS
    MCTypeOK
    ConfigKept
    GroupsBacked
    AdminRemains
    SetupReachable
    AccessOwned
    QuietMeansApplied
    VerdictsSound
PROPERTIES
    SyncSettles
    LiveOverridesStay
    InvalidateHeeded
    VerdictsSettle
CHECK_DEADLOCK FALSE
