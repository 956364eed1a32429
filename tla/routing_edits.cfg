SPECIFICATION MCSpec
CONSTANTS
    Groups = {1, 2}
    Clients = {c1}
    Profiles = {p1}
    NoProfile = NoProfile
    NoGroup = NoGroup
    Reconciler = reconciler
    Handlers = {h1}
    NoActor = NoActor
    Faulty = {"boot", "reconcile", "edit", "delete", "assign"}
    MaxEdits = 2
    MaxTunnelEvents = 0
    MaxFaults = 1
    MaxRestarts = 0
INVARIANTS
    SettledMeansDesired
    SettledMeansClean
    DuplicatesRemoved
CHECK_DEADLOCK FALSE
