SPECIFICATION MCSpec
CONSTANTS
    Groups = {1, 2}
    Clients = {c1}
    Profiles = {p1}
    NoProfile = NoProfile
    NoGroup = NoGroup
    Reconciler = reconciler
    Handlers = {h1}
    NoActor = NoActor
    Faulty = {"boot", "reconcile", "edit", "delete", "assign"}
    MaxEdits = 1
    MaxTunnelEvents = 1
    MaxFaults = 1
    MaxRestarts = 1
INVARIANTS
    TypeOK
    SettledMeansDesired
CHECK_DEADLOCK FALSE
