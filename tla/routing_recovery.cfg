SPECIFICATION FairSpec
CONSTANTS
    Groups = {1, 2}
    Clients = {c1}
    Profiles = {p1}
    NoProfile = NoProfile
    NoGroup = NoGroup
    Reconciler = reconciler
    Handlers = {}
    NoActor = NoActor
    Faulty = {"boot", "reconcile"}
    MaxEdits = 0
    MaxTunnelEvents = 2
    MaxFaults = 2
    MaxRestarts = 1
PROPERTY
    Converges
CHECK_DEADLOCK FALSE
