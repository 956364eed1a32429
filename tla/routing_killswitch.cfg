SPECIFICATION MCSpec
CONSTANTS
    Groups = {1, 2}
    Clients = {c1}
    Profiles = {p1}
    NoProfile = NoProfile
    NoGroup = NoGroup
    Reconciler = reconciler
    Handlers = {}
    NoActor = NoActor
    Faulty = {"boot", "reconcile", "edit", "delete", "assign"}
    MaxEdits = 0
    MaxTunnelEvents = 1
    MaxFaults = 0
    MaxRestarts = 0
PROPERTY KillSwitchHolds
CHECK_DEADLOCK FALSE
