SPECIFICATION FairSpec
CONSTANTS
    OpenVPN = {"v"}
    WireGuard = {"w"}
    Manager = "resilience"
    Others = {"h"}
    Pids = {1, 2, 3}
    MaxRequests = 1
    MaxFaults = 2
INVARIANTS TypeOK ProcessesNamed InterfacesServed
PROPERTY Recovers
CHECK_DEADLOCK FALSE
