SPECIFICATION FairSpec
CONSTANTS
    m1 = m1
    m2 = m2
    s1 = s1
    s2 = s2
    None = None
    Machines <- TwoMachines
    Sockets <- TwoSockets
INVARIANTS
    TypeOK
    LiveStaysRoutable
    RegisteredStaysActive
    GhostsExplained
    OfflineIsAnnounced
    AbsentIsInactive
PROPERTIES
    SetsAreKept
    HeartbeatRepairs
