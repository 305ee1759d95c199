SPECIFICATION Spec
CONSTANTS
    h1 = h1
    h2 = h2
    u1 = u1
    s1 = s1
    s2 = s2
    HttpCalls <- Http
    InputCalls <- Input
    Sockets <- TwoSockets
    FailureThreshold = 1
    RecoveryTimeout = 1
    HalfOpenMax = 1
    Window = 1
INVARIANTS
    TimeoutsAnswer504
