SPECIFICATION FairSpec
CONSTANTS
    c1 = c1
    c2 = c2
    c3 = c3
    Calls <- ThreeCalls
    FailureThreshold = 2
    RecoveryTimeout = 2
    HalfOpenMax = 1
    Window = 3
PROPERTIES
    ProbingEnds
