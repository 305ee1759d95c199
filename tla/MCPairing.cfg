SPECIFICATION Spec
CONSTANTS
    h1 = h1
    h2 = h2
    h3 = h3
    Handlers <- ThreeHandlers
    MaxRequests = 3
    MaxTokens = 3
    MaxRestarts = 1
SYMMETRY AnyHandler
CHECK_DEADLOCK FALSE
INVARIANTS
    TypeOK
    TokensAreStored
    OneTokenPerRequest
    ExpiredInTime
PROPERTIES
    PinStays
