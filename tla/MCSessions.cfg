SPECIFICATION FairSpec
CONSTANTS
    s1 = s1
    m1 = m1
    none = none
    k1 = k1
    h1 = h1
    h2 = h2
    NoDek = NoDek
    Ids <- OneId
    Machines <- Spawnable
    Daemons <- Creating
    NoMachine <- none
    Deks <- OneDek
    Handlers <- TwoHandlers
    Keys <- TwoKeys
    MaxRestarts = 1
INVARIANTS
    TypeOK
    RoutedHome
    OwnersFollowRows
    MetadataComplete
PROPERTIES
    StopsFinish
