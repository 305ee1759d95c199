SPECIFICATION Spec
CONSTANTS
    batch = batch
    send = send
    message = message
    r1 = r1
    Writers <- ThreeWriters
    Rest <- OneRest
    Size <- Sizes
    Readers <- OneReader
    Limit = 2
CHECK_DEADLOCK FALSE
INVARIANTS
    TypeOK
    StoredUnderItsSeq
    StoredIsBeginning
    LastPageIsComplete
PROPERTIES
    ImplementsLog
