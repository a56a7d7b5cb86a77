CONSTANTS
    Byte = {1, 2, 3, 4, 5}
    Size = 2
    TxBufferSize = 2
    MaxChars = 5
    MaxBlocking = 1
    MaxRx = 3
SPECIFICATION FairSpec
CHECK_DEADLOCK FALSE
INVARIANTS
    NothingLost
PROPERTIES
    ImplementsFifo
    AllSent
    AllRead
