SPECIFICATION SpiFairSpec
CHECK_DEADLOCK FALSE
CONSTANTS
    MaxLen = 2
    MaxXfers = 2
    MaxWire = 3
    MaxDisturb = 1
INVARIANTS
    OwnBytes
    FreeIsIdle
PROPERTIES
    BuffersOwned
    XferEnds
