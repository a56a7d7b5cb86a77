CONSTANTS
    MaxSocket = 2
    Chains = {1, 2}
    Pieces = 2
    SessionMod = 5
    Ops = {"close", "recvfrom"}
    HifFails = TRUE
    MaxOpen = 3
    MaxData = 3
SPECIFICATION FairSpec
CHECK_DEADLOCK FALSE
INVARIANTS
    OneRequest
    RightOwner
    DataIntact
PROPERTIES
    EachPolled
