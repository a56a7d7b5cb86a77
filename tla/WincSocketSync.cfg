CONSTANTS
    Types = {"stream", "dgram"}
    MaxCalls = 3
    MaxOpen = 3
SPECIFICATION SyncFairSpec
CHECK_DEADLOCK FALSE
INVARIANTS
    OwnAnswer
PROPERTIES
    EveryCallReturns
