CONSTANTS
    Ops = {"ready", "begin", "request", "response", "reset", "process"}
    TxSize = 2
    RxSize = 3
    Timo = 1
    TimeMod = 7
    MaxSkip = 2
    ReadySkip = 2
    Tries = 2
    MaxReq = 3
    MaxNoise = 1
SPECIFICATION FairSpec
CHECK_DEADLOCK FALSE
INVARIANTS
    TakenOnce
PROPERTIES
    AnswerIsOwn
    ResponseIntact
    CallsReturn
