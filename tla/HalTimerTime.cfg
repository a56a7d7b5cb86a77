CONSTANTS
    Timers = {t1}
    NoTimer = NoTimer
    Low = 3
    Epochs = 6
    Ops = {"start_at", "read", "delay"}
    TaskTicks = {0, 3}
    CbTicks = {2}
    Past = 1
    Latency = 2
SPECIFICATION FairSpec
INVARIANTS
    TimeKept
    ReadIsTime
PROPERTIES
    DelayWaits
    WaitsEnd
