CONSTANTS
    Timers = {t1, t2}
    NoTimer = NoTimer
    Low = 3
    Epochs = 6
    Ops = {"start", "stop"}
    TaskTicks = {1, 4}
    CbTicks = {3}
    Past = 0
    Latency = 2
SYMMETRY Symmetry
SPECIFICATION Spec
CONSTRAINT Uncontested
INVARIANTS
    Sorted
    NoLostWakeup
    NeverLate
PROPERTY NeverEarly
