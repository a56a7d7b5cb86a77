CONSTANTS
    Tasks = {t1, t2}
    Pins = {1, 2, 17}
    Trigs = {"rising"}
    MaxCalls = 5
SPECIFICATION Spec
SYMMETRY Symmetric
CHECK_DEADLOCK FALSE
INVARIANTS
    HeldUntilReleased
    NoLostEdge
