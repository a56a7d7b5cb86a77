CONSTANTS
    Msecs = {0, 500, 562, 512000, 513000, 268435456}
    FlashTasks = {t1, t2}
    PageSize = 2
    PagesPerRow = 1
    RowsPerSector = 2
    Sectors = 2
    Bytes = {{0}}
    MaxLen = 3
    MaxOps = 3
    MaxResets = 1
SPECIFICATION Spec
SYMMETRY Symmetric
CONSTRAINT Unclashed
CHECK_DEADLOCK FALSE
INVARIANTS
    FlashKept
    WatchdogAsAsked
