CONSTANTS
    PowerSave = TRUE
    Polls = TRUE
    OtherPins = TRUE
    MaxMsgs = 2
    MaxSends = 2
    MaxFails = 1
SPECIFICATION FairSpec
CHECK_DEADLOCK FALSE
INVARIANTS
    NoLostInterrupt
    InOrder
    AwakeWhenUsed
    SentIsSent
PROPERTIES
    EveryMessageEnds
