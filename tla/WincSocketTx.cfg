CONSTANTS
    Senders = {s1, s2}
    ChipRoom = 1
    MaxChain = 2
    MaxSends = 2
    MaxOpen = 2
SPECIFICATION FairSpec
CHECK_DEADLOCK FALSE
INVARIANTS
    InOrderOnce
PROPERTIES
    SentInTheEnd
