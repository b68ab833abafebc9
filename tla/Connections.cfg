SPECIFICATION FairSpec
CONSTANTS
    N = 3
    Threshold = 1
    Garbling = {3}
INVARIANTS
    TypeOK
    ReadyMeansConnected
    ClosedLast
    NoSurprise
PROPERTIES
    AllStop
CHECK_DEADLOCK FALSE
