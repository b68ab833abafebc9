SPECIFICATION FairSpec
CONSTANTS
    Peers = {p1, p2}
    Self = p1
    Keys = {k1, k2}
    Often = k1
    Many = 2
    MaxSend <- Times
    MaxExpect <- Times
INVARIANTS
    TypeOK
    Pairing
    NeverBothWaiting
    CalledOnce
    NothingLost
PROPERTIES
    FiresInOrder
    ImplementsChannel
CHECK_DEADLOCK FALSE
