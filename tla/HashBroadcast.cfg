SPECIFICATION FairSpec
CONSTANTS
    p1 = p1
    p2 = p2
    p3 = p3
    Players = {p1, p2, p3}
    Sender = p1
    Receivers <- MCReceivers
    Messages = {m1, m2}
    Nothing = Nothing
    Inconsistent = Inconsistent
INVARIANTS
    TypeOK
    LastVouches
    Integrity
PROPERTIES
    Delivered
CHECK_DEADLOCK FALSE
