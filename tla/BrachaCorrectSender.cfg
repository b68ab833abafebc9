SPECIFICATION FairSpec
CONSTANTS
    Players = {p1, p2, p3, f}
    Faulty = {f}
    Threshold = 1
    Sender = p1
    Messages = {m1}
    NoMessage = NoMessage
    Reentrant = {p1}
    Depth = 2
    Deaf = {p3}
    DepthLimit <- MCDepthLimit
CONSTRAINT ReadyBound
INVARIANTS
    NoEarlyEnd
PROPERTIES
    ImplementsReliableBroadcast
CHECK_DEADLOCK FALSE
