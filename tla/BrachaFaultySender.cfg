SPECIFICATION Spec
CONSTANTS
    Players = {p1, p2, p3, f}
    Faulty = {f}
    Threshold = 1
    Sender = f
    Messages = {m1, m2}
    NoMessage = NoMessage
    Reentrant = {}
    Depth = 0
    Deaf = {}
    DepthLimit <- MCDepthLimit
SYMMETRY Symmetry
INVARIANTS
    TypeOK
    Agreement
    OneReady
    NoOneLeftBehind
CHECK_DEADLOCK FALSE
