SPECIFICATION Spec
CONSTANTS
    Players = {p1, p2, p3, p4, f}
    Faulty = {f}
    Threshold = 1
    Sender = f
    Messages = {m1, m2}
    NoMessage = NoMessage
    Camp = {p1, p2}
    Left = m1
    DepthLimit <- NoReentry
SYMMETRY Symmetry
CONSTRAINT CampsApart
INVARIANT Agreement
CHECK_DEADLOCK FALSE
