SPECIFICATION Spec
CONSTANTS
    p1 = p1
    p2 = p2
    p3 = p3
    Players = {s, p1, p2, p3}
    Sender = s
    Receivers <- MCReceivers
    Messages = {m1, m2}
    Nothing = Nothing
    Inconsistent = Inconsistent
INVARIANT UnequalHashAborts
CHECK_DEADLOCK FALSE
