SPECIFICATION FairSpec
CONSTANTS
    Players = {p1, p2}
    Bodies <- MCBodies
    Main = "main"
    Code <- MCCode
    ComputationId = 0
    DepthLimit = 2
INVARIANTS
    TypeOK
    SharesMeet
    PCRestored
PROPERTIES
    Completes
CHECK_DEADLOCK FALSE
