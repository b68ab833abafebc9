SPECIFICATION FairSpec
CONSTANTS
    n = 4
    t = 1
    Field = 5
    Code <- MCCode
    Inputs <- MCInputs
    Coefficients <- MCCoefficients
    GarbledSets <- MCGarbledSets
    None = None
    Failed = Failed
INVARIANTS
    TypeOK
    SharesMeet
CHECK_DEADLOCK FALSE
PROPERTIES
    ImplementsIdeal
