CONSTANTS
    N = 3
    Field = 5
    Given = 2
    None = None
    Wrong = Wrong
    Idle = Idle
    Alpha <- MCAlpha
    StartValue <- MCStartValue
    StartKey <- MCStartKey
    Code <- MCCode
    GarbledSets <- MCGarbledSets
    Calls <- MCCalls
    MostAtOnce <- MCMostAtOnce
SPECIFICATION
    ProtocolsSpec
INVARIANTS
    FieldsRight
    SharingsRight
    TriplesRight
    ProtocolsCompute
    OpeningsRight
    PoolFits
CHECK_DEADLOCK FALSE
