SPECIFICATION FairSpec
CONSTANTS
    Deferreds = {d1, d2, d3, c1, c2}
    Complex = {c1, c2}
    Local = {d3}
    DepthLimit = 3
    MaxActivate = 2
INVARIANTS
    TypeOK
    ComplexNotNested
    DepthBounded
    NothingStranded
PROPERTIES
    EventuallyCalled
