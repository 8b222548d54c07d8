\* A bound on the weights that is no float: rounded, it grows.
SPECIFICATION Spec
CONSTANTS
    U32Max = 16383
    U64Max = 268435455
    LongNames <- LongNamesHere
    Lines <- RoughLines
    MaxLines = 2
    NoConfig = NoConfig
    Fine = 4096
    Coarse = 32
    Steps = 8
    Draws <- FewDraws
    MaxId = 5
    StructBytes = 192
    SizeMax = 268435455
    Overrides <- FewOverrides
    Null = Null
INVARIANTS
    SeedsAreValid
