\* Files of up to four lines, loaded once or again, and the program started
\* with what they say; every allocation and every read may fail.
SPECIFICATION Spec
CONSTANTS
    U32Max = 16383
    U64Max = 268435455
    LongNames <- LongNamesHere
    Lines <- FewLines
    MaxLines = 4
    NoConfig = NoConfig
    Fine = 4096
    Coarse = 32
    Steps = 8
    Draws <- FewDraws
    MaxId = 5
    StructBytes = 192
    SizeMax = 268435455
    Overrides <- FewOverrides
    Null = Null
INVARIANTS
    TypeOK
    ValidIsUsable
    HeapIsHeld
    RowsFollow
    SeedsSound
PROPERTIES
    KeepsRegister
    LoadIsDeclarative
