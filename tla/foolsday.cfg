\* Seeds breed for two days and meet April 1 on the third, with every
\* lifecycle behaviour and networks that may become invalid.
SPECIFICATION SpecH
CONSTANTS
    MaxId = 5
    Cap = 3
    TicksPerDay = 2
    TickCount = 8
    StartDate <- FoolsEve
    Duration = 1
    AgeScale = 2
    MaturityAge = 1
    AwakeRate = 2
    SleepRate = 1
    OffRate = 0
    OffMin = 1
    OffMax = 3
    MaxWithoutAwakeDays = 2
    CheckpointInterval = 3
    CounterMax = 4
    GenomeCount = 1
    Mutations = {1}
    Learning = {TRUE}
    Behaviours = {"court", "rest", "sleep", "doze", "wake", "off", "unsound"}
    HostCalls = 0
INVARIANTS
    TypeOK
    ArrayHoldsTheLiving
    PopulationBalances
    EachRunsOnce
    FoolsDayCulls
    DormancyBounded
    OneRollPerYear
    OnlyAwakeCommunicate
    SavedIsLoadable
PROPERTIES
    KeepsTime
