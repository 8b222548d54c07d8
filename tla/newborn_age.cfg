\* Two awake and consenting seeds have an offspring.
SPECIFICATION Spec
CONSTANTS
    MaxId = 3
    Cap = 4
    TicksPerDay = 3
    TickCount = 9
    StartDate <- MidYear
    Duration = 1
    AgeScale = 2
    MaturityAge = 1
    AwakeRate = 2
    SleepRate = 1
    OffRate = 0
    OffMin = 1
    OffMax = 1
    MaxWithoutAwakeDays = 2
    CheckpointInterval = 1
    CounterMax = 0
    GenomeCount = 1
    Mutations = {1}
    Learning = {TRUE}
    Behaviours = {"court"}
    HostCalls = 0
INVARIANTS
    NewbornStartsAtZero
