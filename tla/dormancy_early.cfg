\* An organism that falls asleep and dozes, with a limit of one day.
SPECIFICATION SpecH
CONSTANTS
    MaxId = 2
    Cap = 2
    TicksPerDay = 2
    TickCount = 8
    StartDate <- MidYear
    Duration = 1
    AgeScale = 2
    MaturityAge = 1
    AwakeRate = 2
    SleepRate = 1
    OffRate = 0
    OffMin = 1
    OffMax = 3
    MaxWithoutAwakeDays = 1
    CheckpointInterval = 2
    CounterMax = 4
    GenomeCount = 1
    Mutations = {1}
    Learning = {TRUE}
    Behaviours = {"rest", "sleep", "doze"}
    HostCalls = 0
PROPERTIES
    DormancyNotEarly
