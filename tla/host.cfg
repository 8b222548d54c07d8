\* A host calls the public API between ticks, around April 1; the one thread is
\* fair, so whatever the host has done the run comes to its end.
SPECIFICATION FairSpec
CONSTANTS
    MaxId = 4
    Cap = 3
    TicksPerDay = 2
    TickCount = 6
    StartDate <- FoolsEve
    Duration = 1
    AgeScale = 2
    MaturityAge = 1
    AwakeRate = 2
    SleepRate = 1
    OffRate = 0
    OffMin = 1
    OffMax = 2
    MaxWithoutAwakeDays = 1
    CheckpointInterval = 4
    CounterMax = 2
    GenomeCount = 1
    Mutations = {0, 1}
    Learning = {FALSE}
    Behaviours = {"court", "rest", "sleep", "doze", "off"}
    HostCalls = 2
INVARIANTS
    SavedIsLoadable
PROPERTIES
    KeepsLifecycle
    RunTerminates
