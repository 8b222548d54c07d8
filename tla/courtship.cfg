\* A growing population in the last days of the calendar: couples court for two
\* ticks, side by side, births displace the oldest, and the run fails when the
\* last date is over.
SPECIFICATION Spec
CONSTANTS
    MaxId = 6
    Cap = 4
    TicksPerDay = 4
    TickCount = 9
    StartDate <- LastDays
    Duration = 2
    AgeScale = 2
    MaturityAge = 1
    AwakeRate = 2
    SleepRate = 1
    OffRate = 0
    OffMin = 1
    OffMax = 1
    MaxWithoutAwakeDays = 2
    CheckpointInterval = 1
    CounterMax = 0
    GenomeCount = 1
    Mutations = {1}
    Learning = {TRUE}
    Behaviours = {"court", "rest", "sleep", "wake", "barren"}
    HostCalls = 0
INVARIANTS
    NoCoupleSkipped
    CapacityHolds
    AgeIsElapsed
    LinksReciprocal
    CourtshipsBalance
    WinsWereAttempted
PROPERTIES
    EvictsInBirthOrder
    KeepsCourtship
