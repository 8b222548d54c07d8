\* Runs, crashes and resumes of two configurations over two checkpoint paths.
SPECIFICATION FairSpec
CONSTANTS
    Paths = {"P", "Q"}
    Rules <- MCRules
    Configs <- MCConfigs
    None = None
    LastTick = 5
    Born <- MCBorn
    Dies <- MCDies
    Unsavable = {4}
    History <- MCCourse
    MaxLaunches = 3
INVARIANTS
    TypeOK
    CheckpointIsWhole
    ResumeIsExact
    RecordedIsCommitted
    FinalStateSaved
    SegmentTellsPopulation
    DeathEndsSegment
PROPERTIES
    LogOnlyGrows
    LaunchEnds
    KeepsDurable
