\* A crash with a full buffer, and a resume.
SPECIFICATION Spec
CONSTANTS
    Paths = {"P"}
    Rules <- MCRules
    Configs <- OneConfig
    None = None
    LastTick = 4
    Born <- MCBorn
    Dies <- MCDies
    Unsavable = {}
    History <- MCCourse
    MaxLaunches = 2
INVARIANTS
    RecordsOnOwnLine
