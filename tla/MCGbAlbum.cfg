\* see README.md, section Runs
SPECIFICATION LiveSpec
CONSTANTS
    NSlots = 2
    Keep = 1
    LeastRun = 1
    LastNumber = 1
    MaxPics = 3
    Env = {"power", "full", "refuses", "unread"}
INVARIANTS
    TypeOK
    NothingLost
    ClosedIsSaved
PROPERTIES
    NumbersKept
    CommitEnds
