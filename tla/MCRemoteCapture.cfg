\* see README.md, section Runs
SPECIFICATION LiveSpec
CONSTANTS
    Targets <- WithFile
    MaxShots = 3
    NChunks = 2
    Env = {"timeout", "cancel", "burst"}
INVARIANTS
    NothingLost
    NeverTorn
    NumberRight
    ClosedAsOpened
    NotOnCard
    OfferedOnce
PROPERTIES
    HookLetGo
