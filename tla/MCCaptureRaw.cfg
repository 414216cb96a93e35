\* see README.md, section Runs
SPECIFICATION Spec
CONSTANTS
    Targets <- RawOnly
    MaxShots = 3
    NChunks = 2
    Env = {"burst"}
INVARIANTS
    ClosedAsOpened
