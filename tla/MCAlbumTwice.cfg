\* see README.md, section Runs
SPECIFICATION Spec
CONSTANTS
    NSlots = 3
    Keep = 1
    LeastRun = 1
    LastNumber = 9
    MaxPics = 3
    Env = {}
INVARIANTS
    NoDuplicates
