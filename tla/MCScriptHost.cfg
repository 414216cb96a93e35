\* see README.md, section Runs
SPECIFICATION LiveSpec
CONSTANTS
    Env = {"key", "alt"}
    MaxScripts = 3
    MaxRequests = 3
INVARIANTS
    TypeOK
    OneScript
    OwnProgram
    FlushSafe
    RequestStands
PROPERTIES
    Answered
