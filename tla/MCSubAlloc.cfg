\* see README.md, section Runs
SPECIFICATION Spec
CONSTANTS
    AreaSize = 42
    Requests = {0, 9, 24}
INVARIANTS
    TypeOK
    Tiling
    Linked
    Coalesced
    StatsRight
PROPERTIES
    ImplementsHeap
