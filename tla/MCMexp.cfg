\* see README.md, section Runs
SPECIFICATION Spec
CONSTANTS
    MaxShots = 5
    MaxFrames = 3
    MenuBusy = FALSE
INVARIANTS
    CompositeExact
    WeightRight
    BentOnce
    TaggedIfBent
    GhostRight
