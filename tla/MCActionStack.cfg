\* see README.md, section Runs
SPECIFICATION Spec
CONSTANTS
    Block = {b1, b2, b3}
    Null = Null
    MaxStacks = 2
    MaxId = 4
    MaxDepth = 1
INVARIANTS
    WellFormed
    AliveRight
PROPERTIES
    ImplementsStackList
