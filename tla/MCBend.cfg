\* see README.md, section Runs
SPECIFICATION LiveSpec
CONSTANTS
    MaxShots = 3
    Burst = {FALSE}
INVARIANTS
    OwnRecipe
    EveryBentTagged
PROPERTIES
    AppendedOnce
    HookLetGo
    JobEnds
