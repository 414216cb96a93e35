\* see README.md, section Runs
SPECIFICATION Spec
CONSTANTS
    MaxShots = 2
    Burst = {TRUE, FALSE}
INVARIANTS
    OwnRecipe
