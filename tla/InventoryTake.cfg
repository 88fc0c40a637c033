SPECIFICATION Spec
CONSTANTS
    Def <- MCDef
    Slots <- MCSlots
    Recipe <- MCRecipe
    StartLoads <- FullLoads
    PocketW = 2
    PocketH = 2
    GroundW = 2
    GroundH = 1
    MaxGrant = 2
    MaxOps = 4
PROPERTY TakeConserves
CHECK_DEADLOCK FALSE
