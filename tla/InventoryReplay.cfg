SPECIFICATION Spec
CONSTANTS
    Def <- MCDef
    Slots <- MCSlots
    Recipe <- NoRecipe
    StartLoads <- OneBolt
    PocketW = 2
    PocketH = 2
    GroundW = 2
    GroundH = 1
    MaxGrant = 1
    MaxOps = 4
INVARIANT ReplayAddsNothing
CHECK_DEADLOCK FALSE
