SPECIFICATION Spec
CONSTANTS
    Def <- MCDef
    Slots <- MCSlots
    Recipe <- MCRecipe
    StartLoads <- MCLoads
    PocketW = 2
    PocketH = 2
    GroundW = 2
    GroundH = 1
    MaxGrant = 1
    MaxOps = 4
INVARIANTS
    EverythingWellPlaced
    ReplayFollows
PROPERTIES
    MovesConserve
    CraftingCreatesNothing
    IdsNeverReissued
CHECK_DEADLOCK FALSE
