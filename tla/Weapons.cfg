SPECIFICATION Spec
CONSTANTS
    Def <- MCDef
    Gun = "rifle"
    Cond <- MCCond
    Starts <- MCStarts
    PocketW = 2
    PocketH = 3
    MaxShots = 2
    MaxOps = 4
INVARIANTS
    MagazinesSound
    ReplayKeepsArms
PROPERTY
    RoundsBecomeProjectiles
CHECK_DEADLOCK FALSE
