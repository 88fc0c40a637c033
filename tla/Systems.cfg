SPECIFICATION Spec
CONSTANTS
    Players = {"ann"}
    Npcs = {"bob"}
    Endurance <- MCEndurance
    Med <- MCMed
    Laden = FALSE
    SnapshotInterval = 3
    Menus <- MCMenus
    MaxCommands = 3
    MaxBodyTicks = 4
    Squads <- MCSquads
    FactionOf <- MCFactionOf
    Size <- MCSize
    Home <- MCHome
    Sites <- MCSites
    FirstOwner <- MCFirstOwner
    HostilePairs <- MCHostilePairs
    Standing = {"red"}
    Spots <- MCSpots
    RestSite = "wild"
    RestRoom = 1
    SquadCfg <- MCSquadCfg
    MaxEvents = 1
    MaxSquadTicks = 7
    Defs <- MCDefs
    Declared <- MCDeclared
    DefaultScore = 0
    SelfScore = 50
    Baseline = 3
    Steam = {"ann"}
    Shifts <- MCShifts
    I16 = 32768
    MaxShifts = 2
    Regions <- MCRegions
    Bases <- MCBases
    Targets <- MCTargets
    Enemies <- MCEnemies
    Spans <- MCSpans
    SquadSizes <- MCSquadSizes
    LifeCfg <- MCLifeCfg
    MaxPeople = 5
    MaxHappened = 2
    MaxTicks = 4
    Folk <- MCFolk
    FolkSquad <- MCFolkSquad
    FolkSide <- MCFolkSide
    Traits <- MCTraits
    FolkStart <- MCFolkStart
    RestSpots <- MCRestSpots
    HuntSpots <- MCHuntSpots
    Leeway <- MCLeeway
    BaseAt <- MCBaseAt
    CoverCell = 0
    GoalCfg <- MCGoalCfg
    GoalScripts <- MCGoalScripts
    MaxGoalStirs = 3
    MaxPace = 4
    Fighters <- MCFighters
    FighterSquad <- MCFighterSquad
    Foe <- MCFoe
    Health <- MCHealth
    RoleOf <- MCRoleOf
    Cautious <- MCCautious
    FighterStart <- MCFighterStart
    Steps <- MCSteps
    Near <- MCNear
    FireLines <- MCFireLines
    CoverAt <- MCCoverAt
    Further <- MCFurther
    Table <- MCTable
    FightCfg <- MCFightCfg
    FightScripts <- MCFightScripts
    MaxFightStirs = 2
    MaxInstant = 5
    Souls <- MCSouls
    SoulSquad <- MCSoulSquad
    SoulSide <- MCSoulSide
    HostileSides <- MCHostileSides
    SightOf <- MCSightOf
    SoulStart <- MCSoulStart
    SenseCfg <- MCSenseCfg
    Nudges <- MCNudges
    MaxNudges = 2
    MaxBeat = 5
    Mates = {"bea"}
    MaxDeeds = 2
    MaxFrames = 2
    MaxAsks = 2
    MaxSlips = 1
INVARIANTS
    BodyConsistent
    ReplayFollowsTheBody
    ClaimsMatchObjectives
    StandingsAgree
    PeopleMatchRecords
    GoalsAreMeant
    MindsFollowContact
    MirrorsCatchUp
PROPERTIES
    PostsPassByRelief
    ShiftsKeepTheirSign
    PassageKeepsPeople
    CapHolds
    WaypointsVisited
    CoverTakenTogether
CHECK_DEADLOCK FALSE
