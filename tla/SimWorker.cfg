SPECIFICATION FairSpec
CONSTANTS
  Period = 1
  MaxLag = 2
  CmdCap = 2
  DeltaCap = 1
  MaxCmds = 3
  MaxTicks = 3
INVARIANTS
  TypeOK
  CommandsOnceInOrder
  VisibleInTwoTicks
  PublishedTogether
  DeltasOnceInOrder
  NoDoubleTick
PROPERTIES
  InspectsReturn
  ShutdownJoins
CHECK_DEADLOCK FALSE
