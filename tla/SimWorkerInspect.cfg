SPECIFICATION Spec
CONSTANTS
  Period = 1
  MaxLag = 2
  CmdCap = 2
  DeltaCap = 1
  MaxCmds = 2
  MaxTicks = 3
INVARIANT InspectSeesEarlierCommands
CHECK_DEADLOCK FALSE
