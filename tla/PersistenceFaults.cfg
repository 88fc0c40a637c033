SPECIFICATION Spec
CONSTANTS
  MaxRecords = 3
  MaxTick = 2
  Interval = 1
  MaxCrashes = 2
  MaxFaults = 1
INVARIANTS
  TypeOK
  RecoveryHasNoGap
  ReplayAppliesOnce
  FsyncedRecordsSurviveWhilePaired
  PairedOnceDrained
  CleanStopLosesNothing
PROPERTY DurableFloorNeverRetreats
