SPECIFICATION Spec
CONSTANTS
  MaxRecords = 3
  MaxTick = 2
  Interval = 1
  MaxCrashes = 1
  MaxFaults = 0
INVARIANT FsyncedRecordsSurvive
