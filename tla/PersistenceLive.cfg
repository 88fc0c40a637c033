SPECIFICATION FairSpec
CONSTANTS
  MaxRecords = 3
  MaxTick = 2
  Interval = 2
  MaxCrashes = 1
  MaxFaults = 0
PROPERTIES
  RefinesStore
  RecordsReachTheDisk
  StopTerminates
