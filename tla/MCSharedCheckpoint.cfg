SPECIFICATION SharedSpec
CONSTANTS
  None = None
  TicksPerHour = 2
  HoursPerDay = 3
  PageHours = 2
  ParallelMin = 2
  MinFills = 1
  RefreshGap = 1
  GoBackGap = 2
  LiveGap = 2
  LookBack = 10
  StartFrom = 2
  ChannelSize = 1
  MaxRetries = 2
  File <- MCFile
  Windows <- MCEarly
  Databases <- MCDatabases
  InitNow = 12
  MaxNow = 13
  Late = {5}
  MaxRuns = 2
  MaxFaults = 1
INVARIANTS
  CountBounded
  BothPassesCovered
