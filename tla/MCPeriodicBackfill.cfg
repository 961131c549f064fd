SPECIFICATION LoopSpec
CONSTANTS
  None = None
  TicksPerHour = 2
  HoursPerDay = 3
  PageHours = 4
  ParallelMin = 3
  MinFills = 2
  RefreshGap = 1
  GoBackGap = 2
  ChannelSize = 1
  MaxRetries = 2
  File <- MCFile
  Windows = {}
  Databases <- MCDatabases
  InitNow = 7
  MaxNow = 15
  Late = {}
  MaxRuns = 2
  MaxFaults = 1
  Period = 6
INVARIANTS
  LoopCovers
