SPECIFICATION Spec
CONSTANTS
  None = None
  TicksPerHour = 2
  HoursPerDay = 3
  PageHours = 3
  ParallelMin = 2
  MinFills = 2
  RefreshGap = 1
  GoBackGap = 2
  ChannelSize = 1
  MaxRetries = 2
  File <- MCFile
  Windows <- MCWindows
  Databases <- MCDatabases
  InitNow = 13
  MaxNow = 14
  Late = {3, 5}
  MaxRuns = 2
  MaxFaults = 1
INVARIANT MissingHoursAreFetched
