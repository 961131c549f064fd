SPECIFICATION FairSpec
CONSTANTS
  None = None
  TicksPerHour = 2
  HoursPerDay = 3
  PageHours = 3
  ParallelMin = 2
  MinFills = 2
  RefreshGap = 1
  GoBackGap = 2
  LiveGap = 1
  LookBack = 5
  StartFrom = None
  ChannelSize = 1
  MaxRetries = 2
  File <- MCFile
  Databases <- MCDatabases
  InitNow = 9
  MaxNow = 10
  Late = {3}
  MaxRuns = 3
  MaxFaults = 2
  BackfillFrom = 2
  BackfillTo = None
INVARIANTS
  PromiseAcrossModes
  BackfilledBeforeLive
PROPERTIES
  CountSpansModes
  ImplementsReader
  GoesLive
