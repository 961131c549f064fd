SPECIFICATION FairSpec
CONSTANTS
  None = None
  TicksPerHour = 2
  HoursPerDay = 3
  PageHours = 3
  ParallelMin = 2
  MinFills = 2
  LiveGap = 1
  LookBack = 6
  StartFrom = 2
  MaxRetries = 2
  File <- MCFile
  Databases <- MCDatabases
  InitNow = 10
  MaxNow = 13
  Late = {2}
  MaxFaults = 2
INVARIANTS
  TypeOK
  LiveCheckpointSound
  TimeBehindCursor
  LiveRecordsBounded
PROPERTIES
  LiveSavesMoveForward
  ImplementsReader
  KeepsUp
