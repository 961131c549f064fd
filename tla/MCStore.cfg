SPECIFICATION FairSpec
CONSTANTS
  backfill = backfill
  live = live
  a = a
  b = b
  c = c
  d = d
  Writers = {backfill, live}
  Fills = {a, b, c, d}
  BatchOf <- MCBatchOf
  Initial = {d}
  ChunkSize = 3
  RowsPerTx = 2
  MaxRetries = 2
  MaxFaults = 3
INVARIANTS
  TypeOK
  OkMeansStored
  NoDoubleCount
  PrefixStored
PROPERTY EveryCallReturns
