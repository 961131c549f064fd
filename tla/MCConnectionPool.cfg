SPECIFICATION FairSpec
CONSTANTS
  None = None
  a = a
  b = b
  unlisted = unlisted
  MaxConnections = 2
  MaxRetries = 2
  Chunk <- MCChunk
  Listed = {a, b}
INVARIANTS
  TypeOK
  SomeoneCanMove
  NothingKept
PROPERTY CallReturns
