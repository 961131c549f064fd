SPECIFICATION FairSpec
CONSTANTS
  None = None
  btc = btc
  at1 = at1
  Procs = {p1, p2}
  Markets <- MCMarkets
  Perps <- MCPerps
  Tables <- MCTables
  Listings <- MCListings
  MaxId = 6
  MaxVersion = 1
  MaxFaults = 1
INVARIANTS
  TypeOK
  OneIdPerMarket
  RefreshTakesEffect
PROPERTIES
  MetadataStays
  PlaceholderReplaced
