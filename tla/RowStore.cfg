SPECIFICATION FairSpec
CONSTANTS
  Threads = {t1, t2}
  Rows = 7
  Rank = 1
  Tp = 2
  Layer = 1
  Sets = 2
  Ways = 2
  Stripes = 1
  Shards <- ShardFiles
  MaxLookups = 4
  NoThread = NoThread
  NoRow = NoRow
  Zero = Zero
INVARIANTS
  CacheCoherent
  ReadsAccounted
PROPERTIES
  ImplementsTable
  LookupEnds
