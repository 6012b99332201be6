SPECIFICATION LoopSpec
CONSTANTS
  Size = 8
  Newlines = {2, 4, 6, 8}
  Starts = {1, 7}
  MaxChunk = 7
  MaxFiles = 3
  Relations = {"whole", "other", "part", "index", "toast"}
  Shapes <- MCShapes
  Schemas = {"app", "private", "app.old"}
  HeadOf <- MCHeadOf
  SystemSchemas = {"pg_toast"}
  Included = {"app", "private", "app.old", "pg_toast"}
  Ignored = {"private", "app.old"}
  MaxChanges = 2
  Keys <- MCKeys
  WaitOf <- MCWaitOf
  Loads <- MCLoads
  Width = 2
  Readers = {"query_stats", "inventory"}
  QueryStats = "query_stats"
  Budget = 1
  MaxTime = 4
  MaxFlushes = 2
  MaxBoots = 2
INVARIANTS
  PeakShown
  PerBucket
