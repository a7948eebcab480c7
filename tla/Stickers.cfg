CONSTANTS
  Devices = {"a", "b"}
  Packs <- MCPacks
  Items <- MCItems
  Edges <- MCEdges
  MaxPacksTotal = 2
  MaxPacksPerSender = 2
  MaxCachedPacks = 1
  MaxPending = 1
  MaxCacheEntries = 1
  ServesPerDay = 1
  ChunkTtl = 1
  CacheTtl = 0
  Day = 1
  MaxOps = 2
  MaxMishaps = 1
  MaxNow = 1

SPECIFICATION Spec
CHECK_DEADLOCK FALSE

INVARIANTS
  
  PackIsWhole
  PreparedFits
