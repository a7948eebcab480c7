SPECIFICATION MCSpec
CONSTANTS
  Photo = Photo
  Clip = Clip
  Note = Note
  Heads = {Photo}
  ChunkCount <- MCChunkCount
  Damaged = {}
  ViewOnce = {}
  Recalled = {}
  MaxPerHead = 4
  MaxPerRel = 4
  MaxSwitches = 0
  MaxCrashes = 0
  Alice = Alice
  Bob = Bob
  Nodes = {Alice, Bob}
  Writers = {}
  Wipers = {}
  AliceQuota = 0
  BobQuota = 0
  Quota <- MCQuota
  MaxEdits = 0
  MaxLapses = 0
  MaxPrunes = 0
  FileSizes = {}
  HintSizes = {}
  Captions = {}
INVARIANTS
  AllInIsComplete
CHECK_DEADLOCK FALSE
