SPECIFICATION MCSpec
CONSTANTS
  Photo = Photo
  Clip = Clip
  Note = Note
  Heads = {}
  ChunkCount <- MCChunkCount
  Damaged = {}
  ViewOnce = {}
  Recalled = {}
  MaxPerHead = 0
  MaxPerRel = 0
  MaxSwitches = 0
  MaxCrashes = 0
  Alice = Alice
  Bob = Bob
  Nodes = {Alice, Bob}
  Writers = {Bob}
  Wipers = {Alice}
  AliceQuota = 2
  BobQuota = 1
  Quota <- MCQuota
  MaxEdits = 1
  MaxLapses = 0
  MaxPrunes = 0
  FileSizes = {}
  HintSizes = {}
  Captions = {}
INVARIANTS
  CutSparesNew
CHECK_DEADLOCK FALSE
