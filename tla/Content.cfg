SPECIFICATION MCSpec
CONSTANTS
  Photo = Photo
  Clip = Clip
  Note = Note
  Heads = {Photo, Clip, Note}
  ChunkCount <- MCChunkCount
  Damaged = {Clip}
  ViewOnce = {Photo, Note}
  Recalled = {Photo}
  MaxPerHead = 2
  MaxPerRel = 3
  MaxSwitches = 2
  MaxCrashes = 1
  Alice = Alice
  Bob = Bob
  Nodes = {Alice, Bob}
  Writers = {Alice, Bob}
  Wipers = {Alice, Bob}
  AliceQuota = 4
  BobQuota = 2
  Quota <- MCQuota
  MaxEdits = 2
  MaxLapses = 1
  MaxPrunes = 1
  FileSizes <- MCFileSizes
  HintSizes <- MCHintSizes
  Captions <- MCCaptions
INVARIANTS
  ShownIsWhole
  
  CompletesInEitherOrder
  DeletedStaysDeleted
  EditsConverge
  WipeIsExact
  HeadIsRead
CHECK_DEADLOCK FALSE
