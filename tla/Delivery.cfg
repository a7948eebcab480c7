SPECIFICATION MCSpec
CONSTANTS
  Alice = Alice
  Bob = Bob
  Nodes = {Alice, Bob}
  Talkers = {Alice}
  MaxSeq = 3
  MaxEvents = 3
  AliceQuota = 3
  BobQuota = 1
  Quota <- MCQuota
  BitmapBits = 2
  ScanLimit = 2
  MaxCrashes = 1
  MaxSweeps = 1

  
PROPERTIES
  SeqNamesOneEnvelope
  SettledStays
  ImplementsChannel
  QueuedMovesOn
CHECK_DEADLOCK FALSE
