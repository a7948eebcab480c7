SPECIFICATION Spec
CONSTANTS
  Alice = Alice
  Bob = Bob
  Nodes = {Alice, Bob}
  Talkers = {Alice}
  MaxSeq = 2
  MaxEvents = 3
  AliceQuota = 2
  BobQuota = 1
  Quota <- MCQuota
  BitmapBits = 4
  ScanLimit = 8
  MaxCrashes = 0
  MaxSweeps = 1
PROPERTIES
  NeverSilentlyDropped
CHECK_DEADLOCK FALSE
