SPECIFICATION MCSpec
CONSTANTS
  Dests = {d1, d2}
  Calls = {1, 2, 3}
  Workers = {1, 2, 3}
  MaxLiveSessions = 1
  MaxConnectFails = 2
  MaxWriteRetries = 2
  QueueRoom = 2
  MaxFlips = 2
  Payloads = {253, 254, 32765}
  Conns = {1, 2}
  MaxConnections = 2
  MaxConnPackets = 2
  RingCapacity = 2
  MaxReads = 4
  MaxFloods = 1
  Cmds = {1, 2, 3}
  Shapes <- MCShapes
  MaxEvents = 1
  Big = Big
  Drops = {p1, p2, Big}
  Size <- MCSize
  MaxFiles = 2
  MaxBytes = 150
  Deks = {k1, k2}
  Stores = {"absent", "plain"}
  MaxCrashes = 1
  MaxFaults = 1
  MaxWipes = 1
SYMMETRY MCSymmetry
INVARIANTS
  KillStopsAfterOneBatch
  NoCallerForgotten
  ArrivesOnce
  ReplyIsOwn
  KeptUntilUnlock
  
  
CHECK_DEADLOCK FALSE
