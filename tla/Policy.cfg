SPECIFICATION MCSpec
CONSTANTS
  Alice = Alice
  Bob = Bob
  Nodes = {Alice, Bob}
  MaxCrashes = 1
  Ttls = {0, 1, 2}
  Requests = {0, 1, 2, 3}
  DefaultTtl = 2
  MaxProposals = 2
  MaxNow = 3
  Caps = {"attach", "typing"}
  CapIds = {"attach", "typing", "other"}
  Attach = "attach"
  MaxSets = 3
  MaxSyncs = 2
  MaxHeads = 1
SYMMETRY Swap
INVARIANTS
  RuleWasAgreed
  ExpiryWithinTtl
  AcceptIsOnItsWay
  OneToDisable
  
CHECK_DEADLOCK FALSE
