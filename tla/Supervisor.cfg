CONSTANTS
  MaxVersions = 2
  MaxRestarts = 1
  MaxFails = 2
  HsFailMin = 1
  MaxFaults = 2

SPECIFICATION FairSpec
CHECK_DEADLOCK FALSE

INVARIANTS
  
  ServedIsHosted

PROPERTIES
  Recovers
