SPECIFICATION VaultSpec
CONSTANTS
  Big = Big
  Drops = {d1, d2}
  Size <- MCSize
  MaxFiles = 2
  MaxBytes = 160
  Deks = {k1}
  Stores = {k1}
  MaxCrashes = 0
  MaxFaults = 1
  MaxWipes = 0
INVARIANTS
  LossIsLoud
