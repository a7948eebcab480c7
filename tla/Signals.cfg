SPECIFICATION MCSpec
CONSTANTS
  TypingTtl = 5
  SendInterval = 3
  PresenceTtl = 2
  Latency = 1
  MaxSends = 3
  MaxTurns = 1
  Keys = {k1, k2}
  Capacity = 3
  Refill = 2
  MaxClock = 3
INVARIANTS
  GrantsBounded
  NoFlicker
  ProfileConverges
PROPERTIES
  IndicatorsFade
