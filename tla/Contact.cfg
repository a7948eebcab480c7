CONSTANTS
  Accepters = {a1, a2}
  MaxOffers = 2
  MaxRequests = 1
  MaxRelationships = 1
  MaxMishaps = 1
  MaxClosing = 2
SYMMETRY Symmetry
SPECIFICATION MCSpec
INVARIANTS OfferIsWhole OpenIsInvited   
PROPERTIES CloseIsTold
CHECK_DEADLOCK FALSE
