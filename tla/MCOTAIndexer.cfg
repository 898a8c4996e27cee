SPECIFICATION FairSpec
CONSTANTS
  w1 = w1
  w2 = w2
  Workers = {w1, w2}
  k1 = k1
  k2 = k2
  Keys = {k1, k2}
  Owner <- SomeOwners
  NoKey = NoKey
  Nobody = Nobody
  Gone = Gone
  Limit = 2
  Window = 1
  Scenarios <- SomeScenarios
CHECK_DEADLOCK FALSE
INVARIANT TypeOK
INVARIANT ScannedIsClaimed
INVARIANT CountIsBacked
INVARIANT CountIsExact
INVARIANT NoPassWhilePaused
PROPERTY AllClaimed
