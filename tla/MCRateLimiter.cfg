SPECIFICATION FairSpec
CONSTANTS
  Limit = 2
  WindowSeconds = 3
  Second = 4
  Allowed = Allowed
  MaxLosses = 2
INVARIANTS
  TypeOK
  AtMostTwiceTheLimit
  WaitingIsEnough
  InductiveInvariant
PROPERTIES
  RefusedOnlyOverLimit
  NeverBlockedForever
