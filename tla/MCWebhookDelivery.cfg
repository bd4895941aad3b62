SPECIFICATION FairSpec
CONSTANTS
  r1 = r1
  r2 = r2
  Requests <- MCRequests
  topic <- MCTopic
  Webhooks = {w1, w2}
  PoolSize = 2
INVARIANTS
  TypeOK
  NothingToTheDeactivated
  InductiveInvariant
PROPERTIES
  ImplementsPromise
  EveryTargetTried
  AnsweredRequestsEnd
CHECK_DEADLOCK FALSE
