SPECIFICATION Spec
CONSTANTS
  r1 = r1
  r2 = r2
  Requests <- MCRequests
  topic <- MCTopic
  Webhooks = {w1, w2}
  PoolSize = 2
INVARIANTS
  AttemptsAreLogged
CHECK_DEADLOCK FALSE
