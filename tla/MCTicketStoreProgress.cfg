SPECIFICATION FairSpec
CONSTANTS
  TicketIds = {t1}
  Customers = {c1}
  Agents = {a1}
  Fields = {title}
  Requests = {r1, r2, r3}
  PoolSize = 2
  Original = Original
  Nobody = Nobody
  NoCall = NoCall
PROPERTY EveryRequestAnswered
CHECK_DEADLOCK FALSE
