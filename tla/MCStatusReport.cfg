SPECIFICATION Spec
CONSTANTS
  TicketIds = {t1}
  Customers = {c1}
  Agents = {a1}
  Fields = {title}
  Requests = {r1, r2}
  PoolSize = 2
  Original = Original
  Nobody = Nobody
  NoCall = NoCall
SYMMETRY Interchangeable
INVARIANT ReportedChangeIsOneTransition
CHECK_DEADLOCK FALSE
