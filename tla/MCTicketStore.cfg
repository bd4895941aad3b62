SPECIFICATION Spec
CONSTANTS
  TicketIds = {t1}
  Customers = {c1, c2}
  Agents = {a1}
  Fields = {title, priority}
  Requests = {r1, r2, r3}
  PoolSize = 3
  Original = Original
  Nobody = Nobody
  NoCall = NoCall
SYMMETRY Interchangeable
INVARIANTS
  TypeOK
  JudgedOnCurrentRow
  OneWinner
  ReportedChangeMovesForward
  StatusChangeKeepsItsRow
  CommentsHaveTickets
  InductiveInvariant
PROPERTY ImplementsLifecycle
CHECK_DEADLOCK FALSE
