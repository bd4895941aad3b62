SPECIFICATION FairSpec
CONSTANTS
  Sockets = {s1, s2}
  h1 = h1
  h2 = h2
  t1 = t1
  t2 = t2
  Handlers <- MCHandlers
  Tickets <- MCTickets
  about <- MCAbout
  Dashboard = Dashboard
INVARIANTS
  TypeOK
  WorkingSocketsStayRegistered
  RegistryIsTidy
  EverySubscriberHears
  EventsStayInTheirChannels
  NoEventTwice
  InductiveInvariant
PROPERTIES
  HandlersFinish
CHECK_DEADLOCK FALSE
