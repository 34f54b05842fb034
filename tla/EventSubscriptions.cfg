\* Two API objects, two threads of the application, two Executor threads.
SPECIFICATION FairSpec
CONSTANTS
  Apis = {inbox, thread}
  Threads = {t1, t2}
  Queries = {p, q}
  Workers = {w1, w2}
  MaxIds = 2
  MaxEvents = 1
INVARIANTS
  RegisteredInv
  AtMostOnce
PROPERTIES
  NoStrayEvent
  EventDelivered
CHECK_DEADLOCK FALSE
