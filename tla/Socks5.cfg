SPECIFICATION FairSpec
CONSTANTS
  c1 = c1
  c2 = c2
  k1 = k1
  k2 = k2
  NoClient = NoClient
  NoStream = NoStream
  Clients = {c1}
  Keys = {k1, k2}
  HasTimeout = TRUE
  QueueCapacity = 1
  MaxDatagrams = 3
INVARIANTS LiveStreamRegistered
PROPERTIES OnlyTwoStalls
CHECK_DEADLOCK FALSE
