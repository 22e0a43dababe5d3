SPECIFICATION FairSpec
CONSTANTS
  r1 = r1
  r2 = r2
  addr = addr
  NoServer = NoServer
  Requests = {r1, r2}
  Addrs = {addr}
  BindAddr <- OneAddr
  Exclusive = FALSE
  QueueCapacity = 1
  MaxCnx = 3
INVARIANTS MapFollowsListeners
PROPERTIES IdleStopSparesWaiting IdleListenerStops NoRequestStranded
CHECK_DEADLOCK FALSE
