SPECIFICATION FairSpec
CONSTANTS
  p1 = p1
  p2 = p2
  NoStream = NoStream
  Peers = {p1, p2}
  HasTimeout = TRUE
  SocketCapacity = 2
  MaxDatagrams = 4
  MaxDrops = 1
INVARIANTS ReadsOwnDatagram OpenIsRegistered
PROPERTIES HeadIsTaken LeftBehindStreamsEnd
CHECK_DEADLOCK FALSE
