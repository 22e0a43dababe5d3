SPECIFICATION FairSpec
CONSTANTS
  c1 = c1
  c2 = c2
  Clients = {c1, c2}
  Requests <- AnyAndPlain
INVARIANTS ForwardedAsAsked NothingLostOrAdded
PROPERTIES RequestsDecided
CHECK_DEADLOCK FALSE
