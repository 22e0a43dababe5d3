SPECIFICATION FairSpec
CONSTANTS
  f1 = f1
  f2 = f2
  Rev = Rev
  NoCnx = NoCnx
  Fwd = {f1, f2}
  MaxSlots = 4
  MinIdle = 1
  MaxBackoff = 4
  BadRequests = {f1}
  MaxCrashes = 1
  MaxLosses = 1
INVARIANTS StreamTakenOnce BackoffExact
PROPERTIES ReverseTunnelReturns EverybodyGetsTunnel
CHECK_DEADLOCK FALSE
