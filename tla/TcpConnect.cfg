SPECIFICATION Spec
CONSTANTS
  MaxAddrs = 3
  Resolvers = {"System", "PreferV6", "PreferV4"}
  ConnectTimeout = 2
  LogsDebug = TRUE
  Routes = {"direct", "udp", "waits", "speaks"}
  MaxHead = 3
  MaxReply = 5
  MaxTime = 8
INVARIANTS FailsOnlyIfAllFailed ReturnsInTime DestinationBytesKept
CHECK_DEADLOCK FALSE
