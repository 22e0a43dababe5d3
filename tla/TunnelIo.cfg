SPECIFICATION FairSpec
CONSTANTS
  MaxInFlightPing = 1
  PendingOpsCapacity = 4
  UsizeMax = 3
  WireCapacity = 1
  MaxChunks <- Traffic
  Transports = {"Plain", "Tls", "Http2"}
  PingEnabled = {"client"}
INVARIANTS NoLostWakeup PingCounterSound PingAccounting PendingNeverFull
PROPERTIES TunnelIsPipe SilentPeerDetected TunnelTerminates
