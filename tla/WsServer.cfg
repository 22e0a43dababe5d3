SPECIFICATION Spec
CONSTANTS
  c1 = c1
  c2 = c2
  r1 = r1
  r2 = r2
  dom = dom
  uuid = uuid
  ip1 = ip1
  ip2 = ip2
  path = path
  alice = alice
  bob = bob
  tok = tok
  NoAuth = NoAuth
  None = None
  NoCn = NoCn
  BadPath = BadPath
  NoTunnel = NoTunnel
  Unlimited = Unlimited
  Resolver = TRUE
  SetupNames <- MCSetupNames
  SetupOf <- MCSetupOf
  Uuids <- MCUuids
  Endpoints <- MCEndpoints
  Cns <- MCCns
  Domains <- MCDomains
  Ips <- MCIps
  Ports <- MCPorts
  Paths <- MCPaths
INVARIANTS TunnelAsGranted WhitelistExact
CHECK_DEADLOCK FALSE
