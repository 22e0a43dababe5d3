----------------------------- MODULE MCWsServer -----------------------------
(* The instance of WsServer for TLC: two requests of every kind the handler *)
(* tells apart while the rules change, over TLS on one connection and plain *)
(* on two; and one request under every pair of small rules, and under rules *)
(* made from the command line.                                              *)
EXTENDS WsServer, TLC

CONSTANTS c1, c2, r1, r2, dom, uuid, ip1, ip2, path, alice, bob, tok

MCDomains == {dom, uuid}
MCUuids == {uuid}
MCIps == {ip1, ip2}
MCPorts == {80, 81, 90}
MCPaths == {path}

Remote(protocol, host, port) ==
  [protocol |-> protocol, host |-> host, port |-> port, path |-> path]

Request(remote, prefix, http2) ==
  [remote |-> remote, prefix |-> prefix, http2 |-> http2, upgrade |-> ~http2,
   jwt |-> TRUE, auth |-> NoAuth]

Kinds ==
  {Request(m, p, h) : p \in {alice, bob}, h \in BOOLEAN,
     m \in {Remote("Tcp", dom, 80), Remote("TunnelStdio", uuid, 80),
            Remote("ReverseTcp", ip1, 80)}}
  \cup {Request(Remote("ReverseSocks5", ip2, 80), alice, TRUE),
        Request(Remote("TunnelStdio", dom, 80), alice, FALSE),
        Request(Remote("Udp", ip2, 90), alice, TRUE),
        [Request(Remote("Tcp", dom, 80), bob, FALSE) EXCEPT !.upgrade = FALSE],
        [Request(Remote("Tcp", dom, 80), bob, FALSE) EXCEPT !.jwt = FALSE],
        [Request(Remote("Tcp", dom, 80), alice, TRUE) EXCEPT !.prefix = BadPath]}

Rule(prefixes, allow) ==
  [match |-> {[kind |-> "PathPrefix", regex |-> prefixes]}, allow |-> allow]
Forward(ports, hosts, ips) ==
  [kind |-> "Tunnel", protocol |-> {}, port |-> ports, host |-> hosts, cidr |-> ips]
ReverseAll(mapping) ==
  [kind |-> "ReverseTunnel", protocol |-> {}, port |-> {}, port_mapping |-> mapping,
   cidr |-> {ip1, ip2}, unix_path |-> {}]

Versions ==
  << <<Rule({alice, bob}, <<Forward({<<80, 81>>}, {dom}, {ip1}), ReverseAll(80 :> 90)>>)>>,
     <<Rule({alice}, <<Forward({<<90, 90>>}, {}, {ip1, ip2}), ReverseAll(80 :> 81)>>),
       Rule({bob}, <<Forward({<<81, 81>>}, {}, {ip2})>>)>>,
     << >> >>

MCEndpoints ==
  [host : {ip1, ip2}, port : {81, 90}, up : {1, Unlimited}, down : {Unlimited}]
    \cup [host : {ip1}, port : {81}, up : {1}, down : {2}]
MCCns == {alice, bob}

Matchers ==
  << {[kind |-> "Any"]},
    {[kind |-> "PathPrefix", regex |-> {alice}]},
    {[kind |-> "PathPrefix", regex |-> {alice, bob}],
     [kind |-> "Authorization", regex |-> {tok}]} >>

Entries ==
  << [kind |-> "Tunnel", protocol |-> {"Tcp"}, port |-> {<<80, 81>>},
     host |-> {dom}, cidr |-> {}],
    [kind |-> "Tunnel", protocol |-> {}, port |-> {<<90, 80>>, <<90, 90>>},
     host |-> {}, cidr |-> {ip1}],
    [kind |-> "ReverseTunnel", protocol |-> {"Tcp", "Unix"}, port |-> {<<80, 90>>},
     port_mapping |-> (80 :> 90 @@ 81 :> 80), cidr |-> {ip1}, unix_path |-> {}],
    [kind |-> "ReverseTunnel", protocol |-> {}, port |-> {},
     port_mapping |-> (80 :> 81), cidr |-> {ip2}, unix_path |-> {path}],
    \* Example 3 of restrictions.yaml, with the unix_path it has by default.
    [kind |-> "ReverseTunnel", protocol |-> {"Socks5"}, port |-> {<<81, 90>>},
     port_mapping |-> << >>, cidr |-> {ip1}, unix_path |-> {path}] >>

MatchAllow(m, allow) == [match |-> Matchers[m], allow |-> allow]
Prefixes == << << >>, <<alice>>, <<alice, bob>> >>
Destinations == << << >>, <<<<dom, 80>>>>, <<<<ip1, 81>>, <<dom, 90>>>> >>

Remotes ==
  {Remote(p, h, n) : p \in {"Tcp", "ReverseTcp"}, h \in {dom, ip1, ip2}, n \in MCPorts}
    \cup {Remote("ReverseUnix", ip1, 80), Remote("Socks5", ip1, 90),
          Remote("ReverseSocks5", ip1, 81)}
Asked ==
  {[Request(m, p[1], FALSE) EXCEPT !.auth = p[2]] :
     m \in Remotes, p \in {<<alice, NoAuth>>, <<alice, tok>>, <<bob, tok>>}}

FewKinds ==
  {k \in Kinds : k.prefix = alice /\ k.remote.host # dom} \cup
  {[Request(Remote("Tcp", dom, 80), bob, FALSE) EXCEPT !.upgrade = FALSE]}

TlsServer ==
  [tls |-> TRUE, http_proxy |-> FALSE, rules |-> "file", versions |-> Versions,
   conn_of |-> (r1 :> c1 @@ r2 :> c1), kinds |-> Kinds]
PlainServer ==
  [tls |-> FALSE, http_proxy |-> TRUE, rules |-> "file", versions |-> Versions,
   conn_of |-> (r1 :> c1 @@ r2 :> c2), kinds |-> FewKinds]
FileServer(rs) ==
  [tls |-> FALSE, http_proxy |-> FALSE, rules |-> "file", versions |-> <<rs>>,
   conn_of |-> (r1 :> c1), kinds |-> Asked]
CliServer(ps, ds) ==
  [tls |-> FALSE, http_proxy |-> FALSE, rules |-> "cli", prefixes |-> ps,
   restrict_to |-> ds, conn_of |-> (r1 :> c1), kinds |-> Asked]

\* Two requests; one rule with two entries; two rules; the command line.
MCSetupNames ==
  LET M == DOMAIN Matchers
      E == DOMAIN Entries
  IN  {<<"tls">>, <<"plain">>}
        \cup {<<"one", m, a, b>> : m \in M, a, b \in E}
        \cup {<<"two", m, a, n, b>> : m, n \in M, a, b \in E}
        \cup {<<"cli", p, d>> : p \in DOMAIN Prefixes, d \in DOMAIN Destinations}

MCSetupOf(name) ==
  CASE name[1] = "tls" -> TlsServer
    [] name[1] = "plain" -> PlainServer
    [] name[1] = "one" ->
         FileServer(<<MatchAllow(name[2], <<Entries[name[3]], Entries[name[4]]>>)>>)
    [] name[1] = "two" ->
         FileServer(<<MatchAllow(name[2], <<Entries[name[3]]>>),
                      MatchAllow(name[4], <<Entries[name[5]]>>)>>)
    [] name[1] = "cli" -> CliServer(Prefixes[name[2]], Destinations[name[3]])
=============================================================================
