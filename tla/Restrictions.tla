---------------------------- MODULE Restrictions ----------------------------
(***************************************************************************)
(* The restriction rules of the server and how a tunnel is checked against *)
(* them (wstunnel/src/restrictions, wstunnel/src/tunnel/server/utils.rs).  *)
(*                                                                         *)
(* A regular expression is the set of names it matches, a network the set  *)
(* of addresses in it, a port range a pair of its two bounds.              *)
(***************************************************************************)
EXTENDS Naturals, Sequences, Functions

CONSTANTS
  Domains, Ips,  \* hosts of a tunnel: names, and addresses
  Ports,
  NoAuth,        \* a request without Authorization header
  Paths,         \* unix socket paths
  None           \* no restriction

ASSUME RestrictionsAssumption ==
  /\ Domains \cap Ips = {}
  /\ Ports \subseteq 0 .. 65535

-----------------------------------------------------------------------------
(***************************************************************************)
(* Protocols                                                               *)
(***************************************************************************)

ReverseTunnelConfigProtocol ==
  [ReverseTcp |-> "Tcp", ReverseUdp |-> "Udp", ReverseSocks5 |-> "Socks5",
   ReverseUnix |-> "Unix", ReverseHttpProxy |-> "HttpProxy"]
TunnelConfigProtocol == [Tcp |-> "Tcp", Udp |-> "Udp"]

is_reverse_tunnel(p) == p \in DOMAIN ReverseTunnelConfigProtocol
is_dynamic_reverse_tunnel(p) == p \in {"ReverseSocks5", "ReverseHttpProxy"}

\* The From conversions: what a rule cannot name is Unknown.
ConfigProtocol(map, p) == IF p \in DOMAIN map THEN map[p] ELSE "Unknown"

-----------------------------------------------------------------------------
(***************************************************************************)
(* The rules that can be read from a file                                  *)
(***************************************************************************)

\* A range has two bounds, in any order, or the same port twice.
PortRanges(ranges) == \A range \in ranges : \A n \in {1, 2} : range[n] \in 0 .. 65535

\* Every requested port is mapped to one port at most.
PortMapping(mapping) ==
  DOMAIN mapping \cup Range(mapping) \subseteq 0 .. 65535

AllowTunnelConfig(allow) ==
  /\ allow.protocol \subseteq Range(TunnelConfigProtocol) \cup {"Unknown"}
  /\ PortRanges(allow.port)
  /\ allow.host \subseteq Domains /\ allow.cidr \subseteq Ips

AllowReverseTunnelConfig(allow) ==
  /\ allow.protocol \subseteq Range(ReverseTunnelConfigProtocol) \cup {"Unknown"}
  /\ PortRanges(allow.port) /\ PortMapping(allow.port_mapping)
  /\ allow.cidr \subseteq Ips /\ allow.unix_path \subseteq Paths

non_empty(list) == list # {}

\* There is no restriction without a matcher; one that allows nothing is fine.
RestrictionConfig(restriction) ==
  /\ non_empty(restriction.match)
  /\ \A m \in restriction.match : m.kind \in {"Any", "PathPrefix", "Authorization"}
  /\ \A allow \in Range(restriction.allow) :
       \/ allow.kind = "Tunnel" /\ AllowTunnelConfig(allow)
       \/ allow.kind = "ReverseTunnel" /\ AllowReverseTunnelConfig(allow)

-----------------------------------------------------------------------------
(***************************************************************************)
(* One entry of an allow list                                              *)
(***************************************************************************)

PortAllowed(allow, port) ==
  allow.port = {} \/ \E range \in allow.port : port \in range[1] .. range[2]

AllowReverseTunnel_is_allowed(allow, remote) ==
  /\ is_reverse_tunnel(remote.protocol)
  /\ IF remote.protocol = "ReverseUnix"
     THEN remote.path \in allow.unix_path
     ELSE /\ PortAllowed(allow, remote.port)
          /\ \/ allow.protocol = {}
             \/ ConfigProtocol(ReverseTunnelConfigProtocol, remote.protocol)
                  \in allow.protocol
          /\ remote.host \in allow.cidr

AllowTunnel_is_allowed(allow, remote) ==
  /\ ~is_reverse_tunnel(remote.protocol)
  /\ PortAllowed(allow, remote.port)
  /\ \/ allow.protocol = {}
     \/ ConfigProtocol(TunnelConfigProtocol, remote.protocol) \in allow.protocol
  /\ remote.host \in IF remote.host \in Domains THEN allow.host ELSE allow.cidr

is_allowed(allow, remote) ==
  CASE allow.kind = "ReverseTunnel" -> AllowReverseTunnel_is_allowed(allow, remote)
    [] allow.kind = "Tunnel" -> AllowTunnel_is_allowed(allow, remote)

-----------------------------------------------------------------------------
(***************************************************************************)
(* Restrictions                                                            *)
(***************************************************************************)

MatchHolds(m, prefix, auth) ==
  CASE m.kind = "Any" -> TRUE
    [] m.kind = "PathPrefix" -> prefix \in m.regex
    [] m.kind = "Authorization" -> auth # NoAuth /\ auth \in m.regex

\* Mutant of filter: one matcher is enough.
filterAny(restriction, prefix, auth) ==
  \E m \in restriction.match : MatchHolds(m, prefix, auth)

filter(restriction, prefix, auth) ==
  \A m \in restriction.match : MatchHolds(m, prefix, auth)

Matches(restriction, remote, prefix, auth) ==
  /\ filter(restriction, prefix, auth)
  /\ \E i \in DOMAIN restriction.allow : is_allowed(restriction.allow[i], remote)

\* The first restriction that matches.
validate_tunnel(remote, prefix, auth, restrictions) ==
  LET found == {i \in DOMAIN restrictions :
                  Matches(restrictions[i], remote, prefix, auth)}
  IN  IF found = {} THEN None
      ELSE restrictions[CHOOSE i \in found : \A j \in found : i <= j]

\* The first reverse entry that maps the port, whichever entry it was that
\* allowed the tunnel.
find_mapped_port(port, restriction) ==
  LET maps(a) == a.kind = "ReverseTunnel" /\ port \in DOMAIN a.port_mapping
      entries == SelectSeq(restriction.allow, maps)
  IN  IF entries = << >> THEN port ELSE entries[1].port_mapping[port]

-----------------------------------------------------------------------------
(***************************************************************************)
(* The rules of --restrict-http-upgrade-path-prefix and --restrict-to      *)
(***************************************************************************)

NoMapping == << >>
AllowAnyTunnel ==
  [kind |-> "Tunnel", protocol |-> {}, port |-> {}, host |-> Domains, cidr |-> Ips]
AllowAnyReverse ==
  [kind |-> "ReverseTunnel", protocol |-> {}, port |-> {},
   port_mapping |-> NoMapping, cidr |-> Ips, unix_path |-> Paths]

\* A destination given as an address is a network of one, and matches no name.
RestrictTo(dest) ==
  [kind |-> "Tunnel", protocol |-> {}, port |-> {<<dest[2], dest[2]>>},
   host |-> {dest[1]} \cap Domains, cidr |-> {dest[1]} \cap Ips]

from_path_prefix(path_prefixes, restrict_to) ==
  LET allow == IF restrict_to = << >> THEN <<AllowAnyTunnel, AllowAnyReverse>>
               ELSE [i \in DOMAIN restrict_to |-> RestrictTo(restrict_to[i])]
  IN  IF path_prefixes = << >>
      THEN <<[match |-> {[kind |-> "Any"]}, allow |-> allow]>>
      ELSE [i \in DOMAIN path_prefixes |->
              [match |-> {[kind |-> "PathPrefix", regex |-> {path_prefixes[i]}]},
               allow |-> allow]]
=============================================================================
