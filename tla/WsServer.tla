------------------------------ MODULE WsServer ------------------------------
(***************************************************************************)
(* The server from an accepted connection to an open tunnel                *)
(* (wstunnel/src/tunnel/server/server.rs, handler_websocket.rs,            *)
(* handler_http2.rs): which handler a request reaches, under which rules   *)
(* it is judged, the tunnel id that is resolved on the way, the tunnel     *)
(* that is opened and the response.  Rules are replaced while requests     *)
(* wait (Reloader); what happens in the tunnel is TunnelIo, what happens   *)
(* to a reverse tunnel's listener is ReverseTunnelServer.                  *)
(*                                                                         *)
(* External: hyper and rustls (which request arrives on which connection,  *)
(* futures dropped when the connection ends), the resolver's answers and   *)
(* the outcome of connecting or binding.                                   *)
(***************************************************************************)
EXTENDS Restrictions

CONSTANTS
  SetupNames,
  SetupOf(_),   \* the named servers, and the requests they get:
                \*   tls         it speaks TLS
                \*   http_proxy  it connects through an HTTP proxy
                \*   rules       where its rules come from: "file" or "cli"
                \*   versions    the contents of the file, one after the other
                \*   prefixes, restrict_to  the arguments of the command line
                \*   conn_of     the connection of each request
                \*   kinds       what a request may ask for
  Resolver,     \* TRUE if the server has a tunnel resolver
  Uuids,        \* the domains that are tunnel ids
  Endpoints,    \* what the resolver may answer: [host, port, up, down]
  Cns,          \* common names of client certificates
  NoCn,         \* no client certificate
  BadPath,      \* the prefix of a path that has none
  NoTunnel,     \* no tunnel is open
  Unlimited     \* no rate limit

ASSUME WsServerAssumption ==
  /\ \A n \in SetupNames :
       \/ SetupOf(n).rules = "cli"
       \/ /\ SetupOf(n).rules = "file"
          /\ \A restrictions \in Range(SetupOf(n).versions) :
               \A i \in DOMAIN restrictions : RestrictionConfig(restrictions[i])
  /\ Resolver \in BOOLEAN
  /\ Uuids \subseteq Domains

VARIABLES
  setup,   \* the name of the one this is
  rules,   \* number of the rules behind the ArcSwap
  conn,    \* [Conns -> control point, ALPN protocol, certificate name]
  req,     \* [Reqs -> what the request asks for]
  pc,      \* control point of each request
  snap,    \* the rules a request loaded
  target,  \* the remote address of a request, resolved or as asked for
  limits,  \* rate limits of the resolved endpoint
  opened,  \* the tunnel opened for a request
  arrived  \* the rules in force when the request arrived

vars == <<setup, rules, conn, req, pc, snap, target, limits, opened, arrived>>

Setup == SetupOf(setup)
Reqs == DOMAIN Setup.conn_of
ConnOf == Setup.conn_of
Conns == Range(ConnOf)
Tls == Setup.tls
HttpProxy == Setup.http_proxy

\* The rules in the order they come into force: run_server_impl takes those
\* of the file, or makes them from the command line.
RulesVersions ==
  IF Setup.rules = "file" THEN Setup.versions
  ELSE <<from_path_prefix(Setup.prefixes, Setup.restrict_to)>>

NoLimits == [up |-> Unlimited, down |-> Unlimited]

Init ==
  /\ setup \in SetupNames
  /\ rules = 1
  /\ conn = [c \in Conns |-> [at |-> "none", h2 |-> FALSE, cn |-> NoCn]]
  /\ req \in [Reqs -> Setup.kinds]
  /\ pc = [r \in Reqs |-> "idle"]
  /\ snap = [r \in Reqs |-> 0]
  /\ target = [r \in Reqs |-> req[r].remote]
  /\ limits = [r \in Reqs |-> NoLimits]
  /\ opened = [r \in Reqs |-> NoTunnel]
  /\ arrived = [r \in Reqs |-> 0]

-----------------------------------------------------------------------------
\* restrictions.store() of the reloader.
ReloadRules ==
  /\ rules < Len(RulesVersions)
  /\ rules' = rules + 1
  /\ UNCHANGED <<setup, conn, req, pc, snap, target, limits, opened, arrived>>

\* The accept loop.  A plain connection is served at once, in the version of
\* HTTP it begins with.
AcceptConnection(c) ==
  /\ conn[c].at = "none"
  /\ IF Tls
     THEN conn' = [conn EXCEPT ![c].at = "handshake"]
     ELSE \E h2 \in BOOLEAN :
            conn' = [conn EXCEPT ![c] = [at |-> "open", h2 |-> h2, cn |-> NoCn]]
  /\ UNCHANGED <<setup, rules, req, pc, snap, target, limits, opened, arrived>>

\* tls_acceptor.accept(): the protocol and the client's certificate are known.
TlsHandshake(c) ==
  /\ conn[c].at = "handshake"
  /\ \/ \E h2 \in BOOLEAN, cn \in Cns \cup {NoCn} :
          conn' = [conn EXCEPT ![c] = [at |-> "open", h2 |-> h2, cn |-> cn]]
     \/ conn' = [conn EXCEPT ![c].at = "closed"]
  /\ UNCHANGED <<setup, rules, req, pc, snap, target, limits, opened, arrived>>

-----------------------------------------------------------------------------
InFlight(r) == pc[r] \in {"resolve", "exec", "wrap"}

\* HTTP/2 requests share a connection; HTTP/1 requests follow each other
\* until one of them turns the connection into a tunnel.
Delivers(c, r) ==
  /\ ConnOf[r] = c
  /\ conn[c].at = "open"
  /\ conn[c].h2 = req[r].http2
  /\ req[r].http2 \/ \A q \in Reqs :
       ConnOf[q] = c => ~InFlight(q) /\ opened[q] = NoTunnel

\* The closures of serve: TLS goes by the protocol of the connection, plain
\* HTTP by the request.
Dispatched(r) == req[r].upgrade \/ req[r].http2

\* The path is /prefix/events; the prefix is what stands before.
extract_path_prefix(r) == req[r].prefix

\* A header, or a cookie, holds a token that can be decoded.
extract_tunnel_info(r) == req[r].jwt

\* The checks of handle_tunnel_request before its first await.
WellFormed(r) ==
  LET cn == conn[ConnOf[r]].cn IN
    /\ extract_path_prefix(r) # BadPath
    /\ cn # NoCn => extract_path_prefix(r) = cn
    /\ extract_tunnel_info(r)
    /\ req[r].remote.protocol = "TunnelStdio" => req[r].remote.host \in Uuids /\ Resolver

Restriction(version, r, remote) ==
  validate_tunnel(remote, req[r].prefix, req[r].auth, RulesVersions[version])

\* ws_server_upgrade or http_server_upgrade begins: the rules are loaded, and
\* the request runs to its first await.
ReceiveRequest(r) ==
  /\ pc[r] = "idle"
  /\ Delivers(ConnOf[r], r)
  /\ arrived' = [arrived EXCEPT ![r] = rules]
  /\ snap' = [snap EXCEPT ![r] = rules]
  /\ pc' = [pc EXCEPT ![r] =
       IF ~Dispatched(r) \/ ~WellFormed(r) THEN "rejected"
       ELSE IF req[r].remote.protocol = "TunnelStdio" THEN "resolve"
       ELSE IF Restriction(rules, r, req[r].remote) # None THEN "exec"
       ELSE "denied"]
  /\ UNCHANGED <<setup, rules, conn, req, target, limits, opened>>

\* Mutant of Resolve: the endpoint is not checked against the rules.
ResolveUnchecked(r) ==
  /\ pc[r] = "resolve"
  /\ \E e \in Endpoints :
       /\ target' = [target EXCEPT ![r].protocol = "Tcp", ![r].host = e.host,
                                   ![r].port = e.port]
       /\ limits' = [limits EXCEPT ![r] = [up |-> e.up, down |-> e.down]]
  /\ pc' = [pc EXCEPT ![r] = "exec"]
  /\ UNCHANGED <<setup, rules, conn, req, snap, opened, arrived>>

\* resolve_tunnel_over_http answers: the tunnel becomes a TCP tunnel to the
\* endpoint, and that is what is checked against the rules.
Resolve(r) ==
  /\ pc[r] = "resolve"
  /\ \/ \E e \in Endpoints :
          /\ target' = [target EXCEPT ![r].protocol = "Tcp", ![r].host = e.host,
                                      ![r].port = e.port]
          /\ limits' = [limits EXCEPT ![r] = [up |-> e.up, down |-> e.down]]
          /\ pc' = [pc EXCEPT ![r] =
               IF Restriction(snap[r], r, target'[r]) # None THEN "exec" ELSE "denied"]
     \/ pc' = [pc EXCEPT ![r] = "rejected"] /\ UNCHANGED <<target, limits>>
  /\ UNCHANGED <<setup, rules, conn, req, snap, opened, arrived>>

\* exec_tunnel knows these protocols, and has no UDP over an HTTP proxy.
Supported(protocol) ==
  \/ is_reverse_tunnel(protocol)
  \/ protocol = "Tcp"
  \/ protocol = "Udp" /\ ~HttpProxy

\* The address connected to, or listened on.
Dialled(r) ==
  LET t == target[r] IN
    IF is_reverse_tunnel(t.protocol) /\ t.protocol # "ReverseUnix"
    THEN [t EXCEPT !.port = find_mapped_port(t.port, Restriction(snap[r], r, t))]
    ELSE t

Open(r, limited) ==
  /\ pc' = [pc EXCEPT ![r] = "tunnel"]
  /\ opened' = [opened EXCEPT ![r] = [to |-> Dialled(r), limited |-> limited]]

\* The end of ws_server_upgrade: the upgrade can still be refused; then the
\* tasks of the tunnel are spawned and the response is sent.
ws_respond(r, limited) ==
  /\ ~req[r].http2
  /\ \/ Open(r, limited)
     \/ pc' = [pc EXCEPT ![r] = "rejected"] /\ UNCHANGED opened

\* The end of http_server_upgrade.
http_respond(r, limited) ==
  /\ req[r].http2
  /\ Open(r, limited)

Respond(r, limited) == ws_respond(r, limited) \/ http_respond(r, limited)

\* exec_tunnel returns: connected, a reverse connection was picked, or an
\* error.  A resolved tunnel with limits waits for the limiter pool.
ExecTunnel(r) ==
  /\ pc[r] = "exec"
  /\ \/ pc' = [pc EXCEPT ![r] = "rejected"] /\ UNCHANGED opened
     \/ /\ Supported(target[r].protocol)
        /\ IF limits[r] # NoLimits
           THEN pc' = [pc EXCEPT ![r] = "wrap"] /\ UNCHANGED opened
           ELSE Respond(r, FALSE)
  /\ UNCHANGED <<setup, rules, conn, req, snap, target, limits, arrived>>

\* rate_limiter_pool.wrap() returns.
WrapTunnel(r) ==
  /\ pc[r] = "wrap"
  /\ Respond(r, TRUE)
  /\ UNCHANGED <<setup, rules, conn, req, snap, target, limits, arrived>>

\* The client goes away: the futures of the requests in flight are dropped.
Disconnect(c) ==
  /\ conn[c].at = "open"
  /\ conn' = [conn EXCEPT ![c].at = "closed"]
  /\ pc' = [r \in Reqs |-> IF ConnOf[r] = c /\ InFlight(r) THEN "cancelled" ELSE pc[r]]
  /\ UNCHANGED <<setup, rules, req, snap, target, limits, opened, arrived>>

-----------------------------------------------------------------------------
RequestStep(r) == Resolve(r) \/ ExecTunnel(r) \/ WrapTunnel(r)

Next ==
  \/ ReloadRules
  \/ \E c \in Conns : AcceptConnection(c) \/ TlsHandshake(c) \/ Disconnect(c)
  \/ \E r \in Reqs : ReceiveRequest(r) \/ RequestStep(r)

Spec == Init /\ [][Next]_vars

-----------------------------------------------------------------------------
(***************************************************************************)
(* Properties                                                              *)
(***************************************************************************)

\* Every variable keeps its type.
TypeOK ==
  /\ setup \in SetupNames /\ rules \in DOMAIN RulesVersions
  /\ conn \in [Conns -> [at : {"none", "handshake", "open", "closed"},
                         h2 : BOOLEAN, cn : Cns \cup {NoCn}]]
  /\ req \in [Reqs -> Setup.kinds]
  /\ pc \in [Reqs -> {"idle", "resolve", "exec", "wrap", "tunnel", "rejected",
                      "denied", "cancelled"}]
  /\ \A r \in Reqs : snap[r] \in 0 .. rules /\ arrived[r] \in 0 .. rules
  /\ \A r \in Reqs : pc[r] = "tunnel" <=> opened[r] # NoTunnel

\* The ports the restriction `rule' lets a reverse tunnel listen on that asks
\* for the remote: the requested one unless exactly that port is mapped
\* (restrictions.yaml:53-57).
MappedPorts(rule, remote) ==
  LET maps == {a \in Range(rule.allow) :
                 a.kind = "ReverseTunnel" /\ remote.port \in DOMAIN a.port_mapping}
  IN  IF maps = {} \/ remote.protocol = "ReverseUnix"
      THEN {remote.port} ELSE {a.port_mapping[remote.port] : a \in maps}

\* A tunnel leads only where the rules allow: whatever was resolved, mapped
\* and reloaded on the way, the address it was opened for is one that rules
\* in force at some moment since the request arrived allow to this client,
\* and a mapped port is one these same rules give.  A client with a certificate
\* only gets tunnels under the path prefix that is its common name ("does not
\* match upgrade path restriction"), on every request of its connection.  A tunnel is limited if the resolver limits one direction
\* (README.md:496, 497).
TunnelAsGranted ==
  /\ TypeOK
  /\ \A r \in Reqs : opened[r] # NoTunnel =>
       /\ \E v \in arrived[r] .. rules :
            LET allowedBy == Restriction(v, r, target[r]) IN
              /\ allowedBy # None
              /\ opened[r].to.host = target[r].host
              /\ opened[r].to.port \in IF is_reverse_tunnel(target[r].protocol)
                                       THEN MappedPorts(allowedBy, target[r])
                                       ELSE {target[r].port}
       /\ conn[ConnOf[r]].cn \in {NoCn, req[r].prefix}
       /\ opened[r].limited <=> limits[r] # NoLimits

\* What restrictions.yaml says an allow entry means: the tunnels of the kind,
\* protocols, ports and hosts it lists, an empty list being no limit.
Denotes(allow, remote) ==
  LET reverse == allow.kind = "ReverseTunnel"
      ports == IF allow.port = {} THEN Ports
               ELSE UNION {range[1] .. range[2] : range \in allow.port}
      hosts == IF reverse THEN allow.cidr ELSE allow.cidr \cup allow.host
  IN  /\ is_reverse_tunnel(remote.protocol) = reverse
      /\ allow.protocol # {} =>
           \E name \in allow.protocol :
             remote.protocol = IF reverse THEN "Reverse" \o name ELSE name
      /\ IF remote.protocol = "ReverseUnix" THEN remote.path \in allow.unix_path
         ELSE remote.port \in ports /\ remote.host \in hosts

Accepted(r) == pc[r] \in {"exec", "wrap", "tunnel"}
Judged(r) == Accepted(r) \/ pc[r] = "denied"

\* README.md:297 and 320, "Server will only accept connection from ...": rules
\* made from the command line accept a request exactly if its prefix is one
\* of those given (if any) and, once destinations are given, it is a forward
\* tunnel to one of them; no reverse tunnel is left.  (A reverse tunnel never
\* listens on a name.)
GrantsAsGiven ==
  Setup.rules = "cli" => \A r \in Reqs : Judged(r) =>
    LET reverse == is_reverse_tunnel(target[r].protocol) IN
      Accepted(r) <=>
        /\ Setup.prefixes = << >> \/ req[r].prefix \in Range(Setup.prefixes)
        /\ \/ /\ Setup.restrict_to = << >>
              /\ \/ target[r].protocol = "ReverseUnix"
                 \/ reverse => target[r].host \in Ips
           \/ /\ ~reverse
              /\ <<target[r].host, target[r].port>> \in Range(Setup.restrict_to)

\* Some restriction the request was judged by has all of its matchers satisfied
\* and an allow entry with the property P.
SomeEntry(r, P(_)) ==
  \E rule \in Range(RulesVersions[snap[r]]) :
    /\ \A m \in rule.match :
         m.kind # "Any" =>
           (IF m.kind = "PathPrefix" THEN req[r].prefix ELSE req[r].auth) \in m.regex
    /\ \E allow \in Range(rule.allow) : P(allow)

\* A listed tunnel, the one to the resolved endpoint where there is one.
Listed(r) == SomeEntry(r, LAMBDA allow : Denotes(allow, target[r]))

\* The entry lists other protocols, and only its path lets the socket in.
UnixUnchecked(r) ==
  /\ target[r].protocol = "ReverseUnix"
  /\ SomeEntry(r, LAMBDA allow :
       /\ allow.kind = "ReverseTunnel" /\ target[r].path \in allow.unix_path
       /\ allow.protocol # {} /\ "Unix" \notin allow.protocol)

\* "By default, all requests are denied and only if a restriction match, the
\* request is allowed" (restrictions.yaml:2): a request is accepted exactly if
\* some restriction has all of its matchers satisfied and lists the tunnel;
\* and rules made from the command line grant exactly what they were given.
\* The exception is UnixUnchecked: a reverse tunnel to a unix socket is judged
\* before the protocols are looked at (utils.rs:132).
WhitelistExact ==
  /\ GrantsAsGiven
  /\ \A r \in Reqs : Judged(r) =>
       (Accepted(r) <=> Listed(r) \/ UnixUnchecked(r))
=============================================================================
