# wstunnel in TLA+

A formal model of wstunnel (the client and server of `wstunnel/`, and the
Kubernetes resolver `tunnel-server/`). The modules are translated from the Rust
source; TLC checks them on small instances, and TLAPS proves for every instance
that a tunnel implements a pipe, the facts about its control frames this rests on,
and safety of six other components: the registry of reverse tunnels, the UDP and
socks5 servers, the client's pool, the reload of certificates and the rate limiter.

    tlc -workers 2 -config TunnelIo.cfg MCTunnelIo   # one run
    tlapm UdpServerProofs.tla                        # one proof, 2 minutes at most;
    tlapm TunnelIoProofs.tla                         # this one takes 20,
    tlapm TunnelPipeProofs.tla                       # and this one 30

`PROJECT.json` lists components, runs, the source lines behind each definition,
a mutant for every property, hazards and theorems.

## 1. The system and its parts

A client accepts local connections (TCP, UDP, socks5, http proxy, unix socket,
stdio), opens for each a connection to the server, sends a tunnel request on it
and copies bytes both ways. The server judges the request by its restriction
rules, connects to the destination and copies too. A *reverse* tunnel turns this
round: the server listens, the client keeps a request waiting and connects to
the target when the server has a connection for it.

| Part | State | Operations | What is hard about it |
|---|---|---|---|
| Tunnel I/O (`transport/io.rs`, `websocket.rs`, `http2.rs`) | two tasks per endpoint, channel of control frames, Notify, ping counter, two oneshots | read, write, ping, drain, close, copy | the reader cannot write and must wake the writer; either task may end at any point; a full transport suspends the writer |
| Reverse listeners (`server/reverse_tunnel.rs`) | map from address to listener, queue, client counter | look up, bind, register, hand over, idle stop, clean up | lookup and insert are two critical sections with an await between; clean-up removes by address |
| UDP listener (`protocols/udp/server.rs`) | streams by peer, dead keys, two Notifys per stream | peek, hand over, read, time out, drop | many streams read one socket, the server waits for one of them |
| Restriction rules (`restrictions/`, `server/utils.rs`) | none | match, validate, map ports | which rule decides; ranges; rules from the command line |
| Reloaders (`config_reloader.rs`, `tls_reloader.rs`) | file, watch, ArcSwap or mutex and flag | event, reload, wait for the file and watch again | two threads reload at once; files are replaced one at a time |
| Server requests (`server/server.rs`, handlers) | connections, requests, rules in force | accept, dispatch, check, resolve, open, respond | rules change and ids are resolved while a request waits |
| Client and pool (`client/`, `connect` of both transports) | tasks, pool slots, back-off | take, replenish, expire, handshake, retry | pooled connections die unnoticed |
| Rate limits (`rate_limiter.rs`) | limiters by tunnel id, tokens, stored sleeps | wrap, poll | a sleep that is not polled wakes nobody; integer widths |
| tunnel-server (`watcher.rs`, `state.rs`, `api.rs`), resolver client | map from id to pod | pod event, lookup | events of several pods with one id; deletions |
| Connect (`tcp/server.rs`, `udp/server.rs`, `dns/resolver.rs`) | one attempt per address, the proxy's answer | race, time out, CONNECT | timers, cancellation, reads that go too far |
| Socks5 (`protocols/socks5/`) | one listener task, streams by key | handshake, datagram, drop | one task serves everybody |
| Http proxy (`protocols/http_proxy/server.rs`) | one task per client in a JoinSet | peek, parse, serve, forward | the request arrives in pieces |
| Start-up (`lib.rs`, `executor.rs`, `listeners/stdio.rs`) | calls, tunnels made and running, tasks of a set | make, run, abort, exit | some tunnels are made and others fail; aborted tasks start new ones; a process that ends with its standard input |
| ssh and scp (`protocols/ssh/`) | two tasks on a terminal; a walk over a tree, a record under way | key, copy, select; record, contents, status | messages cut anywhere; a peer that warns, stops or is lost; no timeouts |
| Commands (`wstunnel-cli/src/main.rs`) | the function called | return | whether it returns |
| Not modelled | | | see section 8 |

How they meet: `WsClient` (or a listener) opens a tunnel that `WsServer` grants
under the rules that `Reloader` keeps current; a resolved tunnel id
comes from `TunnelRegistry` and is throttled by `RateLimiter`; a reverse request
waits in `ReverseTunnelServer`; the open tunnel is `TunnelIo`, and to its two local
sides it is a `DuplexPipe`. `Cli` is the process around them: the calls that start
and end all of this (`Startup`), or one of the two clients that use a tunnel of
their own (`SshShell`, `Scp`).

## 2. Modules

Each component module has its state as VARIABLES, one action per step between
two points where other tasks can run (an await, a lock, an atomic operation),
and its properties at the end. Mutated forms of an action stand directly before
it and are used by no specification. `MC*` modules only add constant values. No
symmetry is used: most runs check liveness; where processes are interchangeable the
lowest free one is taken (slots of the pool, threads of a reloader).

**TunnelIo.** `l2r[e]` and `r2l[e]` are the control points of
`propagate_local_to_remote` and `propagate_remote_to_local` at endpoint `e`;
`pending[e]` is the mpsc channel of control frames, `notified[e]` the Notified
future the writer holds, `inFlight[e]` the ping counter (it wraps at `UsizeMax`),
`wire[e]` the frames on their way to `e` including what the buffers of the
transport hold. A select is two steps, its first branch and the rest, because
the other tasks run on other threads. `LinkStall` and `LinkFail` are the two ways to lose
a connection (silence, reset). `transport` tells a plain TCP stream, whose halves
close independently, from a TLS stream and from an HTTP/2 stream, which has no
control frames: a writer that is dropped ends it (`EndStream`, `ReadEndStream`), and
a task of its own keeps the connection alive and ends it (`CnxEnd`).

**DuplexPipe** is what a tunnel promises: in each direction chunks are sent and a
prefix of them received; a reader whose own side still writes learns of the end
only when the other side has stopped and all it sent has arrived, and is cut off
only by a break. `TunnelIo` implements it with `sent <- produced`, `received <-
delivered`, `writing` the writers that have not ended, `reader` what each reader
knows of its stream, and `broken` a lost connection or a writer that gave it up.

**ReverseTunnelServer.** A listener, its channel and its task carry the name of
the request that created them. The two readings of the idle test
(`seen_clients.swap`, `receiver_count`) are two steps; the scope guard that
removes the entry is a step after the task has left its loop; an abort takes
effect at an await.

**UdpServer.** A datagram is its sender; streams are numbered. The Notify permits
of both hand-shakes are state, so is the list of keys to delete.

**Reloader** holds the three file watchers: the restriction rules, the server's
certificate, key and CAs, the client's certificate and key. `reloader` says which
one a behaviour is about. Contents are numbered, 0 is a missing file; a pair of
files can be used if both parse and have the same number. `early`, `lostWatch` and
`wentBack` record the three ways in which the code falls behind its files.

**Restrictions** is pure: matchers, allow entries, `validate_tunnel`,
`find_mapped_port`, rules from the command line. A regular expression is the set of
names it matches, a network the set of its addresses.

**WsServer** EXTENDS Restrictions: accept, handshake, choice of the handler, the
checks in their order, the resolver, opening the tunnel, the response, while the
rules are replaced. `setup` names a scenario (`SetupOf`): rules before and after
each reload, the requests, TLS or not. Its properties compare what the evaluator
did with what the comments of `restrictions.yaml` say an entry means (`Denotes`,
`MappedPorts`); one of the entries is that file's example 3.

**WsClient** holds the forward tasks, the reverse loop with its back-off, and the
pool. **TunnelRegistry** holds pods, the watch stream, the map and the limiter
pool; **RateLimiter** the polls of streams that share a bucket. **TcpConnect**
holds the race of connection attempts (one unit of time is the 250 ms between
two of them) and the answer of an http proxy; **Socks5** and **HttpProxy** the two
proxy listeners. A request to the http proxy arrives in six pieces, from the first
bytes of the method to what follows the head, and `fits` says how far into the head
the 512 bytes of the peek and its 32 headers reach: the decision is taken on what
they show.

**Startup** holds `run_client` and `run_server`, called once by the program or
several times by a user of the library, with the runtime or clones of a set of
tasks as executor. A reverse tunnel is made without an error path, a listener may
fail to bind; both are lazy and run only once all are made. A stdio tunnel is the
exception: its listener is polled at once and the call stays with it. A connection is
two tasks. An aborted task goes on to its next await and may start another one there.
**SshShell** is the shell on the terminal, with the thread that reads it and that
nothing can cancel. **Scp** has a sender and a receiver, of which one is the client
and the other the remote scp (external, with the behaviour of OpenSSH's): the stream of
records, contents and statuses is cut into messages anywhere. The remote receiver
reads records by lines and may refuse one with a warning; the remote sender goes on
after a warning without an answer; the remote side may not run the command at all. **Cli** composes the three by INSTANCE: a
process runs one command and `MainReturns` drops the runtime.

External (modelled from how the code uses it, and marked so in the map): tokio
channels, Notify, timers and abort handles, the notify watcher, rustls, hyper,
governor, bb8, kube, fast_socks5, sockets.

## 3. What the runs show

| Run | Instance | Distinct states | Shows |
|---|---|---|---|
| `tunnel_io` | plain (a chunk each way), TLS (two one way), HTTP/2 (two and one); pings from the client; one frame fits the wire | 346,000 | a tunnel is a pipe wherever its tasks stop; a queued control frame always has a wake-up under way; the ping counter equals the pings under way and never wraps; the reader never waits for the channel to its writer; missing pongs end both tasks of an endpoint; the end of one task ends all four, unless the connection stalls or both writers block on each other |
| `reverse_server` | two requests for an address that can be bound twice (SO_REUSEPORT), three connections, queue of one | 111,000 | map and listeners agree, but for entries inserted too late; the idle test spares a waiting client; idle listeners stop; no request waits for a stopped one |
| `udp_server` | two peers, four datagrams, a stream dropped and created again | 103,000 | a stream only takes datagrams of its peer and is the one registered; no stream blocks the socket for ever; streams outlive a closed server only until they time out |
| `reloader` | each watcher, up to three writes, a broken content, a removal, three threads | 367,000 | unusable files never come into use, no reload is lost between flag and mutex, and files that settle come into use except in three named ways |
| `ws_server` | two requests on one TLS connection or two plain ones, two changes of rules; one request under all pairs of small rules | 573,000 | every tunnel was allowed, in its final form, by rules in force since its request came, under the certificate's name and with the resolver's limits; acceptance is exactly what the file, or the command line, means, with one named exception |
| `registry` | two pods of one id, a relist; two connections while limits change | 416,000 | pods are exposed and withdrawn except in two named ways; a connection works under exactly the limits the resolver returned for it, with one named exception, and shares its limiters with all of its id that were given the same |
| `limiter` | a reader and a writer, bucket of 6 bytes for chunks of 4 | 276,000 | together they stay within the quota over every stretch of time; no wake-up is lost |
| `client` | two local connections, the reverse loop, four connections, a crash, a loss | 222,000 | no connection is used twice; back-off is exact; the reverse tunnel always comes back; a local connection gets its tunnel unless the pool's was dead |
| `connect` | up to three addresses, three resolvers, TCP and UDP, direct or over a proxy | 2,270,000 | no address lost, families take turns, the first success returns at once, failure only when all failed, a bound on the time; the proxy's answer is read to its end and no further, with one named exception |
| `socks5` | two keys, a TCP client, three datagrams | 422,000 | a late clean-up never unregisters a live stream; the listener is held up by a handshake or an unread stream and by nothing else |
| `http_proxy` | any request (method, scheme, port, credentials, size of the head) next to a plain one, in pieces, with and without credentials | 797,000 | forwarded exactly as asked, to the port given or that of the scheme, with the credentials shown; no byte lost or added, with one named exception; a silent client only holds up itself |
| `cli` | five command lines and three pairs of calls; a tree with two directories and three files, up and down; the shell | 241,000 | a client starts all its tunnels or none, but for those next to a stdio tunnel; nothing outlives the executor's last clone; an scp that succeeds in silence has copied everything, with named exceptions; no command waits for what is gone |

The type invariant `TypeOK` of a module is a conjunct of one of the invariants its
run checks; that of `TunnelIo` is proved.

Bounds, and why they are enough. Two endpoints, requests, peers, pods or clients
give every pairwise race, and a third thread where one can wait while two reload.
Capacities are as small as makes them fill (a wire of one frame, queues of 1);
limits as small as makes them reached (1 ping; a `usize` of 3 so that a wrap would
show). `MaxChunks` gives each transport the least traffic that shows what it alone
can do: two writers that block on each other (plain), a chunk behind another (TLS),
both (HTTP/2); the pipe, the wake-ups, the counters and the channel are proved for
any amount. The channel of control frames keeps the relation of the code, ten slots for
three pings, as the assumption `PendingOpsCapacity > 2 * MaxInFlightPing + 1`; the
proofs remove the bound. Writes to a file are as many as the reloads that can be
under way. Counters of removals, crashes, losses, datagrams and time (`Max*`) only
bound the environment. `TcpConnect` has three addresses because two cannot show a
family that runs out first.

CHECK_DEADLOCK is off where the environment may fall silent or the work be done
(no more edits, requests or datagrams), and where a process ends (`Cli`). It is on for `TunnelIo`, whose only final
states are those in which all four tasks are gone, and for `RateLimiter`.

## 4. Fairness

Weak fairness stands for the runtime polling tasks that are ready, for threads
that run and for timers that elapse. Nothing makes peers, clients or files move:
no fairness on `Arrive` (UDP, socks5), `Connect`, `Send`, `EditFile`, `LinkStall`,
a client's socks5 handshake or a tunnel's reads of its stream. Points that need a
word:

- `TunnelIo`: strong fairness of `PingTick`, because the tick is the last branch of
  a biased select and a busier branch disables it for a while; an interval that is
  due stays due. Each local side sooner or later takes what is written to it or
  fails (`LocalWrite`); a consumer that stops reading for ever suspends `copy` and
  the code has no timeout for it. Weak fairness of `CnxEnd`: the keep-alive of an
  HTTP/2 connection times out, and an aborted task is dropped.
- `Cli`: what the code does without waiting for anything outside, and the steps of a
  remote scp that runs and has what it waits for. Keys, signals, the network, the
  remote sshd's answer to a connect (`ssh/mod.rs:64`, no time limit), whether it runs
  the command, listeners that fail and the ends of connections are left to chance:
  `CommandsEnd` says that a command waits only for something that is there.
- `UdpServer`: a stream that has timed out is dropped by its tunnel; a live one is
  polled. `RateLimiter`: the other end of each stream goes on.
- `Reloader`: connections keep coming in, because only an accept rebuilds the
  server's acceptor; a thread that waits for a file polls it. `WsClient`: a server
  that is up answers requests for local connections, and need not answer a reverse
  one. `TunnelRegistry`: only the task of the watcher.

## 5. What is proved

`TunnelIoProofs` and `TunnelPipeProofs` prove for all values of the constants that
satisfy `ConstantsAssumption` (any ping limit, any channel with more than `2 * limit
+ 1` slots, any wire, any amount of data, every transport):

- `TypeCorrect`: `Spec => []TypeOK`;
- `PingCountersNeverWrap`: `Spec => []PingCounterSound`. The counter covers every
  ping that can still be answered, so `fetch_sub` never goes below zero, and it
  passes the limit only in the step that ends the task;
- `PendingChannelNeverFull`: `Spec => []PendingNeverFull`. The reader never waits
  for the writer, so a full transport cannot make the two hold each other up;
- `WakeupsNeverLost`: `Spec => []NoLostWakeup`;
- `TunnelImplementsPipe`: `Spec => TunnelIsPipe`, the refinement of `DuplexPipe`.

*Counters.* The inductive invariant is `PingInv == TypeOK /\ ReaderInv /\
PingCounterSound`. Neither property is inductive alone. A full channel is excluded
by counting: it holds pings of the peer and pongs for own pings, each at most the
limit by `PingCounterSound` of either side, and at most one Close, by `ReaderInv`,
which ties the Close to the control point the reader stops at. `PingCounterSound` in
turn counts a ping wherever it is (on a wire, in a channel, as a ping or as its
pong), so each action moves a frame from one place to the next and the sum stays.
The lemmas `CountAppend`, `CountTail` and `CountSum` say how `Count` changes when a
sequence does; `TypeStep`, `ReaderStep` and `PingStep` have one step per action.

*Wake-ups.* `NoLostWakeup` needs `TypeOK` only: `WriterWakes` and `ReaderWakes`
follow the two tasks of an endpoint through the states of the Notified future, and
`OthersAsleep` says that no other task touches it.

*The pipe.* `PipeInv == PingInv /\ CloseInv /\ EndInv /\ BufInv /\ DataInv`, each part
inductive with the ones before it. `CloseInv`: who sent a Close has ended, or echoed
the Close of a peer that has. `EndInv`: while a side writes, the Close on its wire
comes last, and the stream of a writer that closed a live connection has one.
`BufInv`: a chunk left in the buffer of a writer on its way out is one whose peer
cannot be told of an end any more. `DataInv`: delivered chunks, data frames on the
wire and the buffer are the chunks produced, in order. Together they give
`EndOfStream`, the only hard case of the mapping: a reader that meets the end while
its own side writes has been given everything. `WriterRefines` and `ReaderRefines`
map each action to a step of the pipe or to none.

`Socks5Proofs` proves `LiveStreamsStayRegistered`, `Spec => []LiveStreamRegistered`,
for any keys, clients, datagrams and capacities that satisfy `Socks5Assumption`. The
property speaks of streams in use; the invariant (`KeysInv`) must also say that
every entry is that of a stream with its key, and that a key written down belongs
to a stream that is being dropped, or to no entry if the server cleans up next.
`NumbersInv` bounds the streams by the datagrams, for `TypeOK`.

`UdpServerProofs` proves `StreamsReadTheirOwn`, `Spec => []ReadsOwnDatagram`, and
`OpenStreamsRegistered`, `Spec => []OpenIsRegistered`, from `UdpAssumption`. The
hand-shake needs `HandInv`: a live stream that was told to read, or has taken its
notification, is the one the server waits for, has not answered, and the next
datagram is from its peer; an answer is pending only for the awaited stream (a
stream that is dropped leaves one behind, but is not open). `RegInv` ties a key that
waits for its deletion to an entry that is still there and whose stream was
dropped: the peer cannot register again before the clean-up. `NumberLeft` counts
streams, for `TypeOK`: the open ones map one to one into the peers.

`ReverseTunnelProofs` proves `MapAndListenersAgree`, `Spec => []MapFollowsListeners`,
and the action property `IdleStopsSpareWaiting`, `Spec => IdleStopSparesWaiting`,
from `RegistryAssumption`. `MapInv` adds that an entry is that of a listener of its
address whose request has inserted it, and that a listener told to stop has been in
the map and never comes back. `TaskInv` ties the control point of a request to that
of its task. The idle test counts receivers: a listener not told to stop is in the
map, so its item is the one receiver that is no request.

`WsClientProofs` proves `UnwrapNeverPanics`, `Spec => []StreamTakenOnce`, from
`ClientAssumption`. `PoolInv`: an idle connection has its stream, so has one whose
request is being built, a task in connect has a connection in use, and no two have
the same. What `has_broken` answers is needed in one place (`EndStep`), the return
of a connection.

`ReloaderProofs` proves `ReloadsNeverLost`, `Spec => []NoLostReload`, from
`ReloaderAssumption`. The property is not inductive: the accept loop may hold CAs
that were replaced while the stored configuration is, for the moment, the one in
the acceptor. `StaleIsAnnounced` says that then the flag is set or about to be.

`RateLimiterProofs` proves `QuotaAlwaysRespected`, `Spec => []QuotaRespected`, from
`LimiterAssumption`. `strict` is a bucket charged with the bytes that move, `tokens`
the one charged with what a poll asks for; the invariant is `tokens <= strict`, and
that no stream has more ready than is left.

Only model-checked: the other safety properties, and, being out of reach of the
prover, liveness under fairness, anything with ENABLED, and what recursive
definitions compute for every input.

## 6. Where the code falls short of its documents

The properties state what the repository says with the exceptions the code needs,
each named where the property is defined. Without its exception a property fails,
and the counterexample is the behaviour below.

| Exception | The repository says | The code |
|---|---|---|
| `IdleStopSparesWaiting`: not the request that creates the listener | a listener is closed "if no client connected" (`reverse_tunnel.rs:104`) | the first tick is immediate and the task starts before its creator is counted: it may close at once |
| `ActiveFollowsFiles`: `early` | "automatically reloaded if it changes" (`README.md:330`) | a change between the first read and the watch is missed |
| `ActiveFollowsFiles`: `wentBack` | the same | two threads read and store in two steps: the older content may be stored last |
| `RegistryFollowsPods`: `latest` | pods with the annotation are exposed (`README.md:502`) | the end of an old pod removes the entry of its replacement |
| `RegistryFollowsPods`: `told` | the same | deletions are not seen, so a pod deleted without notice stays |
| `WhitelistExact`: `UnixUnchecked` | "Protocol that are allowed. Empty list means all" (`restrictions.yaml:24`); "Only allow socks5 reverse tunnels" (`restrictions.yaml:93`) | a reverse tunnel to a unix socket is judged by `unix_path`, which matches everything by default, before the list of protocols is looked at (`utils.rs:132`): example 3 also lets such tunnels in |
| `QuotaExact`: `KeptLimits` | the limits the resolver returns are applied; an absent one is "forwarded without limit" (`README.md:494`, `497`) | limiters of a tunnel id keep the limits they were created with (`rate_limiter.rs:67`): a limit that is changed, added or taken away later has no effect on connections that still have one |
| `EverybodyGetsTunnel`: `lost` | "everybody who connects ... gets their own tunnel" (`client.rs:106`) | a dead pooled connection costs one its tunnel |
| `FailsOnlyIfAllFailed`: the first family is the preferred one | "The first address is v6 if we have any v6 addresses" (`resolver.rs:26`) | with `--dns-resolver-prefer-ipv4` the first address is v4 if there is one |
| `DestinationBytesKept`: `speaks` | the first read gives the destination's bytes (`tcp/server.rs:309`) | what follows the proxy's answer in the same read is dropped |
| `NothingLostOrAdded`: not `waits` | | what follows a CONNECT in the same read is dropped |
| `TunnelTerminates`: `CrossedWriters` | | no writer looks at `close_tx` while suspended in a write: two full directions keep each other open |
| `SilentPeerDetected`: `BlockedInWrite` | | `ping` runs in the task that a full transport suspends; HTTP/2 is not affected |
| `StartedTogether`: a running stdio tunnel | "Start all tunnels" (`lib.rs:47`), "Can be specified multiple times" (`README.md:70`, `116`) | the stdio listener is awaited while the tunnels are still being made (`lib.rs:415`): it runs alone, those before it never start and those after it are never made |
| `SilentSuccessIsWhole`: `odd` | | in a download a header cut in two, a status that reports an error and a remote scp that ends between two records pass for success |
| `CommandsEnd`: `HeldUp`, and `sh = "connect"` | | no wait of ssh or scp has a timeout: not the connect (`ssh/mod.rs:64`), not the first answer of a command the remote side did not run (`scp.rs:94`, `129`). An upload also waits for ever after a file that changed its size, or after a refused record, whose file it sends all the same because a warning counts as success (`scp.rs:77`); a download after a warning, which it acknowledges though the remote sender does not ask for it (`scp.rs:265`) |
| `CommandsEnd`: `LastKey` | "`Ctrl+C` exits cleanly" (`README.md:562`) | the process of a shell that is over, also by a ctrl-c, stays until a key ends the last read of the terminal |

Met while translating, and outside what the models hold: a reload of the client
certificate builds a connector without ECH (`tls_reloader.rs`, `README.md:189`).

## 7. Plan

Worth doing next, most important first:

1. *Composition*: `WsServer` with `ReverseTunnelServer` (a failed upgrade after a
   connection was handed over), and an abstract map of listeners that
   `ReverseTunnelServer` implements up to its dead entries.
2. *Proofs*: `PingAccounting` of `TunnelIo`; `ActiveUsable` of `Reloader`, whose type
   invariant needs the sum of the versions; `QuotaExact` of `TunnelRegistry`.
3. *Buffers*: tell the buffer of a TLS stream from that of the socket.

## 8. What is not modelled

- Encodings (JWT, headers, YAML, socks and http syntax), TLS and DNS themselves,
  socket options: libraries or data without control. Their outcomes are inputs.
- Unix socket, plain TCP and transparent-proxy listeners, connectors: a call each,
  with nothing kept between calls. A listener that ends or panics is in `Startup`.
- `config.rs` and the parsing of arguments: declarations and text, no state.
- The terminal's data, window sizes, keys and authentication of ssh. In `Scp` a line
  of a file's contents that lands in the place of a record is an error, a warning or
  an `E`, never the header of another file.
- The start-up and shutdown of tunnel-server.
- Sizes: a chunk is one element; the growing read buffer and the frame limits are
  left out. Time exists in `TcpConnect` and `RateLimiter` only; elsewhere a timer may
  fire whenever it is armed.
- In `TunnelIo` a frame that was written arrives unless the connection is lost: that
  control frames are written without a flush, which a TLS stream would need
  (`websocket.rs:138`), and a local side that never takes its data (`io.rs:189`) are
  outside the model. The 1024 buffers and the flow control of HTTP/2 are one wire.
- A pod whose tunnel id annotation changes, and a watched file that is renamed
  away.
