------------------------------- MODULE Socks5 -------------------------------
(***************************************************************************)
(* The socks5 listener (run_server in                                      *)
(* wstunnel/src/protocols/socks5/tcp_server.rs) and the UDP server it      *)
(* polls (wstunnel/src/protocols/socks5/udp_server.rs).                    *)
(*                                                                         *)
(* Both run in one task: the listener looks for a TCP client first, and    *)
(* serves datagrams only when there is none and no handshake is going on.  *)
(* The streams of the UDP peers are read and dropped by other tasks.  A    *)
(* stream belongs to a key, a peer and the destination it asked for, and   *)
(* streams are numbered in the order of their creation.  An error of       *)
(* accept goes to the caller, who polls again: it changes nothing here.    *)
(***************************************************************************)
EXTENDS Naturals, Sequences

CONSTANTS
  Clients,       \* TCP clients
  NoClient,
  Keys,          \* pairs of a peer and a destination
  NoStream,      \* no entry in `peers'
  HasTimeout,    \* cnx_timeout is Some
  QueueCapacity, \* of the channel to a stream (1024)
  MaxDatagrams   \* bound: datagrams that arrive

ASSUME Socks5Assumption ==
  /\ NoClient \notin Clients
  /\ NoStream \notin Nat
  /\ HasTimeout \in BOOLEAN
  /\ QueueCapacity \in Nat \ {0} /\ MaxDatagrams \in Nat

Streams == 1 .. MaxDatagrams
Datagram == [key : Keys, kind : {"ok", "invalid", "fragment"}]

VARIABLES
  client,        \* where each TCP client is
  backlog,       \* clients that wait to be accepted
  pc,            \* control point of the listener
  cur,           \* the client it serves
  socket,        \* datagrams in the receive buffer
  arrived,       \* number of datagrams so far
  udp,           \* control point of the UDP server
  dest,          \* key of the datagram it holds
  peers,         \* its map from key to stream
  keysToDelete,  \* keys of dropped streams
  keyOf,         \* the key of each stream created so far
  phase,         \* life of each stream
  queue,         \* datagrams in the channel to the stream
  readBefore     \* data_read_before_deadline

vars == <<client, backlog, pc, cur, socket, arrived, udp, dest, peers,
          keysToDelete, keyOf, phase, queue, readBefore>>
tcpVars == <<client, backlog, pc, cur>>
streamVars == <<keyOf, phase, queue, readBefore>>
udpVars == <<socket, arrived, udp, dest, peers, keysToDelete, streamVars>>

Init ==
  /\ client = [c \in Clients |-> "away"] /\ backlog = << >>
  /\ pc = "select" /\ cur = NoClient
  /\ socket = << >> /\ arrived = 0
  /\ udp = "clean" /\ dest \in Keys
  /\ peers = [k \in Keys |-> NoStream] /\ keysToDelete = {}
  /\ keyOf = << >> /\ phase = << >> /\ queue = << >> /\ readBefore = << >>

-----------------------------------------------------------------------------
(***************************************************************************)
(* The network                                                             *)
(***************************************************************************)

Connect(c) ==
  /\ client[c] = "away" /\ pc # "closed"
  /\ client' = [client EXCEPT ![c] = "waiting"]
  /\ backlog' = Append(backlog, c)
  /\ UNCHANGED <<pc, cur, udpVars>>

Arrive(d) ==
  /\ arrived < MaxDatagrams
  /\ arrived' = arrived + 1
  /\ socket' = Append(socket, d)
  /\ UNCHANGED <<tcpVars, udp, dest, peers, keysToDelete, streamVars>>

-----------------------------------------------------------------------------
(***************************************************************************)
(* TCP clients                                                             *)
(***************************************************************************)

Accept ==
  /\ pc = "select" /\ backlog # << >>
  /\ cur' = Head(backlog) /\ backlog' = Tail(backlog)
  /\ client' = [client EXCEPT ![cur'] = "handshake"]
  /\ pc' = "handshake"
  /\ UNCHANGED udpVars

Finish(s) ==
  /\ client' = [client EXCEPT ![cur] = s]
  /\ pc' = "select" /\ cur' = NoClient
  /\ UNCHANGED <<backlog, udpVars>>

\* upgrade_to_socks5 fails, or there is no target address.
Reject == pc = "handshake" /\ Finish("rejected")

\* upgrade_to_socks5 returns a command.
Upgraded ==
  /\ pc = "handshake"
  /\ pc' \in {"reply", "replyUdp"}
  /\ UNCHANGED <<client, backlog, cur, udpVars>>

\* new_reply is written; the caller gets the stream, or the client is gone.
Reply == pc = "reply" /\ (Finish("tunnelled") \/ Finish("rejected"))

\* UDPAssociate: the reply names the UDP server, and a task holds the
\* connection until the client closes it.
ReplyUdp == pc = "replyUdp" /\ (Finish("associated") \/ Finish("rejected"))

Dissociate(c) ==
  /\ client[c] = "associated"
  /\ client' = [client EXCEPT ![c] = "left"]
  /\ UNCHANGED <<backlog, pc, cur, udpVars>>

-----------------------------------------------------------------------------
(***************************************************************************)
(* The UDP server                                                          *)
(***************************************************************************)

\* select! is biased: the UDP server is polled when accept is not ready.
Polled == pc = "select" /\ backlog = << >>

\* Mutant of CleanDeadKeys: the list of keys is not emptied.
CleanDeadKeysKeepsList ==
  /\ Polled /\ udp = "clean"
  /\ peers' = [k \in Keys |-> IF k \in keysToDelete THEN NoStream ELSE peers[k]]
  /\ udp' = "recv"
  /\ UNCHANGED <<tcpVars, socket, arrived, dest, keysToDelete, streamVars>>

CleanDeadKeys ==
  /\ Polled /\ udp = "clean"
  /\ peers' = [k \in Keys |-> IF k \in keysToDelete THEN NoStream ELSE peers[k]]
  /\ keysToDelete' = {}
  /\ udp' = "recv"
  /\ UNCHANGED <<tcpVars, socket, arrived, dest, streamVars>>

\* recv_buf_from and parse_udp_request; what cannot be parsed, and
\* fragments, are skipped.
Receive ==
  /\ Polled /\ udp = "recv" /\ socket # << >>
  /\ socket' = Tail(socket)
  /\ IF Head(socket).kind = "ok"
     THEN udp' = "dispatch" /\ dest' = Head(socket).key
     ELSE udp' = "clean" /\ UNCHANGED dest
  /\ UNCHANGED <<tcpVars, arrived, peers, keysToDelete, streamVars>>

\* An error of the socket ends the UDP server and with it the listener.
ReceiveFails ==
  /\ Polled /\ udp = "recv"
  /\ pc' = "closed"
  /\ UNCHANGED <<client, backlog, cur, udpVars>>

\* Mutant of Deliver: the wait for room goes on when the stream is dropped.
DeliverToDropped ==
  /\ Polled /\ udp = "dispatch" /\ peers[dest] # NoStream
  /\ phase[peers[dest]] # "dropped"
  /\ queue[peers[dest]] < QueueCapacity
  /\ queue' = [queue EXCEPT ![peers[dest]] = @ + 1]
  /\ udp' = "clean"
  /\ UNCHANGED <<tcpVars, socket, arrived, dest, peers, keysToDelete, keyOf, phase,
                 readBefore>>

\* io.sender.send() waits for room in the channel; when the stream is gone
\* its entry is removed and the datagram is lost.
Deliver ==
  /\ Polled /\ udp = "dispatch" /\ peers[dest] # NoStream
  /\ LET s == peers[dest] IN
     \/ /\ phase[s] = "dropped"
        /\ peers' = [peers EXCEPT ![dest] = NoStream]
        /\ UNCHANGED queue
     \/ /\ phase[s] # "dropped" /\ queue[s] < QueueCapacity
        /\ queue' = [queue EXCEPT ![s] = @ + 1]
        /\ UNCHANGED peers
  /\ udp' = "clean"
  /\ UNCHANGED <<tcpVars, socket, arrived, dest, keysToDelete, keyOf, phase, readBefore>>

\* The first datagram of a key makes a stream, which the listener returns.
NewStream ==
  /\ Polled /\ udp = "dispatch" /\ peers[dest] = NoStream
  /\ keyOf' = Append(keyOf, dest)
  /\ phase' = Append(phase, "open")
  /\ queue' = Append(queue, 1)
  /\ readBefore' = Append(readBefore, FALSE)
  /\ peers' = [peers EXCEPT ![dest] = Len(keyOf')]
  /\ udp' = "clean"
  /\ UNCHANGED <<tcpVars, socket, arrived, dest, keysToDelete>>

-----------------------------------------------------------------------------
(***************************************************************************)
(* A stream, in the task of its tunnel                                     *)
(***************************************************************************)

\* poll_read takes a datagram.
Read(s) ==
  /\ phase[s] = "open" /\ queue[s] > 0
  /\ queue' = [queue EXCEPT ![s] = @ - 1]
  /\ readBefore' = [readBefore EXCEPT ![s] = TRUE]
  /\ UNCHANGED <<tcpVars, socket, arrived, udp, dest, peers, keysToDelete, keyOf, phase>>

\* poll_read finds that the watchdog has ticked.
WatchdogTick(s) ==
  /\ HasTimeout /\ phase[s] = "open"
  /\ phase' = [phase EXCEPT ![s] = IF readBefore[s] THEN "open" ELSE "ended"]
  /\ readBefore' = [readBefore EXCEPT ![s] = FALSE]
  /\ UNCHANGED <<tcpVars, socket, arrived, udp, dest, peers, keysToDelete, keyOf, queue>>

\* The tunnel of the stream ends for a reason of its own, or because the
\* datagram does not fit into its buffer.
TunnelEnds(s) ==
  /\ phase[s] = "open"
  /\ phase' = [phase EXCEPT ![s] = "ended"]
  /\ UNCHANGED <<tcpVars, socket, arrived, udp, dest, peers, keysToDelete, keyOf, queue,
                 readBefore>>

\* PinnedDrop writes the key down; the server may be gone by then.
DropKey(s) ==
  /\ phase[s] = "ended"
  /\ phase' = [phase EXCEPT ![s] = "dropping"]
  /\ keysToDelete' = IF pc = "closed" THEN keysToDelete ELSE keysToDelete \cup {keyOf[s]}
  /\ UNCHANGED <<tcpVars, socket, arrived, udp, dest, peers, keyOf, queue, readBefore>>

\* Then the fields are dropped, the receiving end of the channel with them.
DropFields(s) ==
  /\ phase[s] = "dropping"
  /\ phase' = [phase EXCEPT ![s] = "dropped"]
  /\ queue' = [queue EXCEPT ![s] = 0]
  /\ UNCHANGED <<tcpVars, socket, arrived, udp, dest, peers, keysToDelete, keyOf, readBefore>>

-----------------------------------------------------------------------------

ListenerStep ==
  \/ Accept \/ Reply \/ ReplyUdp
  \/ CleanDeadKeys \/ Receive \/ Deliver \/ NewStream
ClientStep == Reject \/ Upgraded
Drop(s) == DropKey(s) \/ DropFields(s)
StreamStep(s) == Read(s) \/ WatchdogTick(s) \/ TunnelEnds(s) \/ Drop(s)

Next ==
  \/ \E c \in Clients : Connect(c) \/ Dissociate(c)
  \/ \E d \in Datagram : Arrive(d)
  \/ ListenerStep \/ ClientStep \/ ReceiveFails
  \/ \E s \in DOMAIN keyOf : StreamStep(s)

Spec == Init /\ [][Next]_vars

\* The task of the listener runs when it can, and a drop that has begun ends.
\* Nothing makes a client finish its handshake, or a tunnel read its stream.
FairSpec ==
  /\ Spec
  /\ WF_vars(ListenerStep)
  /\ WF_vars(\E s \in DOMAIN keyOf : Drop(s))

-----------------------------------------------------------------------------
(***************************************************************************)
(* Properties                                                              *)
(***************************************************************************)

\* Every variable keeps its type; a channel never holds more than its bound.
TypeOK ==
  /\ client \in [Clients -> {"away", "waiting", "handshake", "tunnelled",
                             "rejected", "associated", "left"}]
  /\ backlog \in Seq(Clients) /\ cur \in Clients \cup {NoClient}
  /\ pc \in {"select", "handshake", "reply", "replyUdp", "closed"}
  /\ socket \in Seq(Datagram) /\ arrived \in 0 .. MaxDatagrams
  /\ udp \in {"clean", "recv", "dispatch"} /\ dest \in Keys
  /\ peers \in [Keys -> Streams \cup {NoStream}] /\ keysToDelete \subseteq Keys
  /\ keyOf \in Seq(Keys)
  /\ phase \in [DOMAIN keyOf -> {"open", "ended", "dropping", "dropped"}]
  /\ queue \in [DOMAIN keyOf -> 0 .. QueueCapacity]
  /\ readBefore \in [DOMAIN keyOf -> BOOLEAN]

\* A stream that is in use is the one the server sends its key's datagrams
\* to: the key that an earlier stream of the same peer leaves behind when it
\* is dropped never takes away the entry of its successor.
LiveStreamRegistered ==
  TypeOK /\ \A s \in DOMAIN keyOf : phase[s] = "open" => peers[keyOf[s]] = s

\* The server waits for room in the channel of a stream that nobody reads.
SlowStream ==
  /\ udp = "dispatch" /\ peers[dest] # NoStream
  /\ phase[peers[dest]] = "open" /\ queue[peers[dest]] = QueueCapacity

\* The listener ends up with every client answered and every datagram taken,
\* unless its socket failed, or a client never finishes its handshake, or a
\* tunnel never reads its stream: a stream dropped at the wrong moment and a
\* client that is gone never stop it.
OnlyTwoStalls ==
  <>[](\/ pc \in {"closed", "handshake"}
       \/ SlowStream
       \/ socket = << >> /\ backlog = << >> /\ udp = "recv")
=============================================================================
