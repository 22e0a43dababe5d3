----------------------------- MODULE UdpServer -----------------------------
(***************************************************************************)
(* The UDP listener (wstunnel/src/protocols/udp/server.rs).                *)
(*                                                                         *)
(* All peers send to one socket.  The server only peeks: it looks at the   *)
(* sender of the next datagram and lets the stream of that peer take it    *)
(* from the socket, and waits until it has (has_data_to_read and           *)
(* has_read_data are the two halves of that hand-shake, both Notify).      *)
(* Streams are numbered in the order of their creation.  The payload does  *)
(* not matter here, so a datagram is the peer that sent it.                *)
(***************************************************************************)
EXTENDS Naturals, Sequences, FiniteSets

CONSTANTS
  Peers,          \* remote addresses
  NoStream,       \* no entry in `peers'
  HasTimeout,     \* cnx_timeout is Some
  SocketCapacity, \* datagrams the socket buffers; more are lost
  MaxDatagrams,   \* bound: datagrams that arrive in total
  MaxDrops        \* bound: streams dropped while the server runs

Streams == 1 .. (MaxDrops + Cardinality(Peers))

ASSUME UdpAssumption ==
  /\ HasTimeout \in BOOLEAN
  /\ SocketCapacity \in Nat \ {0}
  /\ MaxDatagrams \in Nat /\ MaxDrops \in Nat
  /\ IsFiniteSet(Peers)
  /\ NoStream \notin Nat

VARIABLES
  socket,        \* datagrams in the receive buffer
  arrived,       \* number of datagrams so far
  server,        \* control point of the server
  awaited,       \* the stream the server waits for
  peers,         \* the server's map from peer to stream
  keysToDelete,  \* peers whose stream was dropped, not cleaned up yet
  peerOf,        \* the peer of each stream created so far
  open,          \* streams not dropped
  expired,       \* streams whose poll_read returned TimedOut
  hasData,       \* the notification of has_data_to_read, fired or stored
  armed,         \* pending_notification is Some
  hasRead,       \* the permit stored in has_read_data
  readBefore     \* data_read_before_deadline

vars == <<socket, arrived, server, awaited, peers, keysToDelete, peerOf, open,
          expired, hasData, armed, hasRead, readBefore>>
streamVars == <<peerOf, open, expired, armed, readBefore>>

Created == 1 .. Len(peerOf)
\* Bound: a stream may end only while there is a number left for the next one.
Ended == expired \cup (Created \ open)
MayEnd(s) == s \in expired \/ Cardinality(Ended) < MaxDrops \/ server = "closed"

Init ==
  /\ socket = << >> /\ arrived = 0
  /\ server = "clean" /\ awaited = NoStream
  /\ peers = [p \in Peers |-> NoStream]
  /\ keysToDelete = {}
  /\ peerOf = << >>
  /\ open = {} /\ expired = {}
  /\ hasData = {} /\ armed = {} /\ hasRead = {} /\ readBefore = {}

-----------------------------------------------------------------------------
\* The kernel queues a datagram, or drops it when the buffer is full.
Arrive(p) ==
  /\ arrived < MaxDatagrams
  /\ arrived' = arrived + 1
  /\ socket' = IF Len(socket) < SocketCapacity THEN Append(socket, p) ELSE socket
  /\ UNCHANGED <<server, awaited, peers, keysToDelete, hasData, hasRead,
                 streamVars>>

-----------------------------------------------------------------------------
(***************************************************************************)
(* run_server, one call of the unfold closure after the other              *)
(***************************************************************************)

\* Mutant of CleanDeadKeys: the list of dead keys is not emptied.
CleanDeadKeysKeepsList ==
  /\ server = "clean"
  /\ server' = "peek"
  /\ peers' = [p \in Peers |-> IF p \in keysToDelete THEN NoStream ELSE peers[p]]
  /\ UNCHANGED <<socket, arrived, awaited, keysToDelete, hasData, hasRead,
                 streamVars>>

\* clean_dead_keys: dropped streams leave the map.
CleanDeadKeys ==
  /\ server = "clean"
  /\ server' = "peek"
  /\ peers' = [p \in Peers |-> IF p \in keysToDelete THEN NoStream ELSE peers[p]]
  /\ keysToDelete' = {}
  /\ UNCHANGED <<socket, arrived, awaited, hasData, hasRead, streamVars>>

\* A known peer: its stream is told to read, and awaited.
NotifyPeer ==
  /\ server = "peek" /\ socket # << >>
  /\ LET s == peers[Head(socket)] IN
       /\ s # NoStream
       /\ hasData' = hasData \cup {s}
       /\ awaited' = s
  /\ server' = "wait"
  /\ UNCHANGED <<socket, arrived, peers, keysToDelete, hasRead, streamVars>>

\* Mutant of NewPeer: the next call does not wait for the new stream.
NewPeerNotAwaited ==
  /\ server = "peek" /\ socket # << >>
  /\ peers[Head(socket)] = NoStream
  /\ LET s == Len(peerOf) + 1 IN
       /\ peerOf' = Append(peerOf, Head(socket))
       /\ open' = open \cup {s}
       /\ armed' = armed \cup {s}
       /\ hasData' = hasData \cup {s}
       /\ peers' = [peers EXCEPT ![Head(socket)] = s]
       /\ awaited' = s
  /\ server' = "clean"
  /\ UNCHANGED <<socket, arrived, keysToDelete, expired, hasRead, readBefore>>

\* An unknown peer: a stream with a fired notification is created and
\* returned; the server goes on when it is polled for the next one.
NewPeer ==
  /\ server = "peek" /\ socket # << >>
  /\ peers[Head(socket)] = NoStream
  /\ LET s == Len(peerOf) + 1 IN
       /\ peerOf' = Append(peerOf, Head(socket))
       /\ open' = open \cup {s}
       /\ armed' = armed \cup {s}
       /\ hasData' = hasData \cup {s}
       /\ peers' = [peers EXCEPT ![Head(socket)] = s]
       /\ awaited' = s
  /\ server' = "yielded"
  /\ UNCHANGED <<socket, arrived, keysToDelete, expired, hasRead, readBefore>>

\* The next call: wait for the stream just created.
Resume ==
  /\ server = "yielded"
  /\ server' = "wait"
  /\ UNCHANGED <<socket, arrived, awaited, peers, keysToDelete, hasData,
                 hasRead, streamVars>>

\* has_read_data.notified().await
Awaited ==
  /\ server = "wait"
  /\ awaited \in hasRead
  /\ hasRead' = hasRead \ {awaited}
  /\ awaited' = NoStream
  /\ server' = "clean"
  /\ UNCHANGED <<socket, arrived, peers, keysToDelete, hasData, streamVars>>

\* peek_sender or mk_send_socket failed, or the listener was dropped.
ServerClose ==
  /\ server # "closed"
  /\ server' = "closed"
  /\ UNCHANGED <<socket, arrived, awaited, peers, keysToDelete, hasData,
                 hasRead, streamVars>>

-----------------------------------------------------------------------------
(***************************************************************************)
(* UdpStream                                                               *)
(***************************************************************************)

\* poll_read: the pending notification completes.  What follows may be cut
\* off (poll_recv_from may return Pending) and go on at a later poll.
PollNotified(s) ==
  /\ s \in (open \ expired) \cap armed \cap hasData
  /\ hasData' = hasData \ {s}
  /\ armed' = armed \ {s}
  /\ UNCHANGED <<socket, arrived, server, awaited, peers, keysToDelete, hasRead,
                 peerOf, open, expired, readBefore>>

\* poll_read: the datagram, whoever sent it; then re-arm and tell the server.
RecvFrom(s) ==
  /\ s \in (open \ expired) \ armed
  /\ socket # << >>
  /\ socket' = Tail(socket)
  /\ readBefore' = readBefore \cup {s}
  /\ armed' = armed \cup {s}
  /\ hasRead' = hasRead \cup {s}
  /\ UNCHANGED <<arrived, server, awaited, peers, keysToDelete, hasData, peerOf,
                 open, expired>>

\* Mutant of Watchdog: an idle period is forgiven.
WatchdogForgives(s) ==
  /\ HasTimeout
  /\ s \in open \ expired
  /\ readBefore' = readBefore \ {s}
  /\ UNCHANGED <<socket, arrived, server, awaited, peers, keysToDelete, hasData,
                 hasRead, peerOf, open, armed, expired>>

\* poll_read: the deadline elapsed; without data since the last one it fails.
Watchdog(s) ==
  /\ HasTimeout
  /\ s \in open \ expired
  /\ IF s \in readBefore
     THEN readBefore' = readBefore \ {s} /\ UNCHANGED expired
     ELSE MayEnd(s) /\ expired' = expired \cup {s} /\ UNCHANGED readBefore
  /\ UNCHANGED <<socket, arrived, server, awaited, peers, keysToDelete, hasData,
                 hasRead, peerOf, open, armed>>

\* Mutant of Drop: the server is not told.
DropSilent(s) ==
  /\ s \in open /\ MayEnd(s)
  /\ open' = open \ {s}
  /\ keysToDelete' = IF server = "closed" THEN keysToDelete
                     ELSE keysToDelete \cup {peerOf[s]}
  /\ UNCHANGED <<socket, arrived, server, awaited, peers, peerOf, expired, armed,
                 hasData, hasRead, readBefore>>

\* The tunnel ended: the peer is queued for deletion, unless the server is
\* gone, and the server is told that nobody will read.
Drop(s) ==
  /\ s \in open /\ MayEnd(s)
  /\ open' = open \ {s}
  /\ keysToDelete' = IF server = "closed" THEN keysToDelete
                     ELSE keysToDelete \cup {peerOf[s]}
  /\ hasRead' = hasRead \cup {s}
  /\ UNCHANGED <<socket, arrived, server, awaited, peers, peerOf, expired, armed,
                 hasData, readBefore>>

-----------------------------------------------------------------------------

ServerStep ==
  CleanDeadKeys \/ NotifyPeer \/ NewPeer \/ Resume \/ Awaited
StreamStep(s) == PollNotified(s) \/ RecvFrom(s)

Next ==
  \/ \E p \in Peers : Arrive(p)
  \/ ServerStep \/ ServerClose
  \/ \E s \in Streams : StreamStep(s) \/ Watchdog(s) \/ Drop(s)

Spec == Init /\ [][Next]_vars

\* The listener and every stream are polled, the deadline timer elapses, and
\* a tunnel whose read failed drops its stream.
FairSpec ==
  /\ Spec
  /\ WF_vars(ServerStep)
  /\ \A s \in Streams :
       /\ WF_vars(StreamStep(s))
       /\ WF_vars(Watchdog(s))
       /\ WF_vars(s \in expired /\ Drop(s))

-----------------------------------------------------------------------------
(***************************************************************************)
(* Properties                                                              *)
(***************************************************************************)

\* Every variable keeps its type.
TypeOK ==
  /\ socket \in Seq(Peers) /\ arrived \in 0 .. MaxDatagrams
  /\ server \in {"clean", "peek", "wait", "yielded", "closed"}
  /\ awaited \in Streams \cup {NoStream}
  /\ peers \in [Peers -> Streams \cup {NoStream}]
  /\ keysToDelete \in SUBSET Peers
  /\ peerOf \in Seq(Peers) /\ Len(peerOf) <= MaxDrops + Cardinality(Peers)
  /\ \A set \in {open, expired, hasData, armed, hasRead, readBefore} :
       set \subseteq Created

\* debug_assert_eq!(peer, *project.peer) in poll_read: a stream that is about
\* to take a datagram finds one of its own peer at the head of the socket.
ReadsOwnDatagram ==
  \A s \in (open \ expired) \ armed :
    socket # << >> /\ server # "closed" => Head(socket) = peerOf[s]

\* While the server runs, an open stream is the one registered for its peer;
\* so a peer has one stream, and that stream gets all its datagrams.
OpenIsRegistered ==
  /\ TypeOK
  /\ server # "closed" => \A s \in open : peers[peerOf[s]] = s

\* Whatever stream the server has handed the next datagram to, slow, timed
\* out or dropped, the datagram is taken in the end: no peer blocks the
\* others for ever, as long as streams are polled.
HeadIsTaken ==
  \A n \in 1 .. SocketCapacity :
    (Len(socket) = n) ~> (Len(socket) # n \/ server = "closed")

\* With a timeout, the streams left behind by a closed server end.
LeftBehindStreamsEnd ==
  HasTimeout => \A s \in Streams :
    (server = "closed" /\ s \in open) ~> s \notin open
=============================================================================
