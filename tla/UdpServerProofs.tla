-------------------------- MODULE UdpServerProofs --------------------------
(***************************************************************************)
(* The hand-shake of the UDP listener, for any number of peers, datagrams  *)
(* and dropped streams: a stream reads only what its own peer sent, and an *)
(* open stream is the one its peer is registered with.                     *)
(***************************************************************************)
EXTENDS UdpServer, FiniteSetTheorems, SequenceTheorems, TLAPS

USE SMTT(40), ZenonT(40), Z3T(40), SMTT(30), Z3T(30)

Live == open \ expired
Handing == server \in {"wait", "yielded"}

\* An entry of `peers' is a stream of that peer.
MapInv ==
  \A p \in Peers : peers[p] # NoStream =>
    peers[p] \in Created /\ peerOf[peers[p]] = p

\* While the server runs an open stream is registered, and a key waits for
\* its deletion only if its entry is still there and its stream was dropped.
RegInv ==
  server # "closed" =>
    /\ \A s \in open : peers[peerOf[s]] = s
    /\ \A p \in keysToDelete : peers[p] # NoStream /\ peers[p] \notin open
    /\ Cardinality(Ended) <= MaxDrops

\* While the server runs a live stream that was told to read, or is about to,
\* is the one the server waits for; it has not answered yet, and the next
\* datagram is from its peer.  Only the awaited stream has an answer pending.
HandInv ==
  server # "closed" =>
    /\ \A s \in Live : s \in hasData \/ s \notin armed =>
         /\ Handing /\ awaited = s /\ s \notin hasRead
         /\ socket # << >> /\ Head(socket) = peerOf[s]
    /\ \A s \in Live : s \in hasData => s \in armed
    /\ \A s \in open : s \in hasRead => Handing /\ awaited = s

Inv == TypeOK /\ MapInv /\ RegInv /\ HandInv

-----------------------------------------------------------------------------
\* The sets of streams hold streams that were created; a set of created
\* streams is a finite set of stream numbers.
LEMMA StreamTypes ==
  ASSUME TypeOK
  PROVE  /\ open \subseteq Created /\ expired \subseteq Created
         /\ hasData \subseteq Created /\ armed \subseteq Created
         /\ hasRead \subseteq Created /\ readBefore \subseteq Created
         /\ Len(peerOf) \in Nat /\ Cardinality(Peers) \in Nat
         /\ Created \subseteq Streams /\ NoStream \notin Streams
         /\ \A s \in Created : s \in Nat /\ peerOf[s] \in Peers
         /\ IsFiniteSet(Created) /\ Cardinality(Created) = Len(peerOf)
<1>1. /\ open \subseteq Created /\ expired \subseteq Created
      /\ hasData \subseteq Created /\ armed \subseteq Created
      /\ hasRead \subseteq Created /\ readBefore \subseteq Created
  BY DEF TypeOK
<1>2. Len(peerOf) \in Nat /\ peerOf \in [1 .. Len(peerOf) -> Peers]
  BY LenProperties DEF TypeOK
<1>3. Cardinality(Peers) \in Nat
  BY UdpAssumption, FS_CardinalityType
<1>4. Created \subseteq Streams
  BY <1>2, <1>3, UdpAssumption DEF TypeOK, Created, Streams
<1>5. NoStream \notin Streams
  BY <1>3, UdpAssumption DEF Streams
<1>6. \A s \in Created : s \in Nat /\ peerOf[s] \in Peers
  BY <1>2 DEF Created
<1>7. IsFiniteSet(Created) /\ Cardinality(Created) = Len(peerOf)
  BY <1>2, FS_Interval DEF Created
<1> QED BY <1>1, <1>2, <1>3, <1>4, <1>5, <1>6, <1>7

\* At most MaxDrops streams have ended, and the open ones are registered with
\* one peer each: with a peer that has none there is a stream number left.
LEMMA NumberLeft ==
  ASSUME Inv, server # "closed", NEW q \in Peers, peers[q] = NoStream
  PROVE  Len(peerOf) + 1 <= MaxDrops + Cardinality(Peers)
<1> DEFINE Gone == Created \ open
<1>0. TypeOK BY DEF Inv
<1>1. /\ open \subseteq Created /\ expired \subseteq Created
      /\ Len(peerOf) \in Nat /\ Cardinality(Peers) \in Nat
      /\ \A s \in open : s \in Nat /\ peerOf[s] \in Peers
      /\ IsFiniteSet(Created) /\ Cardinality(Created) = Len(peerOf)
  BY <1>0, StreamTypes
<1>2. IsFiniteSet(Ended) /\ Gone \in SUBSET Ended
  <2>1. Ended \in SUBSET Created
    BY <1>1 DEF Ended
  <2>2. IsFiniteSet(Ended)
    BY <1>1, <2>1, FS_Subset
  <2> QED BY <2>2 DEF Ended
<1>3. IsFiniteSet(Gone) /\ Cardinality(Gone) <= Cardinality(Ended)
  BY <1>2, FS_Subset
<1>4. Cardinality(Ended) \in Nat /\ Cardinality(Gone) \in Nat
  BY <1>2, <1>3, FS_CardinalityType
<1>5. Cardinality(Ended) <= MaxDrops
  BY DEF Inv, RegInv
<1> DEFINE f == [s \in open |-> peerOf[s]]
<1>6. f \in Injection(open, Peers \ {q})
  <2>1. \A s \in open : peers[peerOf[s]] = s
    BY DEF Inv, RegInv
  <2>2. NoStream \notin Nat
    BY UdpAssumption
  <2>3. \A s \in open : peerOf[s] # q
    BY <1>1, <2>1, <2>2
  <2>4. f \in [open -> Peers \ {q}]
    BY <1>1, <2>3
  <2>5. \A s, t \in open : f[s] = f[t] => s = t
    BY <2>1
  <2> QED BY <2>4, <2>5 DEF Injection, IsInjective
<1>7. /\ IsFiniteSet(Peers \ {q})
      /\ Cardinality(Peers \ {q}) = Cardinality(Peers) - 1
  BY UdpAssumption, FS_RemoveElement
<1> HIDE DEF f
<1>8. IsFiniteSet(open) /\ Cardinality(open) <= Cardinality(Peers) - 1
  BY <1>6, <1>7, FS_Injection
<1>9. Cardinality(open) \in Nat
  BY <1>8, FS_CardinalityType
<1>10. Cardinality(Created) = Cardinality(open) + Cardinality(Gone)
  <2>1. open \cap Gone = {} /\ open \cup Gone = Created
    BY <1>1
  <2> HIDE DEF Gone
  <2>2. Cardinality(open \cup Gone) = Cardinality(open) + Cardinality(Gone)
                                       - Cardinality(open \cap Gone)
    BY <1>3, <1>8, FS_Union
  <2>3. Cardinality(open \cap Gone) = 0
    BY <2>1, FS_EmptySet
  <2>4. Cardinality(open \cup Gone) = Cardinality(Created)
    BY <2>1, ZenonT(40)
  <2> QED BY <1>4, <1>9, <2>2, <2>3, <2>4
<1> HIDE DEF Gone
<1> QED BY <1>1, <1>3, <1>4, <1>5, <1>8, <1>9, <1>10, UdpAssumption

\* One more stream ends: the bound of MayEnd leaves room for it.
LEMMA OneMoreEnds ==
  ASSUME TypeOK, NEW s \in Created, MayEnd(s), server # "closed",
         Cardinality(Ended) <= MaxDrops
  PROVE  Cardinality(Ended \cup {s}) <= MaxDrops
<1>1. IsFiniteSet(Ended)
  <2>1. Ended \in SUBSET Created /\ IsFiniteSet(Created)
    BY StreamTypes DEF Ended
  <2> QED BY <2>1, FS_Subset
<1>2. Cardinality(Ended) \in Nat
  BY <1>1, FS_CardinalityType
<1>3. Cardinality(Ended \cup {s}) = IF s \in Ended THEN Cardinality(Ended)
                                    ELSE Cardinality(Ended) + 1
  BY <1>1, FS_AddElement
<1>4. s \in expired => s \in Ended
  BY DEF Ended
<1> QED BY <1>2, <1>3, <1>4, UdpAssumption DEF MayEnd

-----------------------------------------------------------------------------
LEMMA InvInit ==
  ASSUME Init
  PROVE  Inv
<1>1. Len(<< >>) = 0 /\ << >> \in Seq(Peers)
  OBVIOUS
<1>2. Cardinality(Peers) \in Nat
  BY UdpAssumption, FS_CardinalityType
<1>3. TypeOK
  BY <1>1, <1>2, UdpAssumption DEF Init, TypeOK, Created, Streams
<1>4. MapInv
  BY DEF Init, MapInv
<1>5. RegInv
  <2>1. Ended = {}
    BY <1>1 DEF Init, Ended, Created
  <2>2. Cardinality(Ended) = 0
    BY <2>1, FS_EmptySet
  <2> QED BY <2>2, UdpAssumption DEF Init, RegInv
<1>6. HandInv
  BY DEF Init, HandInv, Live
<1> QED BY <1>3, <1>4, <1>5, <1>6 DEF Inv

\* A datagram goes to the tail of the socket: the head stays.
LEMMA ArriveStep ==
  ASSUME Inv, NEW p \in Peers, Arrive(p)
  PROVE  Inv'
<1> USE DEF Inv, Arrive, streamVars
<1>1. TypeOK
  OBVIOUS
<1>2. socket' \in Seq(Peers) /\ arrived' \in 0 .. MaxDatagrams
  BY <1>1, UdpAssumption DEF TypeOK
<1>3. TypeOK'
  BY <1>1, <1>2 DEF TypeOK, Created
<1>4. MapInv'
  BY DEF MapInv, Created
<1>5. Ended' = Ended
  BY DEF Ended, Created
<1>6. RegInv'
  BY <1>5 DEF RegInv
<1>7. socket # << >> => socket' # << >> /\ Head(socket') = Head(socket)
  BY <1>1 DEF TypeOK
<1>8. HandInv'
  BY <1>7 DEF HandInv, Live, Handing
<1> QED BY <1>3, <1>4, <1>6, <1>8

\* clean_dead_keys: only dropped streams leave the map.
LEMMA CleanStep ==
  ASSUME Inv, CleanDeadKeys
  PROVE  Inv'
<1> USE DEF Inv, CleanDeadKeys, streamVars
<1>1. TypeOK
  OBVIOUS
<1>2. peers' \in [Peers -> Streams \cup {NoStream}]
  BY <1>1 DEF TypeOK
<1>3. TypeOK'
  BY <1>1, <1>2 DEF TypeOK, Created
<1>4. MapInv'
  BY DEF MapInv, Created
<1>5. Ended' = Ended
  BY DEF Ended, Created
<1>6. \A s \in open : peers'[peerOf[s]] = s
  <2>1. \A s \in open : peerOf[s] \in Peers /\ peers[peerOf[s]] = s
    BY <1>1, StreamTypes DEF RegInv
  <2>2. \A s \in open : peerOf[s] \notin keysToDelete
    BY <2>1 DEF RegInv
  <2> QED BY <2>1, <2>2
<1>7. RegInv'
  BY <1>5, <1>6 DEF RegInv
<1>8. HandInv'
  BY DEF HandInv, Live, Handing
<1> QED BY <1>3, <1>4, <1>7, <1>8

\* The server hands the head of the socket to the stream of its sender; in
\* "peek" no other stream was told to read.
LEMMA NotifyStep ==
  ASSUME Inv, NotifyPeer
  PROVE  Inv'
<1> USE DEF Inv, NotifyPeer, streamVars
<1>1. TypeOK
  OBVIOUS
<1>2. PICK s : s = peers[Head(socket)]
  OBVIOUS
<1>3. Head(socket) \in Peers
  BY <1>1 DEF TypeOK
<1>4. s \in Created /\ peerOf[s] = Head(socket)
  BY <1>2, <1>3 DEF MapInv
<1>5. s \in Streams
  BY <1>1, <1>4, StreamTypes
<1>6. hasData' \subseteq Created
  BY <1>1, <1>2, <1>4, StreamTypes
<1>7. TypeOK'
  BY <1>1, <1>2, <1>5, <1>6 DEF TypeOK, Created
<1>8. MapInv'
  BY DEF MapInv, Created
<1>9. Ended' = Ended
  BY DEF Ended, Created
<1>10. RegInv'
  BY <1>9 DEF RegInv
<1>11. HandInv'
  BY <1>2, <1>4 DEF HandInv, Live, Handing
<1> QED BY <1>7, <1>8, <1>10, <1>11

\* The stream of a new peer gets the next number, the entry of its peer and
\* the head of the socket.
LEMMA NewPeerStep ==
  ASSUME Inv, NewPeer
  PROVE  Inv'
<1> DEFINE n == Len(peerOf) + 1
           q == Head(socket)
<1>0. TypeOK /\ server = "peek" /\ socket # << >> /\ peers[q] = NoStream
  BY DEF Inv, NewPeer
<1>1. q \in Peers
  BY <1>0 DEF TypeOK
<1>2. /\ open \subseteq Created /\ expired \subseteq Created
      /\ hasData \subseteq Created /\ armed \subseteq Created
      /\ hasRead \subseteq Created /\ readBefore \subseteq Created
      /\ Len(peerOf) \in Nat /\ Cardinality(Peers) \in Nat
      /\ \A s \in Created : s \in Nat /\ peerOf[s] \in Peers
  BY <1>0, StreamTypes
<1>3. n \in Nat /\ n <= MaxDrops + Cardinality(Peers)
  BY <1>0, <1>1, <1>2, NumberLeft
<1>4. n \in Streams /\ n \notin Created
  BY <1>2, <1>3, UdpAssumption DEF Streams, Created
<1>5. /\ peerOf' \in Seq(Peers) /\ Len(peerOf') = n
      /\ \A s \in Created : peerOf'[s] = peerOf[s]
      /\ peerOf'[n] = q
  BY <1>0, <1>1, <1>2 DEF TypeOK, NewPeer, Created
<1>6. Created' = Created \cup {n}
  BY <1>2, <1>5 DEF Created
<1>7. /\ open' = open \cup {n} /\ armed' = armed \cup {n}
      /\ hasData' = hasData \cup {n} /\ awaited' = n /\ server' = "yielded"
      /\ peers' = [peers EXCEPT ![q] = n]
      /\ socket' = socket /\ arrived' = arrived
      /\ keysToDelete' = keysToDelete /\ expired' = expired
      /\ hasRead' = hasRead /\ readBefore' = readBefore
  BY DEF NewPeer
<1>8. peers' \in [Peers -> Streams \cup {NoStream}]
  BY <1>0, <1>4, <1>7 DEF TypeOK
<1>9. \A p \in Peers : peers'[p] = IF p = q THEN n ELSE peers[p]
  BY <1>0, <1>7 DEF TypeOK
<1> HIDE DEF n, q
<1>10. TypeOK'
  <2>1. \A set \in {open', expired', hasData', armed', hasRead', readBefore'} :
          set \subseteq Created'
    BY <1>2, <1>6, <1>7
  <2>2. Len(peerOf') <= MaxDrops + Cardinality(Peers)
    BY <1>3, <1>5
  <2> QED BY <1>0, <1>4, <1>5, <1>7, <1>8, <2>1, <2>2 DEF TypeOK
<1>11. MapInv'
  BY <1>4, <1>5, <1>6, <1>9 DEF Inv, MapInv
<1>12. RegInv'
  <2>1. Ended' = Ended
    BY <1>2, <1>4, <1>6, <1>7 DEF Ended
  <2>2. \A s \in open : peerOf[s] # q
    BY <1>0, <1>2, UdpAssumption DEF Inv, RegInv
  <2>3. \A s \in open' : peers'[peerOf'[s]] = s
    BY <1>0, <1>1, <1>2, <1>5, <1>7, <1>9, <2>2 DEF Inv, RegInv
  <2>4. \A p \in keysToDelete' : peers'[p] # NoStream /\ peers'[p] \notin open'
    <3>1. \A p \in keysToDelete : p \in Peers /\ p # q
      BY <1>0 DEF TypeOK, Inv, RegInv
    <3>2. \A p \in keysToDelete : peers[p] \in Created
      BY <1>0, <3>1 DEF Inv, RegInv, MapInv
    <3> QED BY <1>0, <1>4, <1>7, <1>9, <3>1, <3>2 DEF Inv, RegInv
  <2> QED BY <1>0, <2>1, <2>3, <2>4 DEF Inv, RegInv
<1>13. HandInv'
  <2>1. \A s \in Live : s \notin hasData /\ s \in armed
    BY <1>0 DEF Inv, HandInv, Handing
  <2>2. \A s \in open : s \notin hasRead
    BY <1>0 DEF Inv, HandInv, Handing
  <2>3. n \notin hasRead
    BY <1>2, <1>4
  <2> QED BY <1>0, <1>5, <1>7, <2>1, <2>2, <2>3 DEF HandInv, Handing, Live, q
<1> QED BY <1>10, <1>11, <1>12, <1>13 DEF Inv

\* The server waits for the stream it yielded, hears from the one it waits
\* for, or stops.
LEMMA ServerStepRest ==
  ASSUME Inv, Resume \/ Awaited \/ ServerClose
  PROVE  Inv'
<1> USE DEF Inv, Resume, Awaited, ServerClose, streamVars
<1>1. TypeOK'
  BY DEF TypeOK, Created
<1>2. MapInv'
  BY DEF MapInv, Created
<1>3. Ended' = Ended
  BY DEF Ended, Created
<1>4. RegInv'
  BY <1>3 DEF RegInv
<1>5. CASE Resume
  BY <1>5, <1>1, <1>2, <1>4 DEF HandInv, Live, Handing
<1>6. CASE Awaited
  BY <1>6, <1>1, <1>2, <1>4 DEF HandInv, Live, Handing
<1>7. CASE ServerClose
  BY <1>7, <1>1, <1>2, <1>4 DEF HandInv
<1> QED BY <1>5, <1>6, <1>7

\* poll_read: the notification completes, then the datagram is taken.  The
\* stream is the awaited one, so no other stream looks at the new head.
LEMMA ReadStep ==
  ASSUME Inv, NEW s \in Streams, StreamStep(s)
  PROVE  Inv'
<1> USE DEF Inv, StreamStep, PollNotified, RecvFrom
<1>1. TypeOK'
  <2>1. TypeOK
    OBVIOUS
  <2>2. socket' \in Seq(Peers)
    <3> HIDE DEF Inv, StreamStep, PollNotified, RecvFrom
    <3>1. socket \in Seq(Peers)
      BY <2>1 DEF TypeOK
    <3>2. socket # << >> => Tail(socket) \in Seq(Peers)
      BY <3>1
    <3>3. socket' = socket \/ (socket # << >> /\ socket' = Tail(socket))
      BY DEF StreamStep, PollNotified, RecvFrom
    <3> QED BY <3>1, <3>2, <3>3
  <2>3. s \in Created
    BY <2>1, StreamTypes
  <2>4. \A set \in {open', expired', hasData', armed', hasRead', readBefore'} :
          set \subseteq Created'
    BY <2>1, <2>3, StreamTypes DEF Created
  <2> QED BY <2>1, <2>2, <2>4 DEF TypeOK
<1>2. MapInv'
  BY DEF MapInv, Created
<1>3. Ended' = Ended
  BY DEF Ended, Created
<1>4. RegInv'
  BY <1>3 DEF RegInv
<1>5. CASE PollNotified(s)
  BY <1>5, <1>1, <1>2, <1>4 DEF HandInv, Live, Handing
<1>6. CASE RecvFrom(s)
  BY <1>6, <1>1, <1>2, <1>4 DEF HandInv, Live, Handing
<1> QED BY <1>5, <1>6

\* The watchdog of a stream fires.
LEMMA WatchdogStep ==
  ASSUME Inv, NEW s \in Streams, Watchdog(s)
  PROVE  Inv'
<1> USE DEF Inv, Watchdog
<1>0. TypeOK
  OBVIOUS
<1>1. s \in Created
  BY <1>0, StreamTypes
<1>2. TypeOK'
  <2>1. \A set \in {open', expired', hasData', armed', hasRead', readBefore'} :
          set \subseteq Created'
    BY <1>0, <1>1, StreamTypes DEF Created
  <2> QED BY <1>0, <2>1 DEF TypeOK
<1>3. MapInv'
  BY DEF MapInv, Created
<1>4. server # "closed" => Cardinality(Ended') <= MaxDrops
  <2>1. CASE s \in readBefore
    <3>1. Ended' = Ended
      BY <2>1 DEF Ended, Created
    <3> QED BY <3>1 DEF RegInv
  <2>2. CASE s \notin readBefore
    <3>1. Ended' = Ended \cup {s}
      BY <2>2 DEF Ended, Created
    <3>2. MayEnd(s)
      BY <2>2
    <3> QED BY <1>0, <1>1, <3>1, <3>2, OneMoreEnds DEF RegInv
  <2> QED BY <2>1, <2>2
<1>5. RegInv'
  BY <1>4 DEF RegInv
<1>6. HandInv'
  BY DEF HandInv, Live, Handing
<1> QED BY <1>2, <1>3, <1>5, <1>6

\* Dropping a stream queues its peer, whose entry is that stream.
LEMMA DropStep ==
  ASSUME Inv, NEW s \in Streams, Drop(s)
  PROVE  Inv'
<1> USE DEF Inv, Drop
<1>0. TypeOK
  OBVIOUS
<1>1. s \in Created /\ peerOf[s] \in Peers /\ s \in Nat /\ open \subseteq Created
  BY <1>0, StreamTypes
<1>2. TypeOK'
  <2>1. \A set \in {open', expired', hasData', armed', hasRead', readBefore'} :
          set \subseteq Created'
    BY <1>0, <1>1, StreamTypes DEF Created
  <2>2. keysToDelete' \in SUBSET Peers
    BY <1>0, <1>1 DEF TypeOK
  <2> QED BY <1>0, <2>1, <2>2 DEF TypeOK
<1>3. MapInv'
  BY DEF MapInv, Created
<1>4. server # "closed" => Cardinality(Ended') <= MaxDrops
  <2>1. Ended' = Ended \cup {s}
    BY <1>1 DEF Ended, Created
  <2> QED BY <1>0, <1>1, <2>1, OneMoreEnds DEF RegInv
<1>5. RegInv'
  <2>1. s # NoStream
    BY <1>1, UdpAssumption
  <2> QED BY <1>4, <2>1 DEF RegInv
<1>6. HandInv'
  BY DEF HandInv, Live, Handing
<1> QED BY <1>2, <1>3, <1>5, <1>6

LEMMA InvStep ==
  ASSUME Inv, [Next]_vars
  PROVE  Inv'
<1>1. ASSUME NEW p \in Peers, Arrive(p) PROVE Inv'
  BY <1>1, ArriveStep
<1>2. CASE CleanDeadKeys BY <1>2, CleanStep
<1>3. CASE NotifyPeer BY <1>3, NotifyStep
<1>4. CASE NewPeer BY <1>4, NewPeerStep
<1>5. CASE Resume \/ Awaited \/ ServerClose BY <1>5, ServerStepRest
<1>6. ASSUME NEW s \in Streams, StreamStep(s) PROVE Inv'
  BY <1>6, ReadStep
<1>7. ASSUME NEW s \in Streams, Watchdog(s) PROVE Inv'
  BY <1>7, WatchdogStep
<1>8. ASSUME NEW s \in Streams, Drop(s) PROVE Inv'
  BY <1>8, DropStep
<1>9. CASE UNCHANGED vars
  <2> USE <1>9 DEF vars, Inv
  <2>1. TypeOK' BY DEF TypeOK, Created
  <2>2. MapInv' BY DEF MapInv, Created
  <2>3. RegInv' BY DEF RegInv, Ended, Created
  <2>4. HandInv' BY DEF HandInv, Live, Handing
  <2> QED BY <2>1, <2>2, <2>3, <2>4
<1> QED
  BY <1>1, <1>2, <1>3, <1>4, <1>5, <1>6, <1>7, <1>8, <1>9
  DEF Next, ServerStep

LEMMA InvAlways == Spec => []Inv
<1>1. Init => Inv BY InvInit
<1>2. Inv /\ [Next]_vars => Inv' BY InvStep
<1> QED BY <1>1, <1>2, PTL DEF Spec

-----------------------------------------------------------------------------
\* debug_assert_eq!(peer, *project.peer) in poll_read holds: while the server
\* runs, a stream about to take a datagram finds one of its own peer, however
\* arrivals, polls, time-outs and drops interleave.
THEOREM StreamsReadTheirOwn == Spec => []ReadsOwnDatagram
<1>1. Inv => ReadsOwnDatagram
  BY DEF Inv, HandInv, Live, ReadsOwnDatagram
<1> QED BY <1>1, InvAlways, PTL

\* While the server runs, an open stream is the one `peers' holds for its
\* peer: clean_dead_keys never removes the entry of a stream in use, although
\* the list of dead keys names peers and not streams.
THEOREM OpenStreamsRegistered == Spec => []OpenIsRegistered
<1>1. Inv => OpenIsRegistered
  BY DEF Inv, RegInv, OpenIsRegistered
<1> QED BY <1>1, InvAlways, PTL
=============================================================================
