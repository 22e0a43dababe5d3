---------------------------- MODULE Socks5Proofs ----------------------------
(***************************************************************************)
(* A proof that the UDP server behind the socks5 listener never forgets a  *)
(* stream that is in use, for any number of keys, clients and datagrams.   *)
(***************************************************************************)
EXTENDS Socks5, SequenceTheorems, TLAPS

USE SMTT(40), ZenonT(40), Z3T(40), SMTT(30), Z3T(30)

\* Every datagram makes at most one stream, so there is a number for each.
NumbersInv ==
  Len(keyOf) + Len(socket) + (IF udp = "dispatch" THEN 1 ELSE 0) <= arrived

\* An entry is that of a stream with its key; a stream that has not written
\* its key down is the entry of its key; and a key that was written down
\* belongs to an entry whose stream is being dropped.  Only a server about to
\* clean up may already have lost that entry, having met it when it was dead.
KeysInv ==
  /\ \A k \in Keys : peers[k] # NoStream =>
       peers[k] \in DOMAIN keyOf /\ keyOf[peers[k]] = k
  /\ \A s \in DOMAIN keyOf : phase[s] \in {"open", "ended"} => peers[keyOf[s]] = s
  /\ \A k \in keysToDelete :
       IF peers[k] = NoStream THEN udp = "clean"
       ELSE phase[peers[k]] \in {"dropping", "dropped"}

Inv == TypeOK /\ NumbersInv /\ KeysInv

\* One more entry at the end of a table with n of them.
LEMMA TableAppend ==
  ASSUME NEW S, NEW n \in Nat, NEW f \in [1 .. n -> S], NEW x \in S
  PROVE  Append(f, x) \in [1 .. n + 1 -> S]
<1>1. f \in Seq(S) /\ Len(f) = n
  OBVIOUS
<1>2. Append(f, x) \in Seq(S) /\ Len(Append(f, x)) = n + 1
  BY <1>1
<1> QED
  BY <1>2, LenProperties, ZenonT(40)

\* The invariant holds before anything has arrived.
LEMMA InvInit == Init => Inv
<1> SUFFICES ASSUME Init PROVE Inv
  OBVIOUS
<1> USE Socks5Assumption
<1>1. TypeOK
  BY DEF Init, TypeOK, Streams, Datagram
<1>2. NumbersInv
  BY DEF Init, NumbersInv
<1>3. KeysInv
  BY DEF Init, KeysInv
<1> QED
  BY <1>1, <1>2, <1>3 DEF Inv

\* Steps of the TCP side, and of the network towards it, touch nothing that
\* the UDP server keeps.
LEMMA TcpStep ==
  ASSUME Inv,
         \/ \E c \in Clients : Connect(c) \/ Dissociate(c)
         \/ Accept \/ Reject \/ Upgraded \/ Reply \/ ReplyUdp \/ ReceiveFails
  PROVE  Inv'
<1> USE Socks5Assumption
<1>1. UNCHANGED udpVars
  BY DEF Connect, Dissociate, Accept, Reject, Upgraded, Reply, ReplyUdp,
         ReceiveFails, Finish
<1>2. /\ client' \in [Clients -> {"away", "waiting", "handshake", "tunnelled",
                                  "rejected", "associated", "left"}]
      /\ backlog' \in Seq(Clients) /\ cur' \in Clients \cup {NoClient}
      /\ pc' \in {"select", "handshake", "reply", "replyUdp", "closed"}
  <2>1. ASSUME NEW c \in Clients, Connect(c) PROVE <1>2!:
    BY <2>1 DEF Inv, TypeOK, Connect
  <2>2. ASSUME NEW c \in Clients, Dissociate(c) PROVE <1>2!:
    BY <2>2 DEF Inv, TypeOK, Dissociate
  <2>3. CASE Accept
    BY <2>3 DEF Inv, TypeOK, Accept
  <2>4. CASE Reject \/ Upgraded \/ Reply \/ ReplyUdp \/ ReceiveFails
    BY <2>4, ZenonT(40)
    DEF Inv, TypeOK, Reject, Upgraded, Reply, ReplyUdp, ReceiveFails, Finish
  <2> QED
    BY <2>1, <2>2, <2>3, <2>4
<1>3. TypeOK'
  BY <1>1, <1>2 DEF Inv, TypeOK, udpVars, streamVars
<1>4. NumbersInv' /\ KeysInv'
  BY <1>1 DEF Inv, NumbersInv, KeysInv, udpVars, streamVars
<1> QED
  BY <1>3, <1>4 DEF Inv

\* A datagram comes in.
LEMMA ArriveStep ==
  ASSUME Inv, NEW d \in Datagram, Arrive(d)
  PROVE  Inv'
<1> USE Socks5Assumption
<1>1. TypeOK'
  BY DEF Inv, TypeOK, Arrive, tcpVars, streamVars
<1>2. NumbersInv'
  BY DEF Inv, TypeOK, NumbersInv, Arrive, streamVars
<1>3. KeysInv'
  BY DEF Inv, KeysInv, Arrive, streamVars
<1> QED
  BY <1>1, <1>2, <1>3 DEF Inv

\* clean_dead_keys forgets entries of streams that are being dropped, and no
\* others.
LEMMA CleanStep ==
  ASSUME Inv, CleanDeadKeys
  PROVE  Inv'
<1> USE Socks5Assumption
<1>1. TypeOK'
  BY DEF Inv, TypeOK, CleanDeadKeys, tcpVars, streamVars
<1>2. NumbersInv'
  BY DEF Inv, TypeOK, NumbersInv, CleanDeadKeys, streamVars
<1>3. ASSUME NEW s \in DOMAIN keyOf, phase[s] \in {"open", "ended"}
      PROVE  peers'[keyOf[s]] = s
  <2>1. keyOf[s] \in Keys /\ s \in Nat
    BY DEF Inv, TypeOK
  <2>2. peers[keyOf[s]] = s /\ s # NoStream
    BY <1>3, <2>1 DEF Inv, KeysInv
  <2>3. keyOf[s] \notin keysToDelete
    BY <1>3, <2>2 DEF Inv, KeysInv
  <2> QED
    BY <2>1, <2>2, <2>3 DEF CleanDeadKeys
<1>4. KeysInv'
  BY <1>3, ZenonT(40) DEF Inv, TypeOK, KeysInv, CleanDeadKeys, streamVars
<1> QED
  BY <1>1, <1>2, <1>4 DEF Inv

\* A datagram is taken from the socket; all keys that were written down were
\* cleaned up or still have their entry.
LEMMA ReceiveStep ==
  ASSUME Inv, Receive
  PROVE  Inv'
<1> USE Socks5Assumption
<1>1. Head(socket) \in Datagram /\ Tail(socket) \in Seq(Datagram)
      /\ Len(Tail(socket)) = Len(socket) - 1
  BY DEF Inv, TypeOK, Receive
<1>2. TypeOK'
  BY <1>1 DEF Inv, TypeOK, Receive, tcpVars, streamVars, Datagram
<1>3. NumbersInv'
  BY <1>1 DEF Inv, TypeOK, NumbersInv, Receive, streamVars
<1>4. KeysInv'
  BY DEF Inv, TypeOK, KeysInv, Receive, streamVars
<1> QED
  BY <1>2, <1>3, <1>4 DEF Inv

\* The datagram goes to the stream of its key, or the entry of a stream that
\* is gone is removed.
LEMMA DeliverStep ==
  ASSUME Inv, Deliver
  PROVE  Inv'
<1> USE Socks5Assumption
<1>1. /\ dest \in Keys /\ peers[dest] \in DOMAIN keyOf
      /\ keyOf[peers[dest]] = dest
  BY DEF Inv, TypeOK, KeysInv, Deliver
<1>2. TypeOK'
  <2>1. peers' \in [Keys -> Streams \cup {NoStream}]
    BY <1>1 DEF Inv, TypeOK, Deliver
  <2>2. queue' \in [DOMAIN keyOf -> 0 .. QueueCapacity]
    <3>1. queue \in [DOMAIN keyOf -> 0 .. QueueCapacity]
      BY DEF Inv, TypeOK
    <3>2. CASE queue' = queue
      BY <3>1, <3>2
    <3>3. CASE /\ queue[peers[dest]] < QueueCapacity
               /\ queue' = [queue EXCEPT ![peers[dest]] = @ + 1]
      BY <1>1, <3>1, <3>3
    <3> QED
      BY <3>2, <3>3 DEF Deliver
  <2> QED
    BY <2>1, <2>2 DEF Inv, TypeOK, Deliver, tcpVars
<1>3. NumbersInv'
  BY DEF Inv, TypeOK, NumbersInv, Deliver
<1>4. KeysInv'
  <2>1. CASE UNCHANGED peers
    BY <2>1 DEF Inv, TypeOK, KeysInv, Deliver
  <2>2. CASE phase[peers[dest]] = "dropped" /\ peers' = [peers EXCEPT ![dest] = NoStream]
    BY <1>1, <2>2 DEF Inv, TypeOK, KeysInv, Deliver
  <2> QED
    BY <2>1, <2>2 DEF Deliver
<1> QED
  BY <1>2, <1>3, <1>4 DEF Inv

\* A stream is made for a key that has no entry: no stream of that key is in
\* use, and none has left the key behind.
LEMMA NewStreamStep ==
  ASSUME Inv, NewStream
  PROVE  Inv'
<1> USE Socks5Assumption
<1> DEFINE n == Len(keyOf) + 1
<1>1. /\ keyOf \in Seq(Keys) /\ dest \in Keys /\ n \in Nat
      /\ DOMAIN keyOf = 1 .. Len(keyOf)
      /\ peers \in [Keys -> Streams \cup {NoStream}]
      /\ phase \in [DOMAIN keyOf -> {"open", "ended", "dropping", "dropped"}]
      /\ queue \in [DOMAIN keyOf -> 0 .. QueueCapacity]
      /\ readBefore \in [DOMAIN keyOf -> BOOLEAN]
  BY DEF Inv, TypeOK
<1>2. /\ keyOf' \in Seq(Keys) /\ Len(keyOf') = n /\ DOMAIN keyOf' = 1 .. n
      /\ keyOf'[n] = dest /\ \A s \in DOMAIN keyOf : keyOf'[s] = keyOf[s]
  BY <1>1 DEF NewStream
<1>3. /\ phase' \in [1 .. n -> {"open", "ended", "dropping", "dropped"}]
      /\ phase'[n] = "open" /\ \A s \in DOMAIN keyOf : phase'[s] = phase[s]
  <2> DEFINE Phases == {"open", "ended", "dropping", "dropped"}
  <2>1. phase \in [1 .. Len(keyOf) -> Phases] /\ "open" \in Phases
    BY <1>1
  <2>2. phase' = Append(phase, "open") /\ Len(keyOf) \in Nat
    BY <1>1 DEF NewStream
  <2> HIDE DEF Phases
  <2>3. phase' \in [1 .. n -> Phases]
    BY <2>1, <2>2, TableAppend, ZenonT(40)
  <2>4. phase \in Seq(Phases) /\ Len(phase) = Len(keyOf)
    BY <2>1, <2>2
  <2>5. /\ Append(phase, "open")[n] = "open"
        /\ \A s \in 1 .. Len(keyOf) : Append(phase, "open")[s] = phase[s]
    BY <2>1, <2>2, <2>4
  <2> QED
    BY <1>1, <2>2, <2>3, <2>5 DEF Phases
<1>4. queue' \in [1 .. n -> 0 .. QueueCapacity]
  <2>1. queue \in [1 .. Len(keyOf) -> 0 .. QueueCapacity] /\ 1 \in 0 .. QueueCapacity
    BY <1>1
  <2>2. queue' = Append(queue, 1) /\ Len(keyOf) \in Nat
    BY <1>1 DEF NewStream
  <2> QED
    BY <2>1, <2>2, TableAppend, ZenonT(40)
<1>5. readBefore' \in [1 .. n -> BOOLEAN]
  <2>1. readBefore \in [1 .. Len(keyOf) -> BOOLEAN] /\ FALSE \in BOOLEAN
    BY <1>1
  <2>2. readBefore' = Append(readBefore, FALSE) /\ Len(keyOf) \in Nat
    BY <1>1 DEF NewStream
  <2> QED
    BY <2>1, <2>2, TableAppend, ZenonT(40)
<1>6. n \in Streams
  BY <1>1 DEF Inv, TypeOK, NumbersInv, NewStream, Streams
<1>7. /\ peers' \in [Keys -> Streams \cup {NoStream}]
      /\ peers'[dest] = n /\ \A k \in Keys \ {dest} : peers'[k] = peers[k]
  BY <1>1, <1>2, <1>6 DEF NewStream
<1>8. TypeOK'
  BY <1>2, <1>3, <1>4, <1>5, <1>7, ZenonT(40) DEF Inv, TypeOK, NewStream, tcpVars
<1>9. NumbersInv'
  BY <1>1, <1>2 DEF Inv, TypeOK, NumbersInv, NewStream
<1>10. KeysInv'
  <2>1. \A k \in Keys : peers'[k] # NoStream =>
          peers'[k] \in DOMAIN keyOf' /\ keyOf'[peers'[k]] = k
    BY <1>1, <1>2, <1>7 DEF Inv, KeysInv
  <2>2. ASSUME NEW s \in DOMAIN keyOf', phase'[s] \in {"open", "ended"}
        PROVE  peers'[keyOf'[s]] = s
    <3>1. CASE s = n
      BY <1>2, <1>7, <3>1
    <3>2. CASE s # n
      <4>1. s \in DOMAIN keyOf /\ s \in Nat
        BY <1>1, <1>2, <3>2
      <4>2. keyOf[s] \in Keys /\ peers[keyOf[s]] = s
        BY <1>1, <1>3, <2>2, <4>1 DEF Inv, KeysInv
      <4>3. keyOf[s] # dest
        BY <4>1, <4>2 DEF NewStream
      <4> QED
        BY <1>2, <1>7, <4>1, <4>2, <4>3
    <3> QED
      BY <3>1, <3>2
  <2>3. ASSUME NEW k \in keysToDelete'
        PROVE  IF peers'[k] = NoStream THEN udp' = "clean"
               ELSE phase'[peers'[k]] \in {"dropping", "dropped"}
    <3>1. k \in keysToDelete /\ k \in Keys
      BY DEF Inv, TypeOK, NewStream
    <3>2. k # dest
      BY <3>1 DEF Inv, KeysInv, NewStream
    <3>3. peers'[k] = peers[k]
      BY <1>7, <3>1, <3>2
    <3>4. CASE peers[k] = NoStream
      BY <3>3, <3>4 DEF NewStream
    <3>5. CASE peers[k] # NoStream
      <4>1. peers[k] \in DOMAIN keyOf /\ phase[peers[k]] \in {"dropping", "dropped"}
        BY <3>1, <3>5 DEF Inv, KeysInv
      <4> QED
        BY <1>3, <3>3, <3>5, <4>1
    <3> QED
      BY <3>4, <3>5
  <2> QED
    BY <2>1, <2>2, <2>3 DEF KeysInv
<1> QED
  BY <1>8, <1>9, <1>10 DEF Inv

\* A stream reads, ends, and is dropped: the key is written down while the
\* stream still is the entry of its key.
LEMMA StreamsStep ==
  ASSUME Inv, NEW s \in DOMAIN keyOf, StreamStep(s)
  PROVE  Inv'
<1> USE Socks5Assumption
<1>1. /\ keyOf[s] \in Keys /\ s \in Nat
      /\ phase \in [DOMAIN keyOf -> {"open", "ended", "dropping", "dropped"}]
      /\ queue \in [DOMAIN keyOf -> 0 .. QueueCapacity]
      /\ readBefore \in [DOMAIN keyOf -> BOOLEAN]
  BY DEF Inv, TypeOK
<1>2. UNCHANGED <<tcpVars, socket, arrived, udp, dest, peers, keyOf>>
  BY DEF StreamStep, Read, WatchdogTick, TunnelEnds, Drop, DropKey, DropFields
<1>3. phase' \in [DOMAIN keyOf -> {"open", "ended", "dropping", "dropped"}]
  BY <1>1 DEF StreamStep, Read, WatchdogTick, TunnelEnds, Drop, DropKey, DropFields
<1>4. queue' \in [DOMAIN keyOf -> 0 .. QueueCapacity]
  BY <1>1 DEF StreamStep, Read, WatchdogTick, TunnelEnds, Drop, DropKey, DropFields
<1>5. readBefore' \in [DOMAIN keyOf -> BOOLEAN]
  BY <1>1, ZenonT(40)
  DEF StreamStep, Read, WatchdogTick, TunnelEnds, Drop, DropKey, DropFields
<1>6. keysToDelete' \in SUBSET Keys
  BY <1>1
  DEF Inv, TypeOK, StreamStep, Read, WatchdogTick, TunnelEnds, Drop, DropKey,
     DropFields
<1>7. TypeOK'
  BY <1>2, <1>3, <1>4, <1>5, <1>6 DEF Inv, TypeOK, tcpVars
<1>8. NumbersInv'
  BY <1>2 DEF Inv, NumbersInv
<1>9. KeysInv'
  <2>1. CASE keysToDelete' = keysToDelete
    <3>1. \A t \in DOMAIN keyOf :
            /\ phase'[t] \in {"open", "ended"} => phase[t] \in {"open", "ended"}
            /\ phase[t] \in {"dropping", "dropped"} => phase'[t] \in {"dropping", "dropped"}
      BY <1>1
      DEF StreamStep, Read, WatchdogTick, TunnelEnds, Drop, DropKey, DropFields
    <3> QED
      BY <1>2, <2>1, <3>1 DEF Inv, TypeOK, KeysInv
  <2>2. CASE DropKey(s) /\ keysToDelete' = keysToDelete \cup {keyOf[s]}
    <3>1. /\ phase[s] = "ended" /\ phase'[s] = "dropping"
          /\ \A t \in DOMAIN keyOf \ {s} : phase'[t] = phase[t]
      BY <1>1, <2>2 DEF DropKey
    <3>2. peers[keyOf[s]] = s /\ s # NoStream
      BY <1>1, <3>1 DEF Inv, KeysInv
    <3> QED
      BY <1>1, <1>2, <2>2, <3>1, <3>2, ZenonT(40) DEF Inv, TypeOK, KeysInv
  <2> QED
    BY <2>1, <2>2
    DEF StreamStep, Read, WatchdogTick, TunnelEnds, Drop, DropKey, DropFields
<1> QED
  BY <1>7, <1>8, <1>9 DEF Inv

\* Every step keeps the invariant.
LEMMA InvStep == Inv /\ [Next]_vars => Inv'
<1> SUFFICES ASSUME Inv, [Next]_vars PROVE Inv'
  OBVIOUS
<1>1. CASE UNCHANGED vars
  BY <1>1 DEF Inv, TypeOK, NumbersInv, KeysInv, vars
<1>2. CASE \E c \in Clients : Connect(c) \/ Dissociate(c)
  BY <1>2, TcpStep
<1>3. CASE Accept \/ Reply \/ ReplyUdp \/ ClientStep \/ ReceiveFails
  BY <1>3, TcpStep DEF ClientStep
<1>4. CASE \E d \in Datagram : Arrive(d)
  BY <1>4, ArriveStep
<1>5. CASE CleanDeadKeys \/ Receive \/ Deliver \/ NewStream
  BY <1>5, CleanStep, ReceiveStep, DeliverStep, NewStreamStep
<1>6. CASE \E s \in DOMAIN keyOf : StreamStep(s)
  BY <1>6, StreamsStep
<1> QED
  BY <1>1, <1>2, <1>3, <1>4, <1>5, <1>6 DEF Next, ListenerStep

\* A socks5 stream that is in use is always the one its datagrams go to, for
\* any number of peers and datagrams and any capacity of the channels: the
\* late clean-up of udp_server.rs never removes a successor.
THEOREM LiveStreamsStayRegistered == Spec => []LiveStreamRegistered
<1>1. Inv => LiveStreamRegistered
  BY DEF Inv, KeysInv, LiveStreamRegistered
<1> QED
  BY InvInit, InvStep, <1>1, PTL DEF Spec
=============================================================================
