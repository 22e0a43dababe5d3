--------------------------- MODULE TunnelIoProofs ---------------------------
EXTENDS TunnelIo, FiniteSetTheorems, TLAPS

\* Time limits of the provers.
USE SMTT(40), ZenonT(40), Z3T(40), SMTT(30), Z3T(30)

\* The two endpoints are each other's peers.
LEMMA PeerFacts ==
  /\ \A e \in Endpoints : Peer(e) \in Endpoints /\ Peer(e) # e
  /\ \A e \in Endpoints : Peer(Peer(e)) = e
  /\ \A e, f \in Endpoints : f = e \/ f = Peer(e)
BY DEF Peer, Endpoints

-----------------------------------------------------------------------------
(* What Count returns on the sequences the channels and the wire go through. *)

\* The positions Count counts are a finite set of numbers.
LEMMA CountType ==
  ASSUME NEW S, NEW s \in Seq(S), NEW op
  PROVE  /\ IsFiniteSet({i \in DOMAIN s : s[i].op = op})
         /\ Count(s, op) \in Nat
<1>1. DOMAIN s = 1 .. Len(s) /\ Len(s) \in Nat
  OBVIOUS
<1>2. IsFiniteSet(1 .. Len(s))
  BY <1>1, FS_Interval
<1>3. {i \in DOMAIN s : s[i].op = op} \in SUBSET (1 .. Len(s))
  BY <1>1
<1>4. IsFiniteSet({i \in DOMAIN s : s[i].op = op})
  BY <1>2, <1>3, FS_Subset
<1> QED
  BY <1>4, FS_CardinalityType DEF Count

\* An empty channel holds no frame of any kind.
LEMMA CountEmpty == \A op : Count(<< >>, op) = 0
<1> TAKE op
<1>1. {i \in DOMAIN << >> : << >>[i].op = op} = {}
  OBVIOUS
<1> QED
  BY <1>1, FS_EmptySet DEF Count

\* Appending a frame adds one to the count of its own kind only.
LEMMA CountAppend ==
  ASSUME NEW S, NEW s \in Seq(S), NEW f \in S, NEW op
  PROVE  Count(Append(s, f), op) = Count(s, op) + (IF f.op = op THEN 1 ELSE 0)
<1> DEFINE A == {i \in DOMAIN s : s[i].op = op}
           B == {i \in DOMAIN Append(s, f) : Append(s, f)[i].op = op}
           n == Len(s) + 1
<1>1. IsFiniteSet(A) /\ Count(s, op) \in Nat
  BY CountType
<1>2. n \notin A
  OBVIOUS
<1>c. Count(s, op) = Cardinality(A) /\ Count(Append(s, f), op) = Cardinality(B)
  BY DEF Count
<1> HIDE DEF A, B
<1>3. CASE f.op = op
  <2>1. B = A \cup {n}
    BY <1>3 DEF A, B
  <2>2. Cardinality(B) = Cardinality(A) + 1
    BY <1>1, <1>2, <2>1, FS_AddElement, ZenonT(40)
  <2> QED
    BY <2>2, <1>3, <1>c
<1>4. CASE f.op # op
  <2>1. B = A
    BY <1>4 DEF A, B
  <2> QED
    BY <1>1, <1>4, <2>1, <1>c
<1> QED
  BY <1>3, <1>4

\* Taking the first frame lowers the count of its own kind only.
LEMMA CountTail ==
  ASSUME NEW S, NEW s \in Seq(S), s # << >>, NEW op
  PROVE  Count(s, op) = Count(Tail(s), op) + (IF Head(s).op = op THEN 1 ELSE 0)
<1> DEFINE A == {i \in DOMAIN s : s[i].op = op}
           T == {i \in DOMAIN Tail(s) : Tail(s)[i].op = op}
           R == A \ {1}
           shift == [i \in T |-> i + 1]
<1>1. IsFiniteSet(A) /\ IsFiniteSet(T) /\ Count(Tail(s), op) \in Nat
  <2>1. Tail(s) \in Seq(S)
    OBVIOUS
  <2> QED
    BY <2>1, CountType, ZenonT(40)
<1>2. Len(s) \in Nat \ {0} /\ DOMAIN s = 1 .. Len(s)
  OBVIOUS
<1>3. T = {i \in 1 .. (Len(s) - 1) : s[i + 1].op = op}
  BY <1>2
<1>4. R = {i \in 2 .. Len(s) : s[i].op = op}
  BY <1>2
<1>5. shift \in [T -> R]
  BY <1>2, <1>3, <1>4
<1>6. \A i, j \in T : shift[i] = shift[j] => i = j
  BY <1>3
<1>7. \A k \in R : \E i \in T : shift[i] = k
  <2> TAKE k \in R
  <2>1. k - 1 \in T
    BY <1>2, <1>3, <1>4
  <2>2. shift[k - 1] = k
    BY <2>1, <1>4
  <2> QED
    BY <2>1, <2>2
<1>8. ExistsBijection(T, R)
  <2>1. shift \in Bijection(T, R)
    BY <1>5, <1>6, <1>7 DEF Bijection, Injection, Surjection, IsInjective
  <2> QED
    BY <2>1 DEF ExistsBijection
<1>9. Cardinality(R) = Cardinality(T)
  BY <1>1, <1>8, FS_Bijection, ZenonT(40)
<1>10. Cardinality(R) = IF 1 \in A THEN Cardinality(A) - 1 ELSE Cardinality(A)
  BY <1>1, FS_RemoveElement, ZenonT(40)
<1>11. 1 \in A <=> Head(s).op = op
  BY <1>2
<1>12. Cardinality(A) \in Nat
  BY <1>1, FS_CardinalityType
<1>13. Count(s, op) = Cardinality(A) /\ Count(Tail(s), op) = Cardinality(T)
  BY DEF Count
<1> HIDE DEF A, T, R
<1> QED
  BY <1>1, <1>9, <1>10, <1>11, <1>12, <1>13

\* The sizes of two disjoint finite sets add up.
LEMMA DisjointUnion ==
  ASSUME NEW A, NEW B, IsFiniteSet(A), IsFiniteSet(B), A \cap B = {}
  PROVE  /\ IsFiniteSet(A \cup B)
         /\ Cardinality(A \cup B) = Cardinality(A) + Cardinality(B)
<1>1. Cardinality(A) \in Nat /\ Cardinality(B) \in Nat
  BY FS_CardinalityType
<1>2. Cardinality(A \cap B) = 0
  BY FS_EmptySet
<1>3. /\ IsFiniteSet(A \cup B)
      /\ Cardinality(A \cup B) = Cardinality(A) + Cardinality(B) - Cardinality(A \cap B)
  BY FS_Union
<1> QED
  BY <1>1, <1>2, <1>3

\* The pending channel carries three kinds of frames, so its length is the
\* sum of their counts.
LEMMA CountSum ==
  ASSUME NEW S, NEW s \in Seq(S), \A f \in S : f.op \in ControlOps
  PROVE  Len(s) = Count(s, "Ping") + Count(s, "Pong") + Count(s, "Close")
<1> DEFINE A == {i \in DOMAIN s : s[i].op = "Ping"}
           B == {i \in DOMAIN s : s[i].op = "Pong"}
           C == {i \in DOMAIN s : s[i].op = "Close"}
           n == Len(s)
<1>1. IsFiniteSet(A) /\ IsFiniteSet(B) /\ IsFiniteSet(C)
  BY CountType, ZenonT(40)
<1>2. DOMAIN s = 1 .. n /\ n \in Nat
  OBVIOUS
<1>3. \A i \in DOMAIN s : s[i] \in S
  OBVIOUS
<1>4. \A i \in DOMAIN s : s[i].op \in {"Ping", "Pong", "Close"}
  BY <1>3 DEF ControlOps
<1>5. DOMAIN s = (A \cup B) \cup C
  BY <1>4, ZenonT(40)
<1>6. A \cap B = {} /\ (A \cup B) \cap C = {}
  OBVIOUS
<1>7. /\ Count(s, "Ping") = Cardinality(A)
      /\ Count(s, "Pong") = Cardinality(B)
      /\ Count(s, "Close") = Cardinality(C)
  BY DEF Count
<1> HIDE DEF A, B, C, n
<1>8. Cardinality(1 .. n) = n
  <2>1. 1 \in Int /\ n \in Int /\ (n = 0 \/ n >= 1)
    BY <1>2
  <2>2. Cardinality(1 .. n) = IF 1 > n THEN 0 ELSE n - 1 + 1
    BY <2>1, FS_Interval
  <2> QED
    BY <2>1, <2>2, <1>2
<1>9. IsFiniteSet(A \cup B) /\ Cardinality(A \cup B) = Cardinality(A) + Cardinality(B)
  BY <1>1, <1>6, DisjointUnion
<1>10. Cardinality((A \cup B) \cup C) = Cardinality(A \cup B) + Cardinality(C)
  BY <1>1, <1>6, <1>9, DisjointUnion, ZenonT(40)
<1>11. n = Cardinality(A) + Cardinality(B) + Cardinality(C)
  BY <1>2, <1>5, <1>8, <1>9, <1>10
<1> QED
  BY <1>7, <1>11 DEF n

-----------------------------------------------------------------------------
(* Type correctness *)

\* Every frame the program builds is one of the four kinds.
LEMMA FrameTypes ==
  /\ \A op \in ControlOps : Control(op) \in Frames /\ Control(op).op = op
  /\ \A data \in Seq(Nat) : Binary(data) \in Frames /\ Binary(data).op = "Binary"
BY DEF Control, Binary, Frames, ControlFrames, ControlOps

\* A write puts its frame on the wire or changes nothing.
LEMMA WriteIsPut ==
  ASSUME NEW e, NEW frame
  PROVE  /\ WriteOk(e, frame) => Put(e, frame)
         /\ WriteErr(e, frame) => UNCHANGED wireVars
BY DEF WriteOk, WriteErr

\* Either way the wire and closeSent keep their types.
LEMMA WriteTypes ==
  ASSUME NEW e \in Endpoints, NEW frame \in Frames,
         wire \in [Endpoints -> Seq(Frames)], closeSent \in [Endpoints -> BOOLEAN],
         Put(e, frame) \/ UNCHANGED wireVars
  PROVE  wire' \in [Endpoints -> Seq(Frames)] /\ closeSent' \in [Endpoints -> BOOLEAN]
<1>1. CASE Put(e, frame)
  <2>1. Append(wire[Peer(e)], frame) \in Seq(Frames)
    BY PeerFacts
  <2> QED
    BY <1>1, <2>1, PeerFacts DEF Put
<1>2. CASE UNCHANGED wireVars
  BY <1>2 DEF wireVars
<1> QED
  BY <1>1, <1>2

\* A frame at the head of the wire is one of the four kinds; what is left of
\* the wire is well typed, and a frame that is not Binary is a control frame.
LEMMA HeadTypes ==
  ASSUME NEW e \in Endpoints, wire \in [Endpoints -> Seq(Frames)], wire[e] # << >>
  PROVE  /\ Head(wire[e]) \in Frames
         /\ Tail(wire[e]) \in Seq(Frames)
         /\ Head(wire[e]).data \in Seq(Nat)
         /\ HeadOp(e) # "Binary" => Head(wire[e]) \in ControlFrames
<1>1. Head(wire[e]) \in Frames /\ Tail(wire[e]) \in Seq(Frames)
  OBVIOUS
<1>2. << >> \in Seq(Nat)
  OBVIOUS
<1> QED
  BY <1>1, <1>2, ZenonT(40) DEF Frames, ControlFrames, HeadOp

\* Every step of every task, and of the connection, keeps the types.
LEMMA TypeStep == TypeOK /\ ReaderInv /\ [Next]_vars => TypeOK'
<1> SUFFICES ASSUME TypeOK, ReaderInv, [Next]_vars
             PROVE  TypeOK'
  OBVIOUS
<1> USE DEF wireVars, dataVars, taskVars, linkVars
<1>1. CASE UNCHANGED vars
  BY <1>1 DEF TypeOK, vars
<1>2. CASE LinkStall \/ LinkFail \/ \E e \in Endpoints : CnxEnd(e)
  BY <1>2 DEF TypeOK, LinkStall, LinkFail, CnxEnd
<1>3. ASSUME NEW e \in Endpoints, L2RTask(e)
      PROVE  TypeOK'
  <2>1. CASE L2RStart(e)
    BY <2>1 DEF TypeOK, L2RStart
  <2>2. CASE SelectNotified(e)
    BY <2>2 DEF TypeOK, SelectNotified
  <2>3. CASE SelectPoll(e)
    BY <2>3 DEF TypeOK, SelectPoll
  <2>4. CASE SelectPark(e)
    BY <2>4 DEF TypeOK, SelectPark
  <2>5. CASE LocalEof(e)
    BY <2>5 DEF TypeOK, LocalEof
  <2>6. CASE ShouldClose(e)
    BY <2>6 DEF TypeOK, ShouldClose
  <2>7. CASE DrainEnd(e)
    BY <2>7 DEF TypeOK, DrainEnd
  <2>8. CASE ReadLocal(e)
    <3>1. produced[e] + 1 \in Nat /\ Append(buf[e], produced[e] + 1) \in Seq(Nat)
      BY DEF TypeOK
    <3>2. /\ produced' = [produced EXCEPT ![e] = produced[e] + 1]
          /\ buf' = [buf EXCEPT ![e] = Append(buf[e], produced[e] + 1)]
      BY <2>8 DEF ReadLocal
    <3>3. produced' \in [Endpoints -> Nat] /\ buf' \in [Endpoints -> Seq(Nat)]
      BY <3>1, <3>2 DEF TypeOK
    <3>4. l2r' = [l2r EXCEPT ![e] = "write"]
      BY <2>8 DEF ReadLocal
    <3>5. UNCHANGED <<r2l, notified, pending, inFlight, wireVars, delivered, linkVars>>
      BY <2>8 DEF ReadLocal
    <3> QED
      BY <3>3, <3>4, <3>5 DEF TypeOK
  <2>9. CASE PingTick(e)
    BY <2>9, ConstantsAssumption DEF TypeOK, PingTick
  <2>10. CASE DrainPong(e)
    <3>1. Tail(pending[e]) \in Seq(ControlFrames)
      BY <2>10 DEF TypeOK, DrainPong
    <3>2. pending' \in [Endpoints -> Seq(ControlFrames)]
      BY <2>10, <3>1 DEF TypeOK, DrainPong
    <3>3. inFlight' \in [Endpoints -> 0 .. UsizeMax]
      BY <2>10, ConstantsAssumption DEF TypeOK, DrainPong
    <3>4. UNCHANGED <<l2r, r2l, notified, wireVars, dataVars, linkVars>>
      BY <2>10 DEF DrainPong
    <3> QED
      BY <3>2, <3>3, <3>4 DEF TypeOK
  <2>11. CASE WritePing(e)
    <3>1. Control("Ping") \in Frames
      BY FrameTypes DEF ControlOps
    <3>2. wire' \in [Endpoints -> Seq(Frames)] /\ closeSent' \in [Endpoints -> BOOLEAN]
      BY <2>11, <3>1, WriteIsPut, WriteTypes, ZenonT(40) DEF TypeOK, WritePing
    <3> QED
      BY <2>11, <3>2, ZenonT(40) DEF TypeOK, WritePing
  <2>12. CASE Write(e)
    <3>1. Binary(buf[e]) \in Frames
      BY FrameTypes DEF TypeOK
    <3>2. WriteOk(e, Binary(buf[e])) \/ WriteErr(e, Binary(buf[e]))
      BY <2>12 DEF Write
    <3>3. wire' \in [Endpoints -> Seq(Frames)] /\ closeSent' \in [Endpoints -> BOOLEAN]
      BY <3>1, <3>2, WriteIsPut, WriteTypes, ZenonT(40) DEF TypeOK
    <3>4. buf' = buf \/ buf' = [buf EXCEPT ![e] = << >>]
      BY <2>12 DEF Write
    <3>5. l2r' = [l2r EXCEPT ![e] = "idle"] \/ l2r' = [l2r EXCEPT ![e] = "close"]
      BY <2>12 DEF Write
    <3>6. UNCHANGED <<r2l, notified, pending, inFlight, produced, delivered, linkVars>>
      BY <2>12 DEF Write
    <3>7. buf' \in [Endpoints -> Seq(Nat)]
      <4>1. << >> \in Seq(Nat) /\ buf \in [Endpoints -> Seq(Nat)]
        BY DEF TypeOK
      <4> QED
        BY <3>4, <4>1, ZenonT(40)
    <3> QED
      BY <3>3, <3>5, <3>6, <3>7, ZenonT(40) DEF TypeOK
  <2>13. CASE Close(e)
    <3>1. Control("Close") \in Frames
      BY FrameTypes DEF ControlOps
    <3>2. wire' \in [Endpoints -> Seq(Frames)] /\ closeSent' \in [Endpoints -> BOOLEAN]
      BY <2>13, <3>1, WriteIsPut, WriteTypes, ZenonT(40) DEF TypeOK, Close
    <3> QED
      BY <2>13, <3>2, ZenonT(40) DEF TypeOK, Close
  <2>15. CASE EndStream(e)
    <3>1. Control("Close") \in Frames
      BY FrameTypes DEF ControlOps
    <3>2. Put(e, Control("Close")) \/ UNCHANGED wireVars
      BY <2>15 DEF EndStream
    <3>3. wire' \in [Endpoints -> Seq(Frames)] /\ closeSent' \in [Endpoints -> BOOLEAN]
      BY <3>1, <3>2, WriteTypes, ZenonT(40) DEF TypeOK
    <3> QED
      BY <2>15, <3>3, ZenonT(40) DEF TypeOK, EndStream
  <2>14. CASE DrainReply(e)
    <3> DEFINE reply == Control(IF Head(pending[e]).op = "Ping" THEN "Pong" ELSE "Close")
    <3>1. reply \in Frames
      BY FrameTypes DEF ControlOps
    <3>2. Tail(pending[e]) \in Seq(ControlFrames)
      BY <2>14 DEF TypeOK, DrainReply
    <3>3. /\ WriteOk(e, reply) \/ WriteErr(e, reply)
          /\ l2r' = l2r \/ l2r' = [l2r EXCEPT ![e] = "close"]
      BY <2>14 DEF DrainReply
    <3>4. wire' \in [Endpoints -> Seq(Frames)] /\ closeSent' \in [Endpoints -> BOOLEAN]
      BY <3>1, <3>3, WriteIsPut, WriteTypes, ZenonT(40) DEF TypeOK
    <3>5. /\ pending' = [pending EXCEPT ![e] = Tail(@)]
          /\ UNCHANGED <<r2l, notified, inFlight, dataVars, linkVars>>
      BY <2>14 DEF DrainReply
    <3> HIDE DEF reply
    <3> QED
      BY <3>2, <3>3, <3>4, <3>5 DEF TypeOK
  <2> QED
    BY <1>3, <2>1, <2>2, <2>3, <2>4, <2>5, <2>6, <2>7, <2>8, <2>9, <2>10, <2>11, <2>12, <2>13, <2>14, <2>15
    DEF L2RTask
<1>4. ASSUME NEW e \in Endpoints, R2LStep(e) \/ LocalWrite(e)
      PROVE  TypeOK'
  <2>1. CASE ReadBinary(e)
    BY <2>1 DEF TypeOK, ReadBinary
  <2>2. CASE DeliverFail(e)
    BY <2>2 DEF TypeOK, DeliverFail
  <2>3. CASE NotifyWaiters(e)
    BY <2>3 DEF TypeOK, NotifyWaiters
  <2>4. CASE ReadErr(e)
    BY <2>4 DEF TypeOK, ReadErr
  <2>5. CASE CopyPending(e)
    BY <2>5 DEF TypeOK, CopyPending
  <2>6. CASE CloseRx(e)
    BY <2>6 DEF TypeOK, CloseRx
  <2>7. CASE Deliver(e)
    <3>1. wire[e] # << >>
      BY <2>7 DEF Deliver, ReaderInv
    <3>2. Tail(wire[e]) \in Seq(Frames) /\ Head(wire[e]).data \in Seq(Nat)
      BY <3>1, HeadTypes DEF TypeOK
    <3>3. delivered[e] \o Head(wire[e]).data \in Seq(Nat)
      BY <3>2 DEF TypeOK
    <3> QED
      BY <2>7, <3>2, <3>3 DEF TypeOK, Deliver
  <2>8. CASE ReadPingPong(e)
    <3>1. wire[e] # << >> /\ HeadOp(e) # "Binary"
      BY <2>8 DEF ReadPingPong, FrameReady
    <3>2. Tail(wire[e]) \in Seq(Frames) /\ Head(wire[e]) \in ControlFrames
      BY <3>1, HeadTypes DEF TypeOK
    <3>3. Append(pending[e], Head(wire[e])) \in Seq(ControlFrames)
      BY <3>2 DEF TypeOK
    <3>4. pending' \in [Endpoints -> Seq(ControlFrames)]
      BY <2>8, <3>3, ZenonT(40) DEF TypeOK, ReadPingPong
    <3>5. wire' \in [Endpoints -> Seq(Frames)]
      BY <2>8, <3>2 DEF TypeOK, ReadPingPong
    <3>6. r2l' = [r2l EXCEPT ![e] = "notify"] \/ r2l' = [r2l EXCEPT ![e] = "failed"]
      BY <2>8 DEF ReadPingPong
    <3>7. UNCHANGED <<l2r, notified, inFlight, closeSent, dataVars, linkVars>>
      BY <2>8 DEF ReadPingPong
    <3> QED
      BY <3>4, <3>5, <3>6, <3>7, ZenonT(40) DEF TypeOK
  <2>9. CASE ReadClose(e)
    <3>1. wire[e] # << >> /\ HeadOp(e) # "Binary"
      BY <2>9 DEF ReadClose, FrameReady
    <3>2. Tail(wire[e]) \in Seq(Frames) /\ Head(wire[e]) \in ControlFrames
      BY <3>1, HeadTypes DEF TypeOK
    <3>3. Append(pending[e], Head(wire[e])) \in Seq(ControlFrames)
      BY <3>2 DEF TypeOK
    <3>4. /\ wire' = [wire EXCEPT ![e] = Tail(wire[e])]
          /\ \/ pending' = [pending EXCEPT ![e] = Append(pending[e], Head(wire[e]))]
             \/ pending' = pending
      BY <2>9 DEF ReadClose
    <3>5. pending' \in [Endpoints -> Seq(ControlFrames)]
      BY <3>3, <3>4, ZenonT(40) DEF TypeOK
    <3>6. wire' \in [Endpoints -> Seq(Frames)]
      BY <3>2, <3>4 DEF TypeOK
    <3>7. r2l' \in [Endpoints -> {"read", "polled", "deliver", "notify",
                                  "notifyClose", "closed", "refused", "failed",
                                  "cancelled"}]
      BY <2>9 DEF TypeOK, ReadClose
    <3>8. UNCHANGED <<l2r, notified, inFlight, closeSent, dataVars, linkVars>>
      BY <2>9 DEF ReadClose
    <3> QED
      BY <3>5, <3>6, <3>7, <3>8 DEF TypeOK
  <2>10. CASE ReadEndStream(e)
    <3>1. Tail(wire[e]) \in Seq(Frames)
      BY <2>10, HeadTypes DEF ReadEndStream, FrameReady, TypeOK
    <3> QED
      BY <2>10, <3>1 DEF TypeOK, ReadEndStream
  <2> QED
    BY <1>4, <2>1, <2>2, <2>3, <2>4, <2>5, <2>6, <2>7, <2>8, <2>9, <2>10
    DEF R2LStep, LocalWrite
<1> QED
  BY <1>1, <1>2, <1>3, <1>4 DEF Next, Terminated

-----------------------------------------------------------------------------
(* The ping counters *)

\* All the counts the counters are compared with are natural numbers.
LEMMA CountsAreNat ==
  ASSUME TypeOK
  PROVE  \A g \in Endpoints : \A op \in ControlOps :
           Count(wire[g], op) \in Nat /\ Count(pending[g], op) \in Nat
<1> SUFFICES ASSUME NEW g \in Endpoints, NEW op \in ControlOps
             PROVE  Count(wire[g], op) \in Nat /\ Count(pending[g], op) \in Nat
  OBVIOUS
<1>1. wire[g] \in Seq(Frames) /\ pending[g] \in Seq(ControlFrames)
  BY DEF TypeOK
<1> QED
  BY <1>1, CountType, ZenonT(40)

\* A successful write puts one more frame on the peer's wire.
LEMMA WireAppend ==
  ASSUME TypeOK, NEW e \in Endpoints, NEW frame \in Frames, Put(e, frame)
  PROVE  \A g \in Endpoints : \A op \in ControlOps :
           /\ Count(wire'[g], op) = Count(wire[g], op)
                + (IF g = Peer(e) /\ frame.op = op THEN 1 ELSE 0)
           /\ Count(wire'[g], op) \in Nat
<1> SUFFICES ASSUME NEW g \in Endpoints, NEW op \in ControlOps
             PROVE  /\ Count(wire'[g], op) = Count(wire[g], op)
                         + (IF g = Peer(e) /\ frame.op = op THEN 1 ELSE 0)
                    /\ Count(wire'[g], op) \in Nat
  OBVIOUS
<1>1. wire[g] \in Seq(Frames) /\ Count(wire[g], op) \in Nat
  BY CountsAreNat DEF TypeOK
<1>2. CASE g = Peer(e)
  <2>1. wire'[g] = Append(wire[g], frame)
    BY <1>2 DEF Put, TypeOK
  <2>2. Count(Append(wire[g], frame), op)
          = Count(wire[g], op) + (IF frame.op = op THEN 1 ELSE 0)
    BY <1>1, CountAppend
  <2> QED
    BY <1>1, <1>2, <2>1, <2>2
<1>3. CASE g # Peer(e)
  <2>1. wire'[g] = wire[g]
    BY <1>3 DEF Put, TypeOK
  <2> QED
    BY <1>1, <1>3, <2>1
<1> QED
  BY <1>2, <1>3

\* A failed write changes no frame.
LEMMA WriteErrWire ==
  ASSUME NEW e, NEW frame, WriteErr(e, frame)
  PROVE  wire' = wire
BY DEF WriteErr, wireVars

\* The reader takes the first frame of its wire.
LEMMA WireTail ==
  ASSUME TypeOK, NEW e \in Endpoints, wire[e] # << >>,
         wire' = [wire EXCEPT ![e] = Tail(wire[e])]
  PROVE  \A g \in Endpoints : \A op \in ControlOps :
           /\ Count(wire[g], op) = Count(wire'[g], op)
                + (IF g = e /\ HeadOp(e) = op THEN 1 ELSE 0)
           /\ Count(wire'[g], op) \in Nat
<1> SUFFICES ASSUME NEW g \in Endpoints, NEW op \in ControlOps
             PROVE  /\ Count(wire[g], op) = Count(wire'[g], op)
                         + (IF g = e /\ HeadOp(e) = op THEN 1 ELSE 0)
                    /\ Count(wire'[g], op) \in Nat
  OBVIOUS
<1>1. wire[g] \in Seq(Frames) /\ Count(wire[g], op) \in Nat
  BY CountsAreNat DEF TypeOK
<1>2. CASE g = e
  <2>1. wire'[g] = Tail(wire[g]) /\ wire[g] # << >> /\ Tail(wire[g]) \in Seq(Frames)
    BY <1>1, <1>2 DEF TypeOK
  <2>2. Count(wire[g], op)
          = Count(Tail(wire[g]), op) + (IF Head(wire[g]).op = op THEN 1 ELSE 0)
    BY <1>1, <2>1, CountTail
  <2>3. Count(Tail(wire[g]), op) \in Nat
    BY <2>1, CountType, ZenonT(40)
  <2> QED
    BY <1>2, <2>1, <2>2, <2>3 DEF HeadOp
<1>3. CASE g # e
  <2>1. wire'[g] = wire[g]
    BY <1>3 DEF TypeOK
  <2> QED
    BY <1>1, <1>3, <2>1
<1> QED
  BY <1>2, <1>3

\* Taking a data frame or a Close off the wire loses no ping and no pong.
LEMMA WireTailQuiet ==
  ASSUME TypeOK, NEW e \in Endpoints, wire[e] # << >>,
         HeadOp(e) \in {"Binary", "Close"},
         wire' = [wire EXCEPT ![e] = Tail(wire[e])]
  PROVE  \A g \in Endpoints :
           /\ Count(wire'[g], "Ping") = Count(wire[g], "Ping")
           /\ Count(wire'[g], "Pong") = Count(wire[g], "Pong")
<1> TAKE g \in Endpoints
<1>0. "Ping" \in ControlOps /\ "Pong" \in ControlOps
  BY DEF ControlOps
<1>1. \A op \in ControlOps :
        /\ Count(wire[g], op) = Count(wire'[g], op)
             + (IF g = e /\ HeadOp(e) = op THEN 1 ELSE 0)
        /\ Count(wire'[g], op) \in Nat
  BY WireTail, ZenonT(40)
<1>2. HeadOp(e) # "Ping" /\ HeadOp(e) # "Pong"
  OBVIOUS
<1>3. Count(wire'[g], "Ping") = Count(wire[g], "Ping")
  BY <1>0, <1>1, <1>2
<1>4. Count(wire'[g], "Pong") = Count(wire[g], "Pong")
  BY <1>0, <1>1, <1>2
<1> QED
  BY <1>3, <1>4

\* The reader puts a control frame into the pending channel.
LEMMA PendingAppend ==
  ASSUME TypeOK, NEW e \in Endpoints, NEW frame \in ControlFrames,
         pending' = [pending EXCEPT ![e] = Append(pending[e], frame)]
  PROVE  \A g \in Endpoints : \A op \in ControlOps :
           /\ Count(pending'[g], op) = Count(pending[g], op)
                + (IF g = e /\ frame.op = op THEN 1 ELSE 0)
           /\ Count(pending'[g], op) \in Nat
<1> SUFFICES ASSUME NEW g \in Endpoints, NEW op \in ControlOps
             PROVE  /\ Count(pending'[g], op) = Count(pending[g], op)
                         + (IF g = e /\ frame.op = op THEN 1 ELSE 0)
                    /\ Count(pending'[g], op) \in Nat
  OBVIOUS
<1>1. pending[g] \in Seq(ControlFrames) /\ Count(pending[g], op) \in Nat
  BY CountsAreNat DEF TypeOK
<1>2. CASE g = e
  <2>1. pending'[g] = Append(pending[g], frame)
    BY <1>2 DEF TypeOK
  <2>2. Count(Append(pending[g], frame), op)
          = Count(pending[g], op) + (IF frame.op = op THEN 1 ELSE 0)
    BY <1>1, CountAppend
  <2> QED
    BY <1>1, <1>2, <2>1, <2>2
<1>3. CASE g # e
  <2>1. pending'[g] = pending[g]
    BY <1>3 DEF TypeOK
  <2> QED
    BY <1>1, <1>3, <2>1
<1> QED
  BY <1>2, <1>3

\* The writer takes the first frame of the pending channel.
LEMMA PendingTail ==
  ASSUME TypeOK, NEW e \in Endpoints, pending[e] # << >>,
         pending' = [pending EXCEPT ![e] = Tail(pending[e])]
  PROVE  \A g \in Endpoints : \A op \in ControlOps :
           /\ Count(pending[g], op) = Count(pending'[g], op)
                + (IF g = e /\ Head(pending[e]).op = op THEN 1 ELSE 0)
           /\ Count(pending'[g], op) \in Nat
<1> SUFFICES ASSUME NEW g \in Endpoints, NEW op \in ControlOps
             PROVE  /\ Count(pending[g], op) = Count(pending'[g], op)
                         + (IF g = e /\ Head(pending[e]).op = op THEN 1 ELSE 0)
                    /\ Count(pending'[g], op) \in Nat
  OBVIOUS
<1>1. pending[g] \in Seq(ControlFrames) /\ Count(pending[g], op) \in Nat
  BY CountsAreNat DEF TypeOK
<1>2. CASE g = e
  <2>1. /\ pending'[g] = Tail(pending[g]) /\ pending[g] # << >>
        /\ Tail(pending[g]) \in Seq(ControlFrames)
    BY <1>1, <1>2 DEF TypeOK
  <2>2. Count(pending[g], op)
          = Count(Tail(pending[g]), op) + (IF Head(pending[g]).op = op THEN 1 ELSE 0)
    BY <1>1, <2>1, CountTail
  <2>3. Count(Tail(pending[g]), op) \in Nat
    BY <2>1, CountType, ZenonT(40)
  <2> QED
    BY <1>2, <2>1, <2>2, <2>3
<1>3. CASE g # e
  <2>1. pending'[g] = pending[g]
    BY <1>3 DEF TypeOK
  <2> QED
    BY <1>1, <1>3, <2>1
<1> QED
  BY <1>2, <1>3

\* Two endpoints are the same or each other's peer.
LEMMA PeerCases ==
  ASSUME NEW e \in Endpoints, NEW f \in Endpoints
  PROVE  /\ Peer(e) \in Endpoints /\ Peer(f) \in Endpoints
         /\ \/ f = e /\ Peer(f) = Peer(e) /\ Peer(e) # e
            \/ f = Peer(e) /\ Peer(f) = e /\ Peer(e) # e
BY DEF Endpoints, Peer

\* The number of outstanding pings is a natural number.
LEMMA OutstandingNat ==
  ASSUME TypeOK, NEW f \in Endpoints
  PROVE  Outstanding(f) \in Nat /\ AboutToPing(f) \in Nat /\ inFlight[f] \in Nat
<1>1. Peer(f) \in Endpoints /\ "Ping" \in ControlOps /\ "Pong" \in ControlOps
  BY PeerCases DEF ControlOps
<1>2. /\ Count(wire[f], "Pong") \in Nat /\ Count(pending[f], "Pong") \in Nat
      /\ Count(wire[Peer(f)], "Ping") \in Nat /\ Count(pending[Peer(f)], "Ping") \in Nat
  BY <1>1, CountsAreNat
<1>3. Outstanding(f) \in Nat
  BY <1>2 DEF Outstanding
<1>4. AboutToPing(f) \in Nat
  BY DEF AboutToPing
<1>5. inFlight[f] \in Nat
  BY DEF TypeOK
<1> QED
  BY <1>3, <1>4, <1>5

\* A step adds no ping of f, and does not leave f about to ping.
PingQuiet(f) ==
  /\ Outstanding(f)' \in Nat /\ Outstanding(f)' <= Outstanding(f)
  /\ l2r'[f] = "ping" => l2r[f] = "ping"
  /\ l2r[f] = "aborted" => l2r'[f] = "aborted"

\* Steps that are quiet for both endpoints keep the counters sound.
LEMMA PingQuietStep ==
  ASSUME TypeOK, PingCounterSound, inFlight' = inFlight,
         \A f \in Endpoints : PingQuiet(f)
  PROVE  PingCounterSound'
<1> SUFFICES ASSUME NEW f \in Endpoints
             PROVE  /\ Outstanding(f)' + AboutToPing(f)' <= inFlight'[f]
                    /\ Outstanding(f)' + AboutToPing(f)' <= MaxInFlightPing
                    /\ inFlight'[f] <= MaxInFlightPing
                                         + (IF l2r'[f] = "aborted" THEN 1 ELSE 0)
  BY DEF PingCounterSound
<1>1. Outstanding(f) \in Nat /\ AboutToPing(f) \in Nat /\ inFlight[f] \in Nat
  BY OutstandingNat
<1>2. AboutToPing(f)' \in Nat /\ AboutToPing(f)' <= AboutToPing(f)
  BY DEF PingQuiet, AboutToPing
<1>3. /\ Outstanding(f)' \in Nat /\ Outstanding(f)' <= Outstanding(f)
      /\ l2r[f] = "aborted" => l2r'[f] = "aborted"
  BY DEF PingQuiet
<1>4. /\ Outstanding(f) + AboutToPing(f) <= inFlight[f]
      /\ Outstanding(f) + AboutToPing(f) <= MaxInFlightPing
      /\ inFlight[f] <= MaxInFlightPing + (IF l2r[f] = "aborted" THEN 1 ELSE 0)
  BY DEF PingCounterSound
<1> QED
  BY <1>1, <1>2, <1>3, <1>4, ConstantsAssumption

\* So does a step that leaves the channels and the wire alone.
LEMMA PingIdleStep ==
  ASSUME TypeOK, PingCounterSound, UNCHANGED <<wire, pending, inFlight>>,
         \A f \in Endpoints : /\ l2r'[f] = "ping" => l2r[f] = "ping"
                              /\ l2r[f] = "aborted" => l2r'[f] = "aborted"
  PROVE  PingCounterSound'
<1> SUFFICES ASSUME NEW f \in Endpoints
             PROVE  PingQuiet(f)
  BY PingQuietStep
<1>1. Outstanding(f)' = Outstanding(f)
  BY DEF Outstanding
<1>2. Outstanding(f) \in Nat
  BY OutstandingNat
<1> QED
  BY <1>1, <1>2 DEF PingQuiet

\* Each step of a task keeps the counters sound: a ping is counted before it
\* is written, turns into a pong, and is counted off when the pong is handled.
LEMMA PingStep == TypeOK /\ ReaderInv /\ PingCounterSound /\ [Next]_vars => PingCounterSound'
<1> SUFFICES ASSUME TypeOK, ReaderInv, PingCounterSound, [Next]_vars
             PROVE  PingCounterSound'
  OBVIOUS
<1> USE DEF wireVars, dataVars, taskVars, linkVars
<1>nat. \A g \in Endpoints :
          /\ Count(wire[g], "Ping") \in Nat /\ Count(pending[g], "Ping") \in Nat
          /\ Count(wire[g], "Pong") \in Nat /\ Count(pending[g], "Pong") \in Nat
  BY CountsAreNat DEF ControlOps
<1>1. CASE UNCHANGED vars
  BY <1>1, PingIdleStep DEF vars
<1>2. CASE LinkStall \/ LinkFail \/ \E e \in Endpoints : CnxEnd(e)
  BY <1>2, PingIdleStep DEF LinkStall, LinkFail, CnxEnd
<1>3. ASSUME NEW e \in Endpoints, L2RTask(e)
      PROVE  PingCounterSound'
  <2>1. CASE L2RStart(e)
    BY <2>1, PingIdleStep DEF L2RStart, TypeOK
  <2>2. CASE SelectNotified(e)
    BY <2>2, PingIdleStep DEF SelectNotified, TypeOK
  <2>3. CASE SelectPoll(e)
    BY <2>3, PingIdleStep DEF SelectPoll, TypeOK
  <2>4. CASE SelectPark(e)
    BY <2>4, PingIdleStep DEF SelectPark, TypeOK
  <2>5. CASE LocalEof(e)
    BY <2>5, PingIdleStep DEF LocalEof, TypeOK
  <2>6. CASE ShouldClose(e)
    BY <2>6, PingIdleStep DEF ShouldClose, TypeOK
  <2>7. CASE DrainEnd(e)
    BY <2>7, PingIdleStep DEF DrainEnd, TypeOK
  <2>8. CASE ReadLocal(e)
    BY <2>8, PingIdleStep DEF ReadLocal, TypeOK
  <2>9. CASE PingTick(e)
    <3> SUFFICES ASSUME NEW f \in Endpoints
                 PROVE  /\ Outstanding(f)' + AboutToPing(f)' <= inFlight'[f]
                        /\ Outstanding(f)' + AboutToPing(f)' <= MaxInFlightPing
                        /\ inFlight'[f] <= MaxInFlightPing
                                             + (IF l2r'[f] = "aborted" THEN 1 ELSE 0)
      BY DEF PingCounterSound
    <3>old. /\ Outstanding(f) + AboutToPing(f) <= inFlight[f]
            /\ Outstanding(f) + AboutToPing(f) <= MaxInFlightPing
            /\ inFlight[f] <= MaxInFlightPing + (IF l2r[f] = "aborted" THEN 1 ELSE 0)
      BY DEF PingCounterSound
    <3>nat. Outstanding(f) \in Nat /\ AboutToPing(f) \in Nat /\ inFlight[f] \in Nat
      BY OutstandingNat
    <3>1. Outstanding(f)' = Outstanding(f)
      BY <2>9 DEF Outstanding, PingTick
    <3>2. CASE f = e
      <4>1. /\ l2r[e] = "polled"
            /\ inFlight'[e] = IF inFlight[e] = UsizeMax THEN 0 ELSE inFlight[e] + 1
            /\ l2r'[e] = IF inFlight[e] >= MaxInFlightPing THEN "aborted" ELSE "ping"
        BY <2>9 DEF PingTick, TypeOK
      <4>2. /\ AboutToPing(f) = 0
            /\ AboutToPing(f)' = IF inFlight[e] >= MaxInFlightPing THEN 0 ELSE 1
        BY <4>1, <3>2 DEF AboutToPing
      <4> QED
        BY <3>old, <3>nat, <3>1, <3>2, <4>1, <4>2, ConstantsAssumption
    <3>3. CASE f # e
      <4>1. l2r'[f] = l2r[f] /\ inFlight'[f] = inFlight[f]
        BY <2>9, <3>3 DEF PingTick, TypeOK
      <4>2. AboutToPing(f)' = AboutToPing(f)
        BY <4>1 DEF AboutToPing
      <4> QED
        BY <3>old, <3>1, <4>1, <4>2
    <3> QED
      BY <3>2, <3>3
  <2>10. CASE WritePing(e)
    <3> SUFFICES ASSUME NEW f \in Endpoints
                 PROVE  /\ Outstanding(f)' + AboutToPing(f)' <= inFlight'[f]
                        /\ Outstanding(f)' + AboutToPing(f)' <= MaxInFlightPing
                        /\ inFlight'[f] <= MaxInFlightPing
                                             + (IF l2r'[f] = "aborted" THEN 1 ELSE 0)
      BY DEF PingCounterSound
    <3>old. /\ Outstanding(f) + AboutToPing(f) <= inFlight[f]
            /\ Outstanding(f) + AboutToPing(f) <= MaxInFlightPing
            /\ inFlight[f] <= MaxInFlightPing + (IF l2r[f] = "aborted" THEN 1 ELSE 0)
      BY DEF PingCounterSound
    <3>nat. Outstanding(f) \in Nat /\ AboutToPing(f) \in Nat /\ inFlight[f] \in Nat
      BY OutstandingNat
    <3>peer. /\ Peer(f) \in Endpoints
             /\ \/ f = e /\ Peer(f) = Peer(e) /\ Peer(e) # e
                \/ f = Peer(e) /\ Peer(f) = e /\ Peer(e) # e
      BY PeerCases
    <3>1. Control("Ping") \in Frames /\ Control("Ping").op = "Ping"
      BY FrameTypes DEF ControlOps
    <3>2. UNCHANGED <<pending, inFlight>> /\ l2r[e] = "ping"
      BY <2>10 DEF WritePing
    <3>3. CASE WriteOk(e, Control("Ping")) /\ l2r' = [l2r EXCEPT ![e] = "idle"]
      <4>1. \A g \in Endpoints :
              /\ Count(wire'[g], "Ping") = Count(wire[g], "Ping")
                   + (IF g = Peer(e) THEN 1 ELSE 0)
              /\ Count(wire'[g], "Pong") = Count(wire[g], "Pong")
        BY <3>1, <3>3, <1>nat, WriteIsPut, WireAppend DEF ControlOps
      <4>2. Outstanding(f)' = Outstanding(f) + (IF f = e THEN 1 ELSE 0)
        BY <4>1, <3>2, <1>nat, <3>peer DEF Outstanding
      <4>3. l2r'[f] = IF f = e THEN "idle" ELSE l2r[f]
        BY <3>3 DEF TypeOK
      <4>4. AboutToPing(f)' = AboutToPing(f) - (IF f = e THEN 1 ELSE 0)
        BY <3>2, <4>3 DEF AboutToPing
      <4> QED
        BY <3>old, <3>nat, <3>2, <4>2, <4>3, <4>4
    <3>4. CASE WriteErr(e, Control("Ping")) /\ l2r' = [l2r EXCEPT ![e] = "aborted"]
      <4>1. Outstanding(f)' = Outstanding(f)
        BY <3>2, <3>4, WriteErrWire DEF Outstanding
      <4>2. l2r'[f] = IF f = e THEN "aborted" ELSE l2r[f]
        BY <3>4 DEF TypeOK
      <4>3. AboutToPing(f)' <= AboutToPing(f) /\ AboutToPing(f)' \in Nat
        BY <4>2 DEF AboutToPing
      <4> QED
        BY <3>old, <3>nat, <3>2, <4>1, <4>2, <4>3, ConstantsAssumption
    <3> QED
      BY <2>10, <3>3, <3>4 DEF WritePing
  <2>11. CASE Write(e)
    <3> SUFFICES ASSUME NEW f \in Endpoints
                 PROVE  PingQuiet(f)
      BY <2>11, PingQuietStep DEF Write
    <3>1. Binary(buf[e]) \in Frames /\ Binary(buf[e]).op \notin {"Ping", "Pong"}
      BY FrameTypes DEF TypeOK
    <3>2. \A g \in Endpoints :
            /\ Count(wire'[g], "Ping") = Count(wire[g], "Ping")
            /\ Count(wire'[g], "Pong") = Count(wire[g], "Pong")
      <4>1. CASE WriteOk(e, Binary(buf[e]))
        BY <4>1, <3>1, <1>nat, WriteIsPut, WireAppend DEF ControlOps
      <4>2. CASE WriteErr(e, Binary(buf[e]))
        BY <4>2, WriteErrWire
      <4> QED
        BY <2>11, <4>1, <4>2 DEF Write
    <3>3. Outstanding(f)' = Outstanding(f)
      BY <2>11, <3>2, PeerCases DEF Outstanding, Write
    <3>4. /\ l2r'[f] = "ping" => l2r[f] = "ping"
          /\ l2r[f] = "aborted" => l2r'[f] = "aborted"
      BY <2>11 DEF Write, TypeOK
    <3> QED
      BY <3>3, <3>4, OutstandingNat DEF PingQuiet
  <2>12. CASE Close(e)
    <3> SUFFICES ASSUME NEW f \in Endpoints
                 PROVE  PingQuiet(f)
      BY <2>12, PingQuietStep DEF Close
    <3>1. Control("Close") \in Frames /\ Control("Close").op \notin {"Ping", "Pong"}
      BY FrameTypes DEF ControlOps
    <3>2. \A g \in Endpoints :
            /\ Count(wire'[g], "Ping") = Count(wire[g], "Ping")
            /\ Count(wire'[g], "Pong") = Count(wire[g], "Pong")
      <4>1. CASE WriteOk(e, Control("Close"))
        BY <4>1, <3>1, <1>nat, WriteIsPut, WireAppend DEF ControlOps
      <4>2. CASE WriteErr(e, Control("Close"))
        BY <4>2, WriteErrWire
      <4> QED
        BY <2>12, <4>1, <4>2 DEF Close
    <3>3. Outstanding(f)' = Outstanding(f)
      BY <2>12, <3>2, PeerCases DEF Outstanding, Close
    <3>4. /\ l2r'[f] = "ping" => l2r[f] = "ping"
          /\ l2r[f] = "aborted" => l2r'[f] = "aborted"
      BY <2>12 DEF Close, TypeOK
    <3> QED
      BY <3>3, <3>4, OutstandingNat DEF PingQuiet
  <2>15. CASE EndStream(e)
    <3> SUFFICES ASSUME NEW f \in Endpoints
                 PROVE  PingQuiet(f)
      BY <2>15, PingQuietStep DEF EndStream
    <3>1. Control("Close") \in Frames /\ Control("Close").op \notin {"Ping", "Pong"}
      BY FrameTypes DEF ControlOps
    <3>2. \A g \in Endpoints :
            /\ Count(wire'[g], "Ping") = Count(wire[g], "Ping")
            /\ Count(wire'[g], "Pong") = Count(wire[g], "Pong")
      <4>1. CASE Put(e, Control("Close"))
        BY <4>1, <3>1, <1>nat, WireAppend DEF ControlOps
      <4>2. CASE UNCHANGED wireVars
        BY <4>2
      <4> QED
        BY <2>15, <4>1, <4>2 DEF EndStream
    <3>3. Outstanding(f)' = Outstanding(f)
      BY <2>15, <3>2, PeerCases DEF Outstanding, EndStream
    <3>4. /\ l2r'[f] = "ping" => l2r[f] = "ping"
          /\ l2r[f] = "aborted" => l2r'[f] = "aborted"
      BY <2>15 DEF EndStream, TypeOK
    <3> QED
      BY <3>3, <3>4, OutstandingNat DEF PingQuiet
  <2>13. CASE DrainReply(e)
    <3> SUFFICES ASSUME NEW f \in Endpoints
                 PROVE  PingQuiet(f)
      BY <2>13, PingQuietStep DEF DrainReply
    <3>peer. /\ Peer(f) \in Endpoints
             /\ \/ f = e /\ Peer(f) = Peer(e) /\ Peer(e) # e
                \/ f = Peer(e) /\ Peer(f) = e /\ Peer(e) # e
      BY PeerCases
    <3> DEFINE op1 == Head(pending[e]).op
               reply == Control(IF op1 = "Ping" THEN "Pong" ELSE "Close")
    <3>1. reply \in Frames /\ reply.op = IF op1 = "Ping" THEN "Pong" ELSE "Close"
      BY FrameTypes DEF ControlOps
    <3>2. /\ pending[e] # << >> /\ op1 # "Pong" /\ l2r[e] = "drain"
          /\ pending' = [pending EXCEPT ![e] = Tail(pending[e])]
          /\ \/ WriteOk(e, reply) /\ l2r' = l2r
             \/ WriteErr(e, reply) /\ l2r' = [l2r EXCEPT ![e] = "close"]
      BY <2>13 DEF DrainReply
    <3>3. \A g \in Endpoints : \A op \in ControlOps :
            /\ Count(pending[g], op) = Count(pending'[g], op)
                 + (IF g = e /\ op1 = op THEN 1 ELSE 0)
            /\ Count(pending'[g], op) \in Nat
      BY <3>2, PendingTail, ZenonT(40)
    <3> HIDE DEF op1, reply
    <3>4. \A g \in Endpoints :
            /\ Count(pending[g], "Ping") = Count(pending'[g], "Ping")
                 + (IF g = e /\ op1 = "Ping" THEN 1 ELSE 0)
            /\ Count(pending[g], "Pong") = Count(pending'[g], "Pong")
            /\ Count(pending'[g], "Ping") \in Nat
      BY <3>2, <3>3, <1>nat DEF ControlOps
    <3>5. \A g \in Endpoints :
            /\ Count(wire'[g], "Ping") = Count(wire[g], "Ping")
            /\ Count(wire'[g], "Pong") \in Nat
            /\ Count(wire'[g], "Pong") <= Count(wire[g], "Pong")
                 + (IF g = Peer(e) /\ op1 = "Ping" THEN 1 ELSE 0)
      <4>1. CASE WriteErr(e, reply)
        BY <4>1, WriteErrWire, <1>nat
      <4>2. CASE WriteOk(e, reply)
        <5>1. \A g \in Endpoints : \A op \in ControlOps :
                /\ Count(wire'[g], op) = Count(wire[g], op)
                     + (IF g = Peer(e) /\ reply.op = op THEN 1 ELSE 0)
                /\ Count(wire'[g], op) \in Nat
          BY <4>2, <3>1, WriteIsPut, WireAppend
        <5> QED
          BY <5>1, <3>1, <1>nat DEF ControlOps
      <4> QED
        BY <3>2, <4>1, <4>2
    <3>6. Outstanding(f)' <= Outstanding(f) /\ Outstanding(f)' \in Nat
      BY <3>4, <3>5, <1>nat, <3>peer DEF Outstanding
    <3>7. /\ l2r'[f] = "ping" => l2r[f] = "ping"
          /\ l2r[f] = "aborted" => l2r'[f] = "aborted"
      BY <3>2 DEF TypeOK
    <3> QED
      BY <3>6, <3>7 DEF PingQuiet
  <2>14. CASE DrainPong(e)
    <3> SUFFICES ASSUME NEW f \in Endpoints
                 PROVE  /\ Outstanding(f)' + AboutToPing(f)' <= inFlight'[f]
                        /\ Outstanding(f)' + AboutToPing(f)' <= MaxInFlightPing
                        /\ inFlight'[f] <= MaxInFlightPing
                                             + (IF l2r'[f] = "aborted" THEN 1 ELSE 0)
      BY DEF PingCounterSound
    <3>old. /\ Outstanding(f) + AboutToPing(f) <= inFlight[f]
            /\ Outstanding(f) + AboutToPing(f) <= MaxInFlightPing
            /\ inFlight[f] <= MaxInFlightPing + (IF l2r[f] = "aborted" THEN 1 ELSE 0)
      BY DEF PingCounterSound
    <3>nat. Outstanding(f) \in Nat /\ AboutToPing(f) \in Nat /\ inFlight[f] \in Nat
      BY OutstandingNat
    <3>peer. /\ Peer(f) \in Endpoints
             /\ \/ f = e /\ Peer(f) = Peer(e) /\ Peer(e) # e
                \/ f = Peer(e) /\ Peer(f) = e /\ Peer(e) # e
      BY PeerCases
    <3>1. /\ pending[e] # << >> /\ Head(pending[e]).op = "Pong"
          /\ pending' = [pending EXCEPT ![e] = Tail(pending[e])]
          /\ inFlight' = [inFlight EXCEPT ![e] = IF @ = 0 THEN UsizeMax ELSE @ - 1]
          /\ UNCHANGED <<l2r, wire>>
      BY <2>14 DEF DrainPong
    <3>2. \A g \in Endpoints : \A op \in ControlOps :
            /\ Count(pending[g], op) = Count(pending'[g], op)
                 + (IF g = e /\ Head(pending[e]).op = op THEN 1 ELSE 0)
            /\ Count(pending'[g], op) \in Nat
      BY <3>1, PendingTail, ZenonT(40)
    <3>6. \A g \in Endpoints :
            /\ Count(pending'[g], "Ping") = Count(pending[g], "Ping")
            /\ Count(pending[g], "Pong") = Count(pending'[g], "Pong")
                 + (IF g = e THEN 1 ELSE 0)
            /\ Count(pending'[g], "Pong") \in Nat
      <4>1. TAKE g \in Endpoints
      <4>2. Head(pending[e]).op = "Pong"
        BY <3>1
      <4>3. Count(pending[g], "Ping") = Count(pending'[g], "Ping")
              + (IF g = e /\ Head(pending[e]).op = "Ping" THEN 1 ELSE 0)
        BY <3>2 DEF ControlOps
      <4>4. Count(pending[g], "Pong") = Count(pending'[g], "Pong")
              + (IF g = e /\ Head(pending[e]).op = "Pong" THEN 1 ELSE 0)
        BY <3>2 DEF ControlOps
      <4>5. Count(pending'[g], "Ping") \in Nat /\ Count(pending'[g], "Pong") \in Nat
        BY <3>2 DEF ControlOps
      <4> QED
        BY <4>2, <4>3, <4>4, <4>5
    <3>7. wire' = wire
      BY <3>1
    <3>3. /\ Outstanding(f) = Outstanding(f)' + (IF f = e THEN 1 ELSE 0)
          /\ Outstanding(f)' \in Nat
      BY <3>6, <3>7, <1>nat, <3>peer DEF Outstanding
    <3>4. AboutToPing(f)' = AboutToPing(f)
      BY <3>1 DEF AboutToPing
    <3>5. inFlight'[f] = inFlight[f] - (IF f = e THEN 1 ELSE 0)
      <4>1. f = e => inFlight[f] # 0
        BY <3>old, <3>nat, <3>3
      <4>2. inFlight'[f] = IF f = e THEN (IF inFlight[f] = 0 THEN UsizeMax ELSE inFlight[f] - 1)
                                    ELSE inFlight[f]
        BY <3>1 DEF TypeOK
      <4> QED
        BY <4>1, <4>2, <3>nat
    <3> QED
      BY <3>old, <3>nat, <3>1, <3>3, <3>4, <3>5, ConstantsAssumption
  <2> QED
    BY <1>3, <2>1, <2>2, <2>3, <2>4, <2>5, <2>6, <2>7, <2>8, <2>9, <2>10, <2>11, <2>12, <2>13, <2>14, <2>15
    DEF L2RTask
<1>4. ASSUME NEW e \in Endpoints, R2LStep(e) \/ LocalWrite(e)
      PROVE  PingCounterSound'
  <2>1. CASE ReadBinary(e)
    BY <2>1, PingIdleStep DEF ReadBinary
  <2>2. CASE DeliverFail(e)
    BY <2>2, PingIdleStep DEF DeliverFail
  <2>3. CASE NotifyWaiters(e)
    BY <2>3, PingIdleStep DEF NotifyWaiters
  <2>4. CASE ReadErr(e)
    BY <2>4, PingIdleStep DEF ReadErr
  <2>5. CASE CopyPending(e)
    BY <2>5, PingIdleStep DEF CopyPending
  <2>6. CASE CloseRx(e)
    BY <2>6, PingIdleStep DEF CloseRx
  <2>7. CASE Deliver(e)
    <3> SUFFICES ASSUME NEW f \in Endpoints
                 PROVE  PingQuiet(f)
      BY <2>7, PingQuietStep DEF Deliver
    <3>1. /\ wire[e] # << >> /\ HeadOp(e) = "Binary"
          /\ wire' = [wire EXCEPT ![e] = Tail(wire[e])]
          /\ UNCHANGED <<l2r, pending>>
      BY <2>7 DEF Deliver, ReaderInv
    <3>2. \A g \in Endpoints :
            /\ Count(wire'[g], "Ping") = Count(wire[g], "Ping")
            /\ Count(wire'[g], "Pong") = Count(wire[g], "Pong")
      BY <3>1, WireTailQuiet, ZenonT(40)
    <3>3. Outstanding(f)' = Outstanding(f)
      BY <3>1, <3>2, PeerCases DEF Outstanding
    <3> QED
      BY <3>1, <3>3, OutstandingNat DEF PingQuiet
  <2>8. CASE ReadPingPong(e)
    <3> SUFFICES ASSUME NEW f \in Endpoints
                 PROVE  PingQuiet(f)
      BY <2>8, PingQuietStep DEF ReadPingPong
    <3>peer. /\ Peer(f) \in Endpoints
             /\ \/ f = e /\ Peer(f) = Peer(e) /\ Peer(e) # e
                \/ f = Peer(e) /\ Peer(f) = e /\ Peer(e) # e
      BY PeerCases
    <3>1. /\ wire[e] # << >> /\ HeadOp(e) # "Binary"
          /\ wire' = [wire EXCEPT ![e] = Tail(wire[e])]
          /\ \/ pending' = [pending EXCEPT ![e] = Append(pending[e], Head(wire[e]))]
             \/ pending' = pending
          /\ UNCHANGED l2r
      BY <2>8 DEF ReadPingPong, FrameReady
    <3>2. \A g \in Endpoints : \A op \in ControlOps :
            /\ Count(wire[g], op) = Count(wire'[g], op)
                 + (IF g = e /\ HeadOp(e) = op THEN 1 ELSE 0)
            /\ Count(wire'[g], op) \in Nat
      BY <3>1, WireTail, ZenonT(40)
    <3>3. \A g \in Endpoints : \A op \in ControlOps :
            /\ Count(pending'[g], op) <= Count(pending[g], op)
                 + (IF g = e /\ HeadOp(e) = op THEN 1 ELSE 0)
            /\ Count(pending'[g], op) \in Nat
      <4>1. CASE pending' = pending
        BY <4>1, CountsAreNat
      <4>2. CASE pending' = [pending EXCEPT ![e] = Append(pending[e], Head(wire[e]))]
        <5>1. Head(wire[e]) \in ControlFrames
          BY <3>1, HeadTypes DEF TypeOK
        <5>2. \A g \in Endpoints : \A op \in ControlOps :
                /\ Count(pending'[g], op) = Count(pending[g], op)
                     + (IF g = e /\ Head(wire[e]).op = op THEN 1 ELSE 0)
                /\ Count(pending'[g], op) \in Nat
          BY <4>2, <5>1, PendingAppend, ZenonT(40)
        <5> QED
          BY <5>2, CountsAreNat DEF HeadOp
      <4> QED
        BY <3>1, <4>1, <4>2
    <3>4. \A g \in Endpoints :
            /\ Count(wire'[g], "Ping") \in Nat /\ Count(wire'[g], "Pong") \in Nat
            /\ Count(pending'[g], "Ping") \in Nat /\ Count(pending'[g], "Pong") \in Nat
            /\ Count(wire'[g], "Ping") + Count(pending'[g], "Ping")
                 <= Count(wire[g], "Ping") + Count(pending[g], "Ping")
            /\ Count(wire'[g], "Pong") + Count(pending'[g], "Pong")
                 <= Count(wire[g], "Pong") + Count(pending[g], "Pong")
      BY <3>2, <3>3, <1>nat DEF ControlOps
    <3>5. Outstanding(f)' <= Outstanding(f) /\ Outstanding(f)' \in Nat
      BY <3>4, <1>nat, <3>peer DEF Outstanding
    <3> QED
      BY <3>1, <3>5 DEF PingQuiet
  <2>9. CASE ReadClose(e)
    <3> SUFFICES ASSUME NEW f \in Endpoints
                 PROVE  PingQuiet(f)
      BY <2>9, PingQuietStep DEF ReadClose
    <3>peer. /\ Peer(f) \in Endpoints
             /\ \/ f = e /\ Peer(f) = Peer(e) /\ Peer(e) # e
                \/ f = Peer(e) /\ Peer(f) = e /\ Peer(e) # e
      BY PeerCases
    <3>1. /\ wire[e] # << >> /\ HeadOp(e) # "Binary"
          /\ wire' = [wire EXCEPT ![e] = Tail(wire[e])]
          /\ \/ pending' = [pending EXCEPT ![e] = Append(pending[e], Head(wire[e]))]
             \/ pending' = pending
          /\ UNCHANGED l2r
      BY <2>9 DEF ReadClose, FrameReady
    <3>2. \A g \in Endpoints : \A op \in ControlOps :
            /\ Count(wire[g], op) = Count(wire'[g], op)
                 + (IF g = e /\ HeadOp(e) = op THEN 1 ELSE 0)
            /\ Count(wire'[g], op) \in Nat
      BY <3>1, WireTail, ZenonT(40)
    <3>3. \A g \in Endpoints : \A op \in ControlOps :
            /\ Count(pending'[g], op) <= Count(pending[g], op)
                 + (IF g = e /\ HeadOp(e) = op THEN 1 ELSE 0)
            /\ Count(pending'[g], op) \in Nat
      <4>1. CASE pending' = pending
        BY <4>1, CountsAreNat
      <4>2. CASE pending' = [pending EXCEPT ![e] = Append(pending[e], Head(wire[e]))]
        <5>1. Head(wire[e]) \in ControlFrames
          BY <3>1, HeadTypes DEF TypeOK
        <5>2. \A g \in Endpoints : \A op \in ControlOps :
                /\ Count(pending'[g], op) = Count(pending[g], op)
                     + (IF g = e /\ Head(wire[e]).op = op THEN 1 ELSE 0)
                /\ Count(pending'[g], op) \in Nat
          BY <4>2, <5>1, PendingAppend, ZenonT(40)
        <5> QED
          BY <5>2, CountsAreNat DEF HeadOp
      <4> QED
        BY <3>1, <4>1, <4>2
    <3>4. \A g \in Endpoints :
            /\ Count(wire'[g], "Ping") \in Nat /\ Count(wire'[g], "Pong") \in Nat
            /\ Count(pending'[g], "Ping") \in Nat /\ Count(pending'[g], "Pong") \in Nat
            /\ Count(wire'[g], "Ping") + Count(pending'[g], "Ping")
                 <= Count(wire[g], "Ping") + Count(pending[g], "Ping")
            /\ Count(wire'[g], "Pong") + Count(pending'[g], "Pong")
                 <= Count(wire[g], "Pong") + Count(pending[g], "Pong")
      BY <3>2, <3>3, <1>nat DEF ControlOps
    <3>5. Outstanding(f)' <= Outstanding(f) /\ Outstanding(f)' \in Nat
      BY <3>4, <1>nat, <3>peer DEF Outstanding
    <3> QED
      BY <3>1, <3>5 DEF PingQuiet
  <2>10. CASE ReadEndStream(e)
    <3> SUFFICES ASSUME NEW f \in Endpoints
                 PROVE  PingQuiet(f)
      BY <2>10, PingQuietStep DEF ReadEndStream
    <3>1. /\ wire[e] # << >> /\ HeadOp(e) = "Close"
          /\ wire' = [wire EXCEPT ![e] = Tail(wire[e])]
          /\ UNCHANGED <<l2r, pending>>
      BY <2>10 DEF ReadEndStream, FrameReady
    <3>2. \A g \in Endpoints :
            /\ Count(wire'[g], "Ping") = Count(wire[g], "Ping")
            /\ Count(wire'[g], "Pong") = Count(wire[g], "Pong")
      BY <3>1, WireTailQuiet, ZenonT(40)
    <3>3. Outstanding(f)' = Outstanding(f)
      BY <3>1, <3>2, PeerCases DEF Outstanding
    <3> QED
      BY <3>1, <3>3, OutstandingNat DEF PingQuiet
  <2> QED
    BY <1>4, <2>1, <2>2, <2>3, <2>4, <2>5, <2>6, <2>7, <2>8, <2>9, <2>10
    DEF R2LStep, LocalWrite
<1> QED
  BY <1>1, <1>2, <1>3, <1>4 DEF Next, Terminated

-----------------------------------------------------------------------------
(* The reader's part of the invariant *)

\* A write, by either endpoint, keeps the head of a wire that is not empty.
LEMMA WriteKeepsHead ==
  ASSUME TypeOK, NEW e \in Endpoints, NEW frame \in Frames, NEW g \in Endpoints,
         Put(e, frame) \/ UNCHANGED wireVars, wire[g] # << >>
  PROVE  wire'[g] # << >> /\ Head(wire'[g]) = Head(wire[g])
<1>1. wire[g] \in Seq(Frames)
  BY DEF TypeOK
<1>2. CASE UNCHANGED wireVars
  BY <1>2 DEF wireVars
<1>3. CASE Put(e, frame)
  <2>1. wire'[g] = wire[g] \/ wire'[g] = Append(wire[g], frame)
    BY <1>3 DEF Put, TypeOK
  <2> QED
    BY <1>1, <2>1
<1> QED
  BY <1>2, <1>3

\* Each step keeps the reader's data frame where it is and lets at most one
\* Close into the pending channel.
LEMMA ReaderStep == TypeOK /\ ReaderInv /\ [Next]_vars => ReaderInv'
<1> SUFFICES ASSUME TypeOK, ReaderInv, [Next]_vars, NEW g \in Endpoints
             PROVE  /\ r2l'[g] = "deliver" => wire'[g] # << >> /\ Head(wire'[g]).op = "Binary"
                    /\ Count(pending'[g], "Close")
                         <= IF r2l'[g] \in {"notifyClose", "closed"} THEN 1 ELSE 0
  BY DEF ReaderInv, HeadOp
<1> USE DEF wireVars, dataVars, taskVars, linkVars
<1>old. /\ r2l[g] = "deliver" => wire[g] # << >> /\ Head(wire[g]).op = "Binary"
        /\ Count(pending[g], "Close")
             <= IF r2l[g] \in {"notifyClose", "closed"} THEN 1 ELSE 0
  BY DEF ReaderInv, HeadOp
<1>nat. Count(pending[g], "Close") \in Nat
  BY CountsAreNat DEF ControlOps
<1>1. CASE UNCHANGED vars
  BY <1>1, <1>old DEF vars
<1>2. CASE LinkStall \/ LinkFail \/ \E e \in Endpoints : CnxEnd(e)
  BY <1>2, <1>old DEF LinkStall, LinkFail, CnxEnd
<1>3. ASSUME NEW e \in Endpoints, L2RTask(e)
      PROVE  /\ r2l'[g] = "deliver" => wire'[g] # << >> /\ Head(wire'[g]).op = "Binary"
             /\ Count(pending'[g], "Close")
                  <= IF r2l'[g] \in {"notifyClose", "closed"} THEN 1 ELSE 0
  <2>1. CASE L2RStart(e)
    BY <2>1, <1>old DEF L2RStart
  <2>2. CASE SelectNotified(e)
    BY <2>2, <1>old DEF SelectNotified
  <2>3. CASE SelectPoll(e)
    BY <2>3, <1>old DEF SelectPoll
  <2>4. CASE SelectPark(e)
    BY <2>4, <1>old DEF SelectPark
  <2>5. CASE LocalEof(e)
    BY <2>5, <1>old DEF LocalEof
  <2>6. CASE ShouldClose(e)
    BY <2>6, <1>old DEF ShouldClose
  <2>7. CASE DrainEnd(e)
    BY <2>7, <1>old DEF DrainEnd
  <2>8. CASE ReadLocal(e)
    BY <2>8, <1>old DEF ReadLocal
  <2>9. CASE PingTick(e)
    BY <2>9, <1>old DEF PingTick
  <2>10. CASE WritePing(e)
    <3>1. Control("Ping") \in Frames
      BY FrameTypes DEF ControlOps
    <3>2. /\ WriteOk(e, Control("Ping")) \/ WriteErr(e, Control("Ping"))
          /\ r2l' = r2l /\ pending' = pending
      BY <2>10 DEF WritePing
    <3> QED
      BY <1>old, <3>1, <3>2, WriteIsPut, WriteKeepsHead
  <2>11. CASE Write(e)
    <3>1. Binary(buf[e]) \in Frames
      BY FrameTypes DEF TypeOK
    <3>2. /\ WriteOk(e, Binary(buf[e])) \/ WriteErr(e, Binary(buf[e]))
          /\ r2l' = r2l /\ pending' = pending
      BY <2>11 DEF Write
    <3> QED
      BY <1>old, <3>1, <3>2, WriteIsPut, WriteKeepsHead
  <2>12. CASE Close(e)
    <3>1. Control("Close") \in Frames
      BY FrameTypes DEF ControlOps
    <3>2. /\ WriteOk(e, Control("Close")) \/ WriteErr(e, Control("Close"))
          /\ r2l' = r2l /\ pending' = pending
      BY <2>12 DEF Close
    <3> QED
      BY <1>old, <3>1, <3>2, WriteIsPut, WriteKeepsHead
  <2>15. CASE EndStream(e)
    <3>1. Control("Close") \in Frames
      BY FrameTypes DEF ControlOps
    <3>2. /\ Put(e, Control("Close")) \/ UNCHANGED wireVars
          /\ r2l' = r2l /\ pending' = pending
      BY <2>15 DEF EndStream
    <3> QED
      BY <1>old, <3>1, <3>2, WriteKeepsHead
  <2>13. CASE DrainReply(e)
    <3> DEFINE reply == Control(IF Head(pending[e]).op = "Ping" THEN "Pong" ELSE "Close")
    <3>1. reply \in Frames
      BY FrameTypes DEF ControlOps
    <3>2. /\ WriteOk(e, reply) \/ WriteErr(e, reply)
          /\ r2l' = r2l /\ pending[e] # << >>
          /\ pending' = [pending EXCEPT ![e] = Tail(pending[e])]
      BY <2>13 DEF DrainReply
    <3> HIDE DEF reply
    <3>3. /\ Count(pending[g], "Close") = Count(pending'[g], "Close")
               + (IF g = e /\ Head(pending[e]).op = "Close" THEN 1 ELSE 0)
          /\ Count(pending'[g], "Close") \in Nat
      BY <3>2, PendingTail, ZenonT(40) DEF ControlOps
    <3>4. Count(pending'[g], "Close") <= Count(pending[g], "Close")
      BY <3>3, <1>nat
    <3>5. r2l[g] = "deliver" => wire'[g] # << >> /\ Head(wire'[g]).op = "Binary"
      BY <1>old, <3>1, <3>2, WriteIsPut, WriteKeepsHead
    <3> QED
      BY <1>old, <1>nat, <3>2, <3>3, <3>4, <3>5
  <2>14. CASE DrainPong(e)
    <3>1. /\ r2l' = r2l /\ wire' = wire /\ pending[e] # << >>
          /\ pending' = [pending EXCEPT ![e] = Tail(pending[e])]
      BY <2>14 DEF DrainPong
    <3>2. /\ Count(pending[g], "Close") = Count(pending'[g], "Close")
               + (IF g = e /\ Head(pending[e]).op = "Close" THEN 1 ELSE 0)
          /\ Count(pending'[g], "Close") \in Nat
      BY <3>1, PendingTail, ZenonT(40) DEF ControlOps
    <3>3. Count(pending'[g], "Close") <= Count(pending[g], "Close")
      BY <3>2, <1>nat
    <3> QED
      BY <1>old, <1>nat, <3>1, <3>2, <3>3
  <2> QED
    BY <1>3, <2>1, <2>2, <2>3, <2>4, <2>5, <2>6, <2>7, <2>8, <2>9, <2>10, <2>11, <2>12, <2>13, <2>14, <2>15
    DEF L2RTask
<1>4. ASSUME NEW e \in Endpoints, R2LStep(e) \/ LocalWrite(e)
      PROVE  /\ r2l'[g] = "deliver" => wire'[g] # << >> /\ Head(wire'[g]).op = "Binary"
             /\ Count(pending'[g], "Close")
                  <= IF r2l'[g] \in {"notifyClose", "closed"} THEN 1 ELSE 0
  <2>1. CASE ReadBinary(e)
    BY <2>1, <1>old DEF ReadBinary, TypeOK, FrameReady, HeadOp
  <2>2. CASE DeliverFail(e)
    BY <2>2, <1>old DEF DeliverFail, TypeOK
  <2>3. CASE NotifyWaiters(e)
    BY <2>3, <1>old DEF NotifyWaiters, TypeOK
  <2>4. CASE ReadErr(e)
    BY <2>4, <1>old DEF ReadErr, TypeOK
  <2>5. CASE CopyPending(e)
    BY <2>5, <1>old DEF CopyPending, TypeOK
  <2>6. CASE CloseRx(e)
    BY <2>6, <1>old DEF CloseRx, TypeOK
  <2>7. CASE Deliver(e)
    <3>1. /\ pending' = pending
          /\ r2l[e] = "deliver" /\ r2l' = [r2l EXCEPT ![e] = "read"]
          /\ wire' = [wire EXCEPT ![e] = Tail(wire[e])]
      BY <2>7 DEF Deliver
    <3>2. g # e => r2l'[g] = r2l[g] /\ wire'[g] = wire[g]
      BY <3>1 DEF TypeOK
    <3>3. r2l'[e] = "read"
      BY <3>1 DEF TypeOK
    <3> QED
      BY <1>old, <3>1, <3>2, <3>3
  <2>8. CASE ReadPingPong(e)
    <3>1. /\ wire[e] # << >> /\ HeadOp(e) \in {"Ping", "Pong"}
          /\ r2l[e] = "read" /\ r2l'[e] \in {"notify", "failed"}
          /\ g # e => r2l'[g] = r2l[g] /\ wire'[g] = wire[g] /\ pending'[g] = pending[g]
          /\ \/ pending' = [pending EXCEPT ![e] = Append(pending[e], Head(wire[e]))]
             \/ pending' = pending
      BY <2>8 DEF ReadPingPong, FrameReady, TypeOK
    <3>2. CASE g # e
      BY <1>old, <3>1, <3>2
    <3>3. CASE g = e /\ pending' = pending
      BY <1>old, <1>nat, <3>1, <3>3
    <3>4. CASE g = e /\ pending' = [pending EXCEPT ![e] = Append(pending[e], Head(wire[e]))]
      <4>1. Head(wire[e]) \in ControlFrames
        BY <3>1, HeadTypes, ZenonT(40) DEF TypeOK
      <4>2. Count(pending'[g], "Close") = Count(pending[g], "Close")
              + (IF Head(wire[e]).op = "Close" THEN 1 ELSE 0)
        <5>1. \A h \in Endpoints : \A op \in ControlOps :
                /\ Count(pending'[h], op) = Count(pending[h], op)
                     + (IF h = e /\ Head(wire[e]).op = op THEN 1 ELSE 0)
                /\ Count(pending'[h], op) \in Nat
          BY <3>4, <4>1, PendingAppend, ZenonT(40)
        <5> QED
          BY <3>4, <5>1 DEF ControlOps
      <4>3. Count(pending[g], "Close") = 0
        <5>1. r2l[g] = "read"
          BY <3>1, <3>4
        <5> QED
          BY <1>old, <1>nat, <5>1
      <4>4. Head(wire[e]).op # "Close"
        BY <3>1 DEF HeadOp
      <4>5. Count(pending'[g], "Close") = 0
        BY <4>2, <4>3, <4>4
      <4>6. r2l'[g] # "deliver"
        BY <3>1, <3>4
      <4> QED
        BY <4>5, <4>6
    <3> QED
      BY <3>1, <3>2, <3>3, <3>4
  <2>9. CASE ReadClose(e)
    <3>1. /\ wire[e] # << >> /\ HeadOp(e) = "Close"
          /\ r2l[e] = "read" /\ r2l'[e] \in {"notifyClose"}
          /\ g # e => r2l'[g] = r2l[g] /\ wire'[g] = wire[g] /\ pending'[g] = pending[g]
          /\ \/ pending' = [pending EXCEPT ![e] = Append(pending[e], Head(wire[e]))]
             \/ pending' = pending
      BY <2>9 DEF ReadClose, FrameReady, TypeOK
    <3>2. CASE g # e
      BY <1>old, <3>1, <3>2
    <3>3. CASE g = e /\ pending' = pending
      BY <1>old, <1>nat, <3>1, <3>3
    <3>4. CASE g = e /\ pending' = [pending EXCEPT ![e] = Append(pending[e], Head(wire[e]))]
      <4>1. Head(wire[e]) \in ControlFrames
        BY <3>1, HeadTypes, ZenonT(40) DEF TypeOK
      <4>2. Count(pending'[g], "Close") = Count(pending[g], "Close")
              + (IF Head(wire[e]).op = "Close" THEN 1 ELSE 0)
        <5>1. \A h \in Endpoints : \A op \in ControlOps :
                /\ Count(pending'[h], op) = Count(pending[h], op)
                     + (IF h = e /\ Head(wire[e]).op = op THEN 1 ELSE 0)
                /\ Count(pending'[h], op) \in Nat
          BY <3>4, <4>1, PendingAppend, ZenonT(40)
        <5> QED
          BY <3>4, <5>1 DEF ControlOps
      <4>3. Count(pending[g], "Close") = 0
        <5>1. r2l[g] = "read"
          BY <3>1, <3>4
        <5> QED
          BY <1>old, <1>nat, <5>1
      <4>4. Count(pending'[g], "Close") <= 1
        BY <4>2, <4>3
      <4>5. r2l'[g] = "notifyClose"
        BY <3>1, <3>4
      <4> QED
        BY <4>4, <4>5
    <3> QED
      BY <3>1, <3>2, <3>3, <3>4
  <2>10. CASE ReadEndStream(e)
    <3>1. /\ pending' = pending
          /\ r2l[e] = "read" /\ r2l' = [r2l EXCEPT ![e] = "closed"]
          /\ wire' = [wire EXCEPT ![e] = Tail(wire[e])]
      BY <2>10 DEF ReadEndStream, FrameReady
    <3>2. g # e => r2l'[g] = r2l[g] /\ wire'[g] = wire[g]
      BY <3>1 DEF TypeOK
    <3>3. r2l'[e] = "closed"
      BY <3>1 DEF TypeOK
    <3> QED
      BY <1>old, <1>nat, <3>1, <3>2, <3>3
  <2> QED
    BY <1>4, <2>1, <2>2, <2>3, <2>4, <2>5, <2>6, <2>7, <2>8, <2>9, <2>10
    DEF R2LStep, LocalWrite
<1> QED
  BY <1>1, <1>2, <1>3, <1>4 DEF Next, Terminated

-----------------------------------------------------------------------------
(* The theorems *)

\* The inductive invariant.  TypeOK alone is not inductive: Deliver takes a
\* data frame from a wire that only ReaderInv knows not to be empty.
PingInv == TypeOK /\ ReaderInv /\ PingCounterSound

\* The inductive invariant holds initially ...
LEMMA PingInvInit == Init => PingInv
<1> SUFFICES ASSUME Init
             PROVE  PingInv
  OBVIOUS
<1>1. << >> \in Seq(Nat) /\ << >> \in Seq(Frames) /\ << >> \in Seq(ControlFrames)
  OBVIOUS
<1>2. TypeOK
  BY <1>1, ConstantsAssumption DEF Init, TypeOK
<1>3. ReaderInv
  BY CountEmpty DEF Init, ReaderInv
<1>4. PingCounterSound
  <2> SUFFICES ASSUME NEW f \in Endpoints
               PROVE  /\ Outstanding(f) + AboutToPing(f) <= inFlight[f]
                      /\ Outstanding(f) + AboutToPing(f) <= MaxInFlightPing
                      /\ inFlight[f] <= MaxInFlightPing
                                          + (IF l2r[f] = "aborted" THEN 1 ELSE 0)
    BY DEF PingCounterSound
  <2>1. /\ wire[f] = << >> /\ wire[Peer(f)] = << >>
        /\ pending[f] = << >> /\ pending[Peer(f)] = << >>
        /\ l2r[f] = "start" /\ inFlight[f] = 0
    BY PeerCases DEF Init
  <2>2. Outstanding(f) = 0
    <3>1. /\ Count(wire[Peer(f)], "Ping") = 0 /\ Count(pending[Peer(f)], "Ping") = 0
          /\ Count(wire[f], "Pong") = 0 /\ Count(pending[f], "Pong") = 0
      BY <2>1, CountEmpty
    <3> QED
      BY <3>1 DEF Outstanding
  <2>3. AboutToPing(f) = 0
    BY <2>1 DEF AboutToPing
  <2> QED
    BY <2>1, <2>2, <2>3, ConstantsAssumption
<1> QED
  BY <1>2, <1>3, <1>4 DEF PingInv

\* ... is kept by every step ...
LEMMA PingInvStep == PingInv /\ [Next]_vars => PingInv'
BY TypeStep, ReaderStep, PingStep DEF PingInv

\* ... and so holds always.
LEMMA PingInvAlways == Spec => []PingInv
BY PingInvInit, PingInvStep, PTL DEF Spec

\* Every reachable state is well typed; in particular the in-flight counter
\* stays a usize and only control frames travel from the reader to the writer.
THEOREM TypeCorrect == Spec => []TypeOK
<1>1. PingInv => TypeOK
  BY DEF PingInv
<1> QED
  BY <1>1, PingInvAlways, PTL

\* For every limit and whatever the tasks and the connection do, at most
\* MaxInFlightPing pings are outstanding and in_flight_ping never wraps below 0.
THEOREM PingCountersNeverWrap == Spec => []PingCounterSound
<1>1. PingInv => PingCounterSound
  BY DEF PingInv
<1> QED
  BY <1>1, PingInvAlways, PTL

\* A channel with more than 2 * MaxInFlightPing + 1 slots never makes the
\* reader wait: 10 slots are enough for the 3 pings websocket.rs allows.
THEOREM PendingChannelNeverFull == Spec => []PendingNeverFull
<1>1. PingInv => PendingNeverFull
  <2> SUFFICES ASSUME TypeOK, ReaderInv, PingCounterSound, NEW e \in Endpoints
               PROVE  ~ PendingFull(e)
    BY DEF PingInv, PendingNeverFull
  <2>1. Peer(e) \in Endpoints /\ Peer(Peer(e)) = e
    BY PeerFacts
  <2>2. \A f \in Endpoints :
          /\ Count(wire[f], "Ping") \in Nat /\ Count(pending[f], "Ping") \in Nat
          /\ Count(wire[f], "Pong") \in Nat /\ Count(pending[f], "Pong") \in Nat
    BY CountsAreNat DEF ControlOps
  <2>3. \A f \in Endpoints : Outstanding(f) <= MaxInFlightPing
    BY OutstandingNat, ConstantsAssumption DEF PingCounterSound
  <2>4. Count(pending[e], "Pong") <= MaxInFlightPing
    BY <2>1, <2>2, <2>3, ConstantsAssumption DEF Outstanding
  <2>5. Count(pending[e], "Ping") <= MaxInFlightPing
    <3>1. Outstanding(Peer(e)) <= MaxInFlightPing
      BY <2>1, <2>3
    <3> QED
      BY <2>1, <2>2, <3>1, ConstantsAssumption DEF Outstanding
  <2>6. Count(pending[e], "Close") \in Nat /\ Count(pending[e], "Close") <= 1
    BY CountsAreNat DEF ReaderInv, ControlOps
  <2>7. Len(pending[e]) = Count(pending[e], "Ping") + Count(pending[e], "Pong")
                            + Count(pending[e], "Close")
    <3>1. pending[e] \in Seq(ControlFrames) /\ \A f \in ControlFrames : f.op \in ControlOps
      BY ZenonT(40) DEF TypeOK, ControlFrames
    <3> QED
      BY <3>1, CountSum
  <2> QED
    BY <2>2, <2>4, <2>5, <2>6, <2>7, ConstantsAssumption DEF PendingFull
<1> QED
  BY <1>1, PingInvAlways, PTL


-----------------------------------------------------------------------------
(* Wake-ups *)

\* NoLostWakeup for one endpoint.
Woken(e) ==
  notified[e] = "armed" /\ pending[e] # << >>
    => \/ l2r[e] = "drain" \/ l2r[e] = "close" \/ L2RDone(e)
       \/ r2l[e] \in {"notify", "notifyClose"}

\* A step of the writer of e: it holds a future that is armed only when it
\* goes on to drain, and leaves a drain only with the channel empty or for good.
LEMMA WriterWakes ==
  ASSUME TypeOK, NEW e \in Endpoints, Woken(e), L2RTask(e)
  PROVE  Woken(e)'
<1>1. CASE L2RStart(e) \/ SelectNotified(e)
  BY <1>1 DEF L2RStart, SelectNotified, TypeOK, Woken
<1>2. CASE SelectPoll(e) \/ SelectPark(e)
  BY <1>2 DEF SelectPoll, SelectPark, TypeOK, Woken, L2RDone
<1>3. CASE ReadLocal(e)
  BY <1>3 DEF ReadLocal, TypeOK, Woken, L2RDone
<1>4. CASE LocalEof(e) \/ ShouldClose(e)
  BY <1>4 DEF LocalEof, ShouldClose, TypeOK, Woken
<1>5. CASE PingTick(e)
  BY <1>5 DEF PingTick, TypeOK, Woken, L2RDone
<1>6. CASE WritePing(e)
  BY <1>6 DEF WritePing, TypeOK, Woken, L2RDone
<1>7. CASE Write(e)
  BY <1>7 DEF Write, TypeOK, Woken, L2RDone
<1>8. CASE Close(e) \/ EndStream(e)
  BY <1>8 DEF Close, EndStream, TypeOK, Woken, L2RDone
<1>9. CASE DrainEnd(e)
  BY <1>9 DEF DrainEnd, TypeOK, Woken
<1>10. CASE DrainReply(e) \/ DrainPong(e)
  BY <1>10 DEF DrainReply, DrainPong, TypeOK, Woken
<1> QED
  BY <1>1, <1>2, <1>3, <1>4, <1>5, <1>6, <1>7, <1>8, <1>9, <1>10 DEF L2RTask

\* A step of the reader of e: it queues a frame only when it is about to wake
\* the writer, and waking leaves no future armed.
LEMMA ReaderWakes ==
  ASSUME TypeOK, NEW e \in Endpoints, Woken(e), R2LStep(e) \/ LocalWrite(e)
  PROVE  Woken(e)'
<1>1. CASE ReadBinary(e)
  BY <1>1 DEF ReadBinary, FrameReady, TypeOK, Woken, L2RDone
<1>2. CASE ReadPingPong(e)
  BY <1>2 DEF ReadPingPong, FrameReady, TypeOK, Woken, L2RDone
<1>3. CASE ReadClose(e)
  BY <1>3 DEF ReadClose, FrameReady, TypeOK, Woken, L2RDone
<1>4. CASE ReadEndStream(e)
  BY <1>4 DEF ReadEndStream, FrameReady, TypeOK, Woken, L2RDone
<1>5. CASE NotifyWaiters(e)
  BY <1>5 DEF NotifyWaiters, TypeOK, Woken, L2RDone
<1>6. CASE ReadErr(e) \/ CopyPending(e)
  BY <1>6 DEF ReadErr, CopyPending, TypeOK, Woken, L2RDone
<1>7. CASE CloseRx(e)
  BY <1>7 DEF CloseRx, TypeOK, Woken, L2RDone
<1>8. CASE Deliver(e) \/ DeliverFail(e)
  BY <1>8 DEF Deliver, DeliverFail, TypeOK, Woken, L2RDone
<1> QED
  BY <1>1, <1>2, <1>3, <1>4, <1>5, <1>6, <1>7, <1>8 DEF R2LStep, LocalWrite

\* A step changes the tasks and the channel of one endpoint only.
LEMMA OthersAsleep ==
  ASSUME TypeOK, NEW e \in Endpoints, NEW f \in Endpoints \ {e},
         L2RTask(e) \/ R2LStep(e) \/ LocalWrite(e)
  PROVE  /\ l2r'[f] = l2r[f] /\ r2l'[f] = r2l[f]
         /\ notified'[f] = notified[f] /\ pending'[f] = pending[f]
<1>1. CASE L2RTask(e)
  BY <1>1 DEF L2RTask, L2RStart, SelectNotified, SelectPoll, SelectPark, ReadLocal,
       LocalEof, ShouldClose, PingTick, WritePing, Write, Close, EndStream,
       DrainEnd, DrainReply, DrainPong, TypeOK
<1>2. CASE R2LStep(e) \/ LocalWrite(e)
  BY <1>2, ZenonT(40) DEF R2LStep, LocalWrite, ReadBinary, ReadPingPong, ReadClose,
       ReadEndStream, NotifyWaiters, ReadErr, CopyPending, CloseRx, Deliver,
       DeliverFail, TypeOK
<1> QED
  BY <1>1, <1>2

\* No step loses a wake-up: the writer and the reader of the endpoint keep it,
\* and everybody else leaves it alone.
LEMMA WakeStep == TypeOK /\ NoLostWakeup /\ [Next]_vars => NoLostWakeup'
<1> SUFFICES ASSUME TypeOK, NoLostWakeup, [Next]_vars, NEW f \in Endpoints
             PROVE  Woken(f)'
  BY DEF NoLostWakeup, Woken
<1>old. Woken(f)
  BY DEF NoLostWakeup, Woken
<1>1. ASSUME l2r'[f] = l2r[f] /\ r2l'[f] = r2l[f]
             /\ notified'[f] = notified[f] /\ pending'[f] = pending[f]
      PROVE  Woken(f)'
  BY <1>1, <1>old DEF Woken, L2RDone
<1>2. ASSUME NEW e \in Endpoints, L2RTask(e) \/ R2LStep(e) \/ LocalWrite(e)
      PROVE  Woken(f)'
  <2>1. CASE f = e
    BY <1>2, <1>old, <2>1, WriterWakes, ReaderWakes
  <2>2. CASE f # e
    BY <1>1, <1>2, <2>2, OthersAsleep
  <2> QED
    BY <2>1, <2>2
<1>3. CASE UNCHANGED vars \/ LinkStall \/ LinkFail \/ \E e \in Endpoints : CnxEnd(e)
  BY <1>1, <1>3 DEF vars, LinkStall, LinkFail, CnxEnd, taskVars
<1> QED
  BY <1>2, <1>3 DEF Next, Terminated

\* Once the writer has re-armed its future no control frame is queued without
\* a wake-up, for every interleaving of the two tasks of an endpoint.
THEOREM WakeupsNeverLost == Spec => []NoLostWakeup
<1>1. Init => NoLostWakeup
  BY DEF Init, NoLostWakeup
<1>2. PingInv /\ NoLostWakeup /\ [Next]_vars => NoLostWakeup'
  BY WakeStep DEF PingInv
<1> QED
  BY <1>1, <1>2, PingInvAlways, PTL DEF Spec
=============================================================================
