-------------------------- MODULE TunnelPipeProofs --------------------------
(***************************************************************************)
(* TunnelIo implements DuplexPipe, for every value of the constants.       *)
(***************************************************************************)
EXTENDS TunnelIoProofs

\* Time limits of the provers.
USE SMTT(40), ZenonT(40), Z3T(40), SMTT(30), Z3T(30)

-----------------------------------------------------------------------------
(* Frames in a sequence *)

HasClose(s) == \E i \in DOMAIN s : s[i].op = "Close"
CloseIsLast(s) == \A i \in DOMAIN s : s[i].op = "Close" => i = Len(s)

\* A frame that is appended is the only new one.
LEMMA CloseAppend ==
  ASSUME NEW S, NEW s \in Seq(S), NEW f \in S
  PROVE  /\ HasClose(Append(s, f)) <=> HasClose(s) \/ f.op = "Close"
         /\ ~HasClose(s) => CloseIsLast(Append(s, f))
<1>1. /\ DOMAIN s = 1 .. Len(s) /\ Len(s) \in Nat
      /\ DOMAIN Append(s, f) = 1 .. Len(s) + 1 /\ Len(Append(s, f)) = Len(s) + 1
      /\ Append(s, f)[Len(s) + 1] = f
      /\ \A i \in 1 .. Len(s) : Append(s, f)[i] = s[i]
  OBVIOUS
<1> QED
  BY <1>1 DEF HasClose, CloseIsLast

\* Taking the head away loses the Close only if the head is one.
LEMMA CloseTail ==
  ASSUME NEW S, NEW s \in Seq(S), s # << >>
  PROVE  /\ HasClose(Tail(s)) => HasClose(s)
         /\ HasClose(s) /\ Head(s).op # "Close" => HasClose(Tail(s))
         /\ Head(s).op = "Close" => HasClose(s)
         /\ CloseIsLast(s) => CloseIsLast(Tail(s))
<1>1. /\ DOMAIN s = 1 .. Len(s) /\ Len(s) \in Nat \ {0}
      /\ DOMAIN Tail(s) = 1 .. Len(s) - 1 /\ Len(Tail(s)) = Len(s) - 1
      /\ Head(s) = s[1]
      /\ \A i \in 1 .. Len(s) - 1 : Tail(s)[i] = s[i + 1]
  OBVIOUS
<1>2. \A i \in 1 .. Len(s) : i # 1 => i - 1 \in 1 .. Len(s) - 1 /\ Tail(s)[i - 1] = s[i]
  BY <1>1
<1>3. \A i \in 1 .. Len(s) - 1 : i + 1 \in 1 .. Len(s)
  BY <1>1
<1>4. HasClose(Tail(s)) => HasClose(s)
  BY <1>1, <1>3 DEF HasClose
<1>5. HasClose(s) /\ Head(s).op # "Close" => HasClose(Tail(s))
  BY <1>1, <1>2, ZenonT(40) DEF HasClose
<1>6. Head(s).op = "Close" => HasClose(s)
  BY <1>1 DEF HasClose
<1>7. CloseIsLast(s) => CloseIsLast(Tail(s))
  BY <1>1, <1>3 DEF CloseIsLast
<1> QED
  BY <1>4, <1>5, <1>6, <1>7

\* A new channel has no frame.
LEMMA CloseEmpty == ~HasClose(<< >>) /\ CloseIsLast(<< >>)
BY DEF HasClose, CloseIsLast

-----------------------------------------------------------------------------
(* The steps, by what they do to the frames and to the data. *)

\* The writer moves and writes nothing; it may have taken a Pong.
Quiet(e) ==
  /\ l2r[e] \in {"start", "idle", "polled", "drain"}
  /\ \E to \in {"idle", "polled", "drain", "close", "ping", "aborted"} :
       l2r' = [l2r EXCEPT ![e] = to]
  /\ \/ pending' = pending
     \/ pending[e] # << >> /\ pending' = [pending EXCEPT ![e] = Tail(pending[e])]
  /\ UNCHANGED <<r2l, wireVars, dataVars, linkVars>>

\* The writer ends its stream.
Finish(e) ==
  /\ l2r[e] = "close" /\ l2r' = [l2r EXCEPT ![e] = "done"]
  /\ \/ ~Lost(e) /\ Put(e, Control("Close"))
     \/ (Lost(e) \/ Gone(Peer(e))) /\ UNCHANGED wireVars
  /\ UNCHANGED <<r2l, pending, dataVars, linkVars>>

\* The reader moves and takes no frame.
Look(e) ==
  /\ \E to \in {"read", "polled", "deliver", "closed", "refused", "failed", "cancelled"} :
       /\ r2l' = [r2l EXCEPT ![e] = to]
       /\ r2l[e] = "notifyClose" => to = "closed"
  /\ ~R2LDone(e)
  /\ UNCHANGED <<l2r, pending, wireVars, dataVars, linkVars>>

\* The reader takes a control frame, and may hand it to the writer.
Take(e) ==
  /\ wire[e] # << >> /\ HeadOp(e) # "Binary" /\ r2l[e] = "read"
  /\ wire' = [wire EXCEPT ![e] = Tail(wire[e])]
  /\ \/ pending' = pending
     \/ pending' = [pending EXCEPT ![e] = Append(pending[e], Head(wire[e]))]
  /\ \E to \in {"notify", "failed", "notifyClose", "closed"} :
       /\ r2l' = [r2l EXCEPT ![e] = to]
       /\ HeadOp(e) = "Close" <=> to \in {"notifyClose", "closed"}
  /\ UNCHANGED <<l2r, closeSent, dataVars, linkVars>>

\* The connection or the task that drives it fails.
LinkStep ==
  /\ link' # "up"
  /\ link = "down" => link' = "down"
  /\ cut \subseteq cut'
  /\ UNCHANGED <<l2r, r2l, pending, wireVars, dataVars>>

\* Every step of a writer is of one of these kinds.
LEMMA WriterKinds ==
  ASSUME TypeOK, NEW e \in Endpoints, L2RTask(e)
  PROVE  \/ Quiet(e) \/ ReadLocal(e) \/ WritePing(e) \/ Write(e)
         \/ DrainReply(e) \/ Finish(e)
<1> USE DEF wireVars, dataVars, taskVars, linkVars
<1>1. CASE L2RStart(e) \/ SelectNotified(e) \/ SelectPoll(e) \/ SelectPark(e)
  BY <1>1 DEF L2RStart, SelectNotified, SelectPoll, SelectPark, Quiet
<1>2. CASE LocalEof(e) \/ ShouldClose(e) \/ DrainEnd(e)
  BY <1>2 DEF LocalEof, ShouldClose, DrainEnd, Quiet
<1>3. CASE PingTick(e)
  BY <1>3, ZenonT(40) DEF PingTick, Quiet
<1>4. CASE DrainPong(e)
  <2>1. l2r' = [l2r EXCEPT ![e] = "drain"]
    BY <1>4 DEF DrainPong, TypeOK
  <2> QED
    BY <1>4, <2>1, ZenonT(40) DEF DrainPong, Quiet
<1>5. CASE Close(e)
  <2>1. WriteOk(e, Control("Close")) => ~Lost(e) /\ Put(e, Control("Close"))
    BY DEF WriteOk
  <2>2. WriteErr(e, Control("Close")) =>
          (Lost(e) \/ Gone(Peer(e))) /\ UNCHANGED wireVars
    BY DEF WriteErr, Control
  <2> QED
    BY <1>5, <2>1, <2>2 DEF Close, Finish
<1>6. CASE EndStream(e)
  BY <1>6 DEF EndStream, Finish
<1> QED
  BY <1>1, <1>2, <1>3, <1>4, <1>5, <1>6 DEF L2RTask

\* Every step of the tunnel is of one of these kinds.
LEMMA StepKinds ==
  ASSUME TypeOK, [Next]_vars
  PROVE  \/ UNCHANGED <<l2r, r2l, pending, wireVars, dataVars, linkVars>>
         \/ LinkStep
         \/ \E e \in Endpoints :
              \/ Quiet(e) \/ ReadLocal(e) \/ WritePing(e) \/ Write(e)
              \/ DrainReply(e) \/ Finish(e)
              \/ Look(e) \/ Take(e) \/ Deliver(e)
<1> USE DEF wireVars, dataVars, taskVars, linkVars
<1>1. CASE UNCHANGED vars
  BY <1>1 DEF vars
<1>2. CASE LinkStall \/ LinkFail \/ \E e \in Endpoints : CnxEnd(e)
  BY <1>2 DEF LinkStall, LinkFail, CnxEnd, LinkStep, TypeOK
<1>3. ASSUME NEW e \in Endpoints, L2RTask(e)
      PROVE  \/ Quiet(e) \/ ReadLocal(e) \/ WritePing(e) \/ Write(e)
             \/ DrainReply(e) \/ Finish(e)
  BY <1>3, WriterKinds
<1>4. ASSUME NEW e \in Endpoints, R2LStep(e) \/ LocalWrite(e)
      PROVE  Look(e) \/ Take(e) \/ Deliver(e)
  <2>1. CASE ReadBinary(e)
    BY <2>1 DEF ReadBinary, FrameReady, Look, R2LDone
  <2>2. CASE DeliverFail(e)
    BY <2>2 DEF DeliverFail, Look, R2LDone
  <2>3. CASE NotifyWaiters(e)
    BY <2>3, ZenonT(40) DEF NotifyWaiters, Look, R2LDone
  <2>4. CASE ReadErr(e)
    BY <2>4 DEF ReadErr, Look, R2LDone
  <2>5. CASE CopyPending(e)
    BY <2>5 DEF CopyPending, Look, R2LDone
  <2>6. CASE CloseRx(e)
    BY <2>6, ZenonT(40) DEF CloseRx, Look, R2LDone
  <2>7. CASE ReadPingPong(e)
    BY <2>7 DEF ReadPingPong, FrameReady, Take
  <2>8. CASE ReadClose(e)
    BY <2>8 DEF ReadClose, FrameReady, Take
  <2>9. CASE ReadEndStream(e)
    BY <2>9 DEF ReadEndStream, FrameReady, Take
  <2> QED
    BY <1>4, <2>1, <2>2, <2>3, <2>4, <2>5, <2>6, <2>7, <2>8, <2>9
    DEF R2LStep, LocalWrite
<1> QED
  BY <1>1, <1>2, <1>3, <1>4 DEF Next, Terminated

-----------------------------------------------------------------------------
(* Close frames *)

\* A Close that is under way was sent, and whoever sent one has ended or
\* only echoed the Close of a peer that has ended.
CloseInv ==
  \A e \in Endpoints :
    /\ HasClose(wire[e]) => closeSent[Peer(e)]
    /\ HasClose(pending[e]) => closeSent[Peer(e)]
    /\ closeSent[e] => l2r[e] = "done" \/ l2r[Peer(e)] = "done"

\* A step that sends no Close.
LEMMA CloseFrame ==
  ASSUME CloseInv,
         \A g \in Endpoints :
           /\ closeSent'[g] <=> closeSent[g]
           /\ l2r[g] = "done" => l2r'[g] = "done"
           /\ HasClose(wire'[g]) => HasClose(wire[g])
           /\ HasClose(pending'[g]) => HasClose(pending[g]) \/ HasClose(wire[g])
  PROVE  CloseInv'
<1> SUFFICES ASSUME NEW g \in Endpoints
             PROVE  /\ HasClose(wire'[g]) => closeSent'[Peer(g)]
                    /\ HasClose(pending'[g]) => closeSent'[Peer(g)]
                    /\ closeSent'[g] => l2r'[g] = "done" \/ l2r'[Peer(g)] = "done"
  BY DEF CloseInv
<1>1. Peer(g) \in Endpoints
  BY PeerFacts
<1>2. /\ HasClose(wire[g]) => closeSent[Peer(g)]
      /\ HasClose(pending[g]) => closeSent[Peer(g)]
      /\ closeSent[g] => l2r[g] = "done" \/ l2r[Peer(g)] = "done"
  BY DEF CloseInv
<1> QED
  BY <1>1, <1>2

\* What a write adds to the wires and to closeSent.
LEMMA PutClose ==
  ASSUME TypeOK, NEW e \in Endpoints, NEW frame \in Frames, Put(e, frame)
  PROVE  /\ \A g \in Endpoints : closeSent'[g] <=>
               (closeSent[g] \/ (g = e /\ frame.op = "Close"))
         /\ \A g \in Endpoints : HasClose(wire'[g]) <=>
               (HasClose(wire[g]) \/ (g = Peer(e) /\ frame.op = "Close"))
<1>1. \A g \in Endpoints : closeSent'[g] <=>
               (closeSent[g] \/ (g = e /\ frame.op = "Close"))
  BY ZenonT(40) DEF Put, TypeOK
<1>2. ASSUME NEW g \in Endpoints
      PROVE  HasClose(wire'[g]) <=>
               (HasClose(wire[g]) \/ (g = Peer(e) /\ frame.op = "Close"))
  <2>1. CASE g = Peer(e)
    <3>1. wire'[g] = Append(wire[g], frame) /\ wire[g] \in Seq(Frames)
      BY <2>1 DEF Put, TypeOK
    <3> QED
      BY <2>1, <3>1, CloseAppend
  <2>2. CASE g # Peer(e)
    <3>1. wire'[g] = wire[g]
      BY <2>2 DEF Put, TypeOK
    <3> QED
      BY <2>2, <3>1
  <2> QED
    BY <2>1, <2>2
<1> QED
  BY <1>1, <1>2

\* A frame that is read leaves the wire of its reader only.
LEMMA TailClose ==
  ASSUME TypeOK, NEW e \in Endpoints, wire[e] # << >>,
         wire' = [wire EXCEPT ![e] = Tail(wire[e])]
  PROVE  /\ \A g \in Endpoints : HasClose(wire'[g]) => HasClose(wire[g])
         /\ \A g \in Endpoints : HasClose(wire[g]) /\ (g = e => HeadOp(e) # "Close")
                                    => HasClose(wire'[g])
         /\ \A g \in Endpoints : CloseIsLast(wire[g]) => CloseIsLast(wire'[g])
         /\ HeadOp(e) = "Close" => HasClose(wire[e])
<1>1. wire'[e] = Tail(wire[e]) /\ wire[e] \in Seq(Frames)
  BY DEF TypeOK
<1>2. \A g \in Endpoints : g # e => wire'[g] = wire[g]
  BY DEF TypeOK
<1>3. /\ HasClose(wire'[e]) => HasClose(wire[e])
      /\ HasClose(wire[e]) /\ HeadOp(e) # "Close" => HasClose(wire'[e])
      /\ HeadOp(e) = "Close" => HasClose(wire[e])
      /\ CloseIsLast(wire[e]) => CloseIsLast(wire'[e])
  BY <1>1, CloseTail DEF HeadOp
<1> QED
  BY <1>2, <1>3, ZenonT(40)

\* The writer takes an operation from its channel.
LEMMA PendingTailClose ==
  ASSUME TypeOK, NEW e \in Endpoints, pending[e] # << >>,
         pending' = [pending EXCEPT ![e] = Tail(pending[e])]
  PROVE  /\ \A g \in Endpoints : HasClose(pending'[g]) => HasClose(pending[g])
         /\ Head(pending[e]).op = "Close" => HasClose(pending[e])
<1>1. pending'[e] = Tail(pending[e]) /\ pending[e] \in Seq(ControlFrames)
  BY DEF TypeOK
<1>2. \A g \in Endpoints : g # e => pending'[g] = pending[g]
  BY DEF TypeOK
<1>3. /\ HasClose(pending'[e]) => HasClose(pending[e])
      /\ Head(pending[e]).op = "Close" => HasClose(pending[e])
  BY <1>1, CloseTail
<1> QED
  BY <1>2, <1>3, ZenonT(40)

\* The reader puts a control frame into the channel.
LEMMA PendingAppendClose ==
  ASSUME TypeOK, NEW e \in Endpoints, NEW frame \in ControlFrames,
         pending' = [pending EXCEPT ![e] = Append(pending[e], frame)]
  PROVE  \A g \in Endpoints : HasClose(pending'[g]) =>
           HasClose(pending[g]) \/ (g = e /\ frame.op = "Close")
<1>1. pending'[e] = Append(pending[e], frame) /\ pending[e] \in Seq(ControlFrames)
  BY DEF TypeOK
<1>2. \A g \in Endpoints : g # e => pending'[g] = pending[g]
  BY DEF TypeOK
<1>3. HasClose(pending'[e]) => HasClose(pending[e]) \/ frame.op = "Close"
  BY <1>1, CloseAppend
<1> QED
  BY <1>2, <1>3, ZenonT(40)

\* Every step keeps CloseInv.
LEMMA CloseStep == TypeOK /\ ReaderInv /\ CloseInv /\ [Next]_vars => CloseInv'
<1> SUFFICES ASSUME TypeOK, ReaderInv, CloseInv, [Next]_vars
             PROVE  CloseInv'
  OBVIOUS
<1> USE DEF wireVars, dataVars, linkVars
<1>1. CASE UNCHANGED <<l2r, r2l, pending, wireVars, dataVars, linkVars>> \/ LinkStep
  <2>1. UNCHANGED <<l2r, wireVars, pending>>
    BY <1>1 DEF LinkStep
  <2> QED
    BY <2>1, CloseFrame
<1>2. ASSUME NEW e \in Endpoints, Quiet(e) \/ ReadLocal(e)
      PROVE  CloseInv'
  <2>1. /\ UNCHANGED wireVars
        /\ pending' = pending \/ (pending[e] # << >>
                                   /\ pending' = [pending EXCEPT ![e] = Tail(pending[e])])
    BY <1>2 DEF Quiet, ReadLocal
  <2>2. \A g \in Endpoints : l2r[g] = "done" => l2r'[g] = "done"
    BY <1>2 DEF Quiet, ReadLocal, TypeOK
  <2>3. \A g \in Endpoints : HasClose(pending'[g]) => HasClose(pending[g])
    BY <2>1, PendingTailClose
  <2> QED
    BY <2>1, <2>2, <2>3, CloseFrame
<1>3. ASSUME NEW e \in Endpoints, WritePing(e) \/ Write(e)
      PROVE  CloseInv'
  <2>1. PICK frame \in Frames :
          frame.op # "Close" /\ (Put(e, frame) \/ UNCHANGED wireVars)
    <3>1. Control("Ping") \in Frames /\ Control("Ping").op # "Close"
      BY FrameTypes DEF ControlOps
    <3>2. Binary(buf[e]) \in Frames /\ Binary(buf[e]).op # "Close"
      BY DEF TypeOK, Binary, Frames
    <3>3. CASE WritePing(e)
      BY <3>1, <3>3, WriteIsPut DEF WritePing
    <3>4. CASE Write(e)
      BY <3>2, <3>4, WriteIsPut DEF Write
    <3> QED
      BY <1>3, <3>3, <3>4
  <2>2. /\ pending' = pending
        /\ \A g \in Endpoints : l2r[g] = "done" => l2r'[g] = "done"
    BY <1>3 DEF WritePing, Write, TypeOK
  <2>3. \A g \in Endpoints : /\ closeSent'[g] <=> closeSent[g]
                             /\ HasClose(wire'[g]) => HasClose(wire[g])
    <3>1. CASE Put(e, frame)
      BY <2>1, <3>1, PutClose DEF TypeOK
    <3> QED
      BY <2>1, <3>1
  <2> QED
    BY <2>2, <2>3, CloseFrame
<1>4. ASSUME NEW e \in Endpoints, DrainReply(e)
      PROVE  CloseInv'
  <2>1. /\ l2r[e] = "drain" /\ pending[e] # << >>
        /\ pending' = [pending EXCEPT ![e] = Tail(pending[e])]
        /\ \A g \in Endpoints : l2r[g] = "done" => l2r'[g] = "done"
    BY <1>4 DEF DrainReply, TypeOK
  <2>2. PICK reply \in Frames :
          /\ reply.op = "Close" => Head(pending[e]).op = "Close"
          /\ Put(e, reply) \/ UNCHANGED wireVars
    <3> DEFINE r == Control(IF Head(pending[e]).op = "Ping" THEN "Pong" ELSE "Close")
    <3>1. r \in Frames /\ (r.op = "Close" => Head(pending[e]).op # "Ping")
      BY FrameTypes DEF ControlOps
    <3>2. Head(pending[e]).op \in ControlOps /\ Head(pending[e]).op # "Pong"
      <4>1. Head(pending[e]) \in ControlFrames
        BY <2>1 DEF TypeOK
      <4> QED
        BY <4>1, <1>4 DEF DrainReply, ControlFrames
    <3>3. Put(e, r) \/ UNCHANGED wireVars
      BY <1>4, WriteIsPut DEF DrainReply
    <3> QED
      BY <3>1, <3>2, <3>3 DEF ControlOps
  <2>3. \A g \in Endpoints : HasClose(pending'[g]) => HasClose(pending[g])
    BY <2>1, PendingTailClose, ZenonT(40)
  <2>4. CASE reply.op # "Close" \/ UNCHANGED wireVars
    <3>1. \A g \in Endpoints : /\ closeSent'[g] <=> closeSent[g]
                               /\ HasClose(wire'[g]) => HasClose(wire[g])
      <4>1. CASE Put(e, reply) /\ reply.op # "Close"
        BY <4>1, PutClose DEF TypeOK
      <4> QED
        BY <2>2, <2>4, <4>1
    <3> QED
      BY <2>1, <2>3, <3>1, CloseFrame
  <2>5. CASE reply.op = "Close" /\ Put(e, reply)
    <3>1. closeSent[Peer(e)] /\ Peer(e) \in Endpoints /\ Peer(Peer(e)) = e
      BY <2>1, <2>2, <2>5, PendingTailClose, PeerFacts, ZenonT(40) DEF CloseInv
    <3>2. l2r[Peer(e)] = "done"
      BY <2>1, <3>1 DEF CloseInv
    <3>3. \A g \in Endpoints :
            /\ closeSent'[g] <=> closeSent[g] \/ g = e
            /\ HasClose(wire'[g]) => HasClose(wire[g]) \/ g = Peer(e)
      BY <2>5, PutClose
    <3> SUFFICES ASSUME NEW g \in Endpoints
                 PROVE  /\ HasClose(wire'[g]) => closeSent'[Peer(g)]
                        /\ HasClose(pending'[g]) => closeSent'[Peer(g)]
                        /\ closeSent'[g] => l2r'[g] = "done" \/ l2r'[Peer(g)] = "done"
      BY DEF CloseInv
    <3>4. /\ HasClose(wire[g]) => closeSent[Peer(g)]
          /\ HasClose(pending[g]) => closeSent[Peer(g)]
          /\ closeSent[g] => l2r[g] = "done" \/ l2r[Peer(g)] = "done"
          /\ Peer(g) \in Endpoints
      BY PeerFacts DEF CloseInv
    <3>5. l2r'[Peer(e)] = "done"
      BY <2>1, <3>1, <3>2
    <3>6. HasClose(wire'[g]) => closeSent'[Peer(g)]
      BY <3>1, <3>3, <3>4
    <3>7. HasClose(pending'[g]) => closeSent'[Peer(g)]
      BY <2>3, <3>3, <3>4, ZenonT(40)
    <3>8. closeSent'[g] => l2r'[g] = "done" \/ l2r'[Peer(g)] = "done"
      BY <2>1, <3>3, <3>4, <3>5, ZenonT(40)
    <3> QED
      BY <3>6, <3>7, <3>8
  <2> QED
    BY <2>2, <2>4, <2>5
<1>5. ASSUME NEW e \in Endpoints, Finish(e)
      PROVE  CloseInv'
  <2>1. /\ l2r'[e] = "done" /\ pending' = pending
        /\ \A g \in Endpoints : l2r[g] = "done" => l2r'[g] = "done"
        /\ Put(e, Control("Close")) \/ UNCHANGED wireVars
    BY <1>5 DEF Finish, TypeOK
  <2>2. CASE UNCHANGED wireVars
    BY <2>1, <2>2, CloseFrame
  <2>3. CASE Put(e, Control("Close"))
    <3>1. \A g \in Endpoints :
            /\ closeSent'[g] <=> closeSent[g] \/ g = e
            /\ HasClose(wire'[g]) => HasClose(wire[g]) \/ g = Peer(e)
      BY <2>3, PutClose, FrameTypes DEF ControlOps
    <3> SUFFICES ASSUME NEW g \in Endpoints
                 PROVE  /\ HasClose(wire'[g]) => closeSent'[Peer(g)]
                        /\ HasClose(pending'[g]) => closeSent'[Peer(g)]
                        /\ closeSent'[g] => l2r'[g] = "done" \/ l2r'[Peer(g)] = "done"
      BY DEF CloseInv
    <3>2. /\ HasClose(wire[g]) => closeSent[Peer(g)]
          /\ HasClose(pending[g]) => closeSent[Peer(g)]
          /\ closeSent[g] => l2r[g] = "done" \/ l2r[Peer(g)] = "done"
          /\ Peer(g) \in Endpoints /\ Peer(Peer(e)) = e
      BY PeerFacts DEF CloseInv
    <3> QED
      BY <2>1, <3>1, <3>2
  <2> QED
    BY <2>1, <2>2, <2>3
<1>6. ASSUME NEW e \in Endpoints, Look(e)
      PROVE  CloseInv'
  BY <1>6, CloseFrame DEF Look
<1>7. ASSUME NEW e \in Endpoints, Take(e)
      PROVE  CloseInv'
  <2>1. /\ UNCHANGED <<l2r, closeSent>>
        /\ wire[e] # << >> /\ HeadOp(e) # "Binary"
        /\ wire' = [wire EXCEPT ![e] = Tail(wire[e])]
        /\ \/ pending' = pending
           \/ pending' = [pending EXCEPT ![e] = Append(pending[e], Head(wire[e]))]
    BY <1>7 DEF Take
  <2>2. /\ \A g \in Endpoints : HasClose(wire'[g]) => HasClose(wire[g])
        /\ HeadOp(e) = "Close" => HasClose(wire[e])
    BY <2>1, TailClose, ZenonT(40)
  <2>3. Head(wire[e]) \in ControlFrames
    BY <2>1, HeadTypes DEF TypeOK
  <2>4. \A g \in Endpoints : HasClose(pending'[g]) =>
          HasClose(pending[g]) \/ (g = e /\ HeadOp(e) = "Close")
    BY <2>1, <2>3, PendingAppendClose DEF HeadOp
  <2> QED
    BY <2>1, <2>2, <2>4, CloseFrame
<1>8. ASSUME NEW e \in Endpoints, Deliver(e)
      PROVE  CloseInv'
  <2>1. /\ UNCHANGED <<l2r, closeSent, pending>> /\ wire[e] # << >>
        /\ wire' = [wire EXCEPT ![e] = Tail(wire[e])]
    BY <1>8 DEF Deliver, ReaderInv
  <2> QED
    BY <2>1, TailClose, CloseFrame, ZenonT(40)
<1> QED
  BY <1>1, <1>2, <1>3, <1>4, <1>5, <1>6, <1>7, <1>8, StepKinds

-----------------------------------------------------------------------------
(* The end of a stream *)

\* While a side writes, the Close on its wire comes after everything else.
\* And the stream of a writer that closed on a live connection has a Close
\* that its reader meets, unless the reader has ended already.
EndInv ==
  /\ cut # {} => link # "up"
  /\ \A e \in Endpoints :
       /\ ~L2RDone(e) => CloseIsLast(wire[e])
       /\ l2r[Peer(e)] = "done" /\ link = "up" =>
            R2LDone(e) \/ r2l[e] = "notifyClose" \/ HasClose(wire[e])

\* Steps that end no writer and start no connection.
LEMMA EndFrame ==
  ASSUME EndInv,
         link' = "up" => link = "up" /\ cut' = cut,
         \A g \in Endpoints :
           /\ L2RDone(g) => L2RDone(g)'
           /\ l2r'[g] = "done" => l2r[g] = "done"
           /\ R2LDone(g) \/ r2l[g] = "notifyClose" =>
                R2LDone(g)' \/ r2l'[g] = "notifyClose"
           /\ HasClose(wire[g]) =>
                HasClose(wire'[g]) \/ R2LDone(g)' \/ r2l'[g] = "notifyClose"
           /\ ~L2RDone(g) /\ CloseIsLast(wire[g]) => CloseIsLast(wire'[g])
  PROVE  EndInv'
<1>1. (cut # {} => link # "up")'
  BY DEF EndInv
<1>2. ASSUME NEW g \in Endpoints
      PROVE  /\ ~L2RDone(g)' => CloseIsLast(wire'[g])
             /\ l2r'[Peer(g)] = "done" /\ link' = "up" =>
                  R2LDone(g)' \/ r2l'[g] = "notifyClose" \/ HasClose(wire'[g])
  <2>1. /\ ~L2RDone(g) => CloseIsLast(wire[g])
        /\ l2r[Peer(g)] = "done" /\ link = "up" =>
             R2LDone(g) \/ r2l[g] = "notifyClose" \/ HasClose(wire[g])
        /\ Peer(g) \in Endpoints
    BY PeerFacts DEF EndInv
  <2> QED
    BY <2>1, ZenonT(40)
<1> QED
  BY <1>1, <1>2 DEF EndInv

\* Before its Close a writer has sent none to a reader whose side writes.
LEMMA PutLast ==
  ASSUME TypeOK, CloseInv, NEW e \in Endpoints, NEW frame \in Frames,
         Put(e, frame), l2r[e] # "done"
  PROVE  \A g \in Endpoints :
           /\ HasClose(wire[g]) => HasClose(wire'[g])
           /\ ~L2RDone(g) /\ CloseIsLast(wire[g]) => CloseIsLast(wire'[g])
<1> TAKE g \in Endpoints
<1>1. HasClose(wire[g]) => HasClose(wire'[g])
  BY PutClose
<1>2. ASSUME ~L2RDone(g), CloseIsLast(wire[g])
      PROVE  CloseIsLast(wire'[g])
  <2>1. CASE g = Peer(e)
    <3>1. Peer(g) = e /\ l2r[g] # "done"
      BY <2>1, <1>2, PeerFacts DEF L2RDone
    <3>2. ~HasClose(wire[g])
      BY <2>1, <3>1 DEF CloseInv
    <3>3. wire'[g] = Append(wire[g], frame) /\ wire[g] \in Seq(Frames)
      BY <2>1 DEF Put, TypeOK
    <3> QED
      BY <3>2, <3>3, CloseAppend
  <2>2. CASE g # Peer(e)
    <3>1. wire'[g] = wire[g]
      BY <2>2 DEF Put, TypeOK
    <3> QED
      BY <1>2, <3>1
  <2> QED
    BY <2>1, <2>2
<1> QED
  BY <1>1, <1>2

\* Every step keeps EndInv.
LEMMA EndStep == TypeOK /\ ReaderInv /\ CloseInv /\ EndInv /\ [Next]_vars => EndInv'
<1> SUFFICES ASSUME TypeOK, ReaderInv, CloseInv, EndInv, [Next]_vars
             PROVE  EndInv'
  OBVIOUS
<1> USE DEF wireVars, dataVars, linkVars
<1>1. CASE UNCHANGED <<l2r, r2l, pending, wireVars, dataVars, linkVars>> \/ LinkStep
  <2>1. UNCHANGED <<l2r, r2l, wireVars>> /\ (link' = "up" => link = "up" /\ cut' = cut)
    BY <1>1 DEF LinkStep
  <2>2. \A g \in Endpoints : (L2RDone(g)' <=> L2RDone(g)) /\ (R2LDone(g)' <=> R2LDone(g))
    BY <2>1 DEF L2RDone, R2LDone
  <2> QED
    BY <2>1, <2>2, EndFrame
<1>2. ASSUME NEW e \in Endpoints,
             Quiet(e) \/ ReadLocal(e) \/ WritePing(e) \/ Write(e) \/ DrainReply(e)
      PROVE  EndInv'
  <2>1. UNCHANGED <<r2l, link, cut>>
    BY <1>2 DEF Quiet, ReadLocal, WritePing, Write, DrainReply
  <2>2. /\ l2r[e] \notin {"done", "aborted"}
        /\ \E to \in {"idle", "polled", "drain", "close", "ping", "aborted", "write"} :
             l2r' = [l2r EXCEPT ![e] = to]
    <3>1. CASE DrainReply(e)
      <4>1. l2r[e] = "drain" /\ (l2r' = l2r \/ l2r' = [l2r EXCEPT ![e] = "close"])
        BY <3>1 DEF DrainReply
      <4>2. l2r' = l2r => l2r' = [l2r EXCEPT ![e] = "drain"]
        BY <4>1 DEF TypeOK
      <4> QED
        BY <4>1, <4>2
    <3>2. CASE WritePing(e) \/ Write(e)
      BY <3>2 DEF WritePing, Write
    <3>3. CASE Quiet(e) \/ ReadLocal(e)
      BY <3>3 DEF Quiet, ReadLocal
    <3> QED
      BY <1>2, <3>1, <3>2, <3>3
  <2>3. \A g \in Endpoints : /\ L2RDone(g) => L2RDone(g)'
                             /\ l2r'[g] = "done" => l2r[g] = "done"
                             /\ R2LDone(g)' <=> R2LDone(g)
    BY <2>1, <2>2 DEF L2RDone, R2LDone, TypeOK
  <2>4. UNCHANGED wireVars \/ \E frame \in Frames : Put(e, frame)
    <3>1. \A op \in ControlOps : Control(op) \in Frames
      BY FrameTypes
    <3>2. Binary(buf[e]) \in Frames
      BY FrameTypes DEF TypeOK
    <3>3. CASE WritePing(e)
      BY <3>1, <3>3, WriteIsPut DEF WritePing, ControlOps
    <3>4. CASE Write(e)
      BY <3>2, <3>4, WriteIsPut DEF Write
    <3>5. CASE DrainReply(e)
      <4> DEFINE r == Control(IF Head(pending[e]).op = "Ping" THEN "Pong" ELSE "Close")
      <4>1. r \in Frames
        BY <3>1 DEF ControlOps
      <4>2. Put(e, r) \/ UNCHANGED wireVars
        BY <3>5, WriteIsPut DEF DrainReply
      <4> QED
        BY <4>1, <4>2
    <3>6. CASE Quiet(e) \/ ReadLocal(e)
      BY <3>6 DEF Quiet, ReadLocal
    <3> QED
      BY <1>2, <3>3, <3>4, <3>5, <3>6
  <2>5. \A g \in Endpoints :
           /\ HasClose(wire[g]) => HasClose(wire'[g])
           /\ ~L2RDone(g) /\ CloseIsLast(wire[g]) => CloseIsLast(wire'[g])
    BY <2>2, <2>4, PutLast
  <2> QED
    BY <2>1, <2>3, <2>5, EndFrame

<1>3. ASSUME NEW e \in Endpoints, Finish(e)
      PROVE  EndInv'
  <2>1. /\ l2r[e] = "close" /\ UNCHANGED <<r2l, link, cut>>
        /\ l2r'[e] = "done" /\ \A g \in Endpoints : g # e => l2r'[g] = l2r[g]
    BY <1>3 DEF Finish, TypeOK
  <2>2. \A g \in Endpoints : /\ L2RDone(g) => L2RDone(g)'
                             /\ R2LDone(g)' <=> R2LDone(g)
    BY <2>1 DEF L2RDone, R2LDone
  <2>3. Control("Close") \in Frames /\ Control("Close").op = "Close"
    BY FrameTypes DEF ControlOps
  <2>4. \A g \in Endpoints :
           /\ HasClose(wire[g]) => HasClose(wire'[g])
           /\ ~L2RDone(g) /\ CloseIsLast(wire[g]) => CloseIsLast(wire'[g])
    BY <1>3, <2>1, <2>3, PutLast DEF Finish
  <2>5. HasClose(wire'[Peer(e)]) \/ link # "up" \/ R2LDone(Peer(e))
    <3>1. CASE Put(e, Control("Close"))
      BY <2>3, <3>1, PutClose, PeerFacts
    <3>2. CASE Lost(e)
      BY <3>2 DEF Lost, EndInv
    <3>3. CASE Gone(Peer(e))
      BY <3>3 DEF Gone
    <3> QED
      BY <1>3, <3>1, <3>2, <3>3 DEF Finish
  <2>6. ASSUME NEW g \in Endpoints
        PROVE  /\ ~L2RDone(g)' => CloseIsLast(wire'[g])
               /\ l2r'[Peer(g)] = "done" /\ link' = "up" =>
                    R2LDone(g)' \/ r2l'[g] = "notifyClose" \/ HasClose(wire'[g])
    <3>1. /\ ~L2RDone(g) => CloseIsLast(wire[g])
          /\ l2r[Peer(g)] = "done" /\ link = "up" =>
               R2LDone(g) \/ r2l[g] = "notifyClose" \/ HasClose(wire[g])
          /\ Peer(g) \in Endpoints /\ Peer(Peer(g)) = g
      BY PeerFacts DEF EndInv
    <3>2. ~L2RDone(g)' => CloseIsLast(wire'[g])
      BY <2>2, <2>4, <3>1, ZenonT(40)
    <3>3. CASE Peer(g) = e
      BY <2>1, <2>2, <2>5, <3>1, <3>2, <3>3
    <3>4. CASE Peer(g) # e
      BY <2>1, <2>2, <2>4, <3>1, <3>2, <3>4
    <3> QED
      BY <3>3, <3>4
  <2> QED
    BY <2>1, <2>6 DEF EndInv
<1>4. ASSUME NEW e \in Endpoints, Look(e)
      PROVE  EndInv'
  <2>1. UNCHANGED <<l2r, wire, link, cut>>
    BY <1>4 DEF Look
  <2>2. \A g \in Endpoints :
          /\ L2RDone(g)' <=> L2RDone(g)
          /\ R2LDone(g) \/ r2l[g] = "notifyClose" =>
               R2LDone(g)' \/ r2l'[g] = "notifyClose"
    BY <1>4, <2>1 DEF Look, L2RDone, R2LDone, TypeOK
  <2> QED
    BY <2>1, <2>2, EndFrame
<1>5. ASSUME NEW e \in Endpoints, Take(e) \/ Deliver(e)
      PROVE  EndInv'
  <2>1. /\ UNCHANGED <<l2r, link, cut>> /\ wire[e] # << >>
        /\ wire' = [wire EXCEPT ![e] = Tail(wire[e])]
        /\ r2l[e] \in {"read", "deliver"}
        /\ \A g \in Endpoints : g # e => r2l'[g] = r2l[g]
    BY <1>5 DEF Take, Deliver, ReaderInv, TypeOK
  <2>2. \A g \in Endpoints :
          /\ L2RDone(g)' <=> L2RDone(g)
          /\ R2LDone(g) \/ r2l[g] = "notifyClose" =>
               R2LDone(g)' \/ r2l'[g] = "notifyClose"
    BY <2>1 DEF L2RDone, R2LDone
  <2>3. HeadOp(e) = "Close" => R2LDone(e)' \/ r2l'[e] = "notifyClose"
    <3>1. CASE Take(e)
      BY <3>1 DEF Take, R2LDone, TypeOK
    <3>2. CASE Deliver(e)
      BY <3>2 DEF Deliver, ReaderInv
    <3> QED
      BY <1>5, <3>1, <3>2
  <2>4. \A g \in Endpoints :
          /\ CloseIsLast(wire[g]) => CloseIsLast(wire'[g])
          /\ HasClose(wire[g]) =>
               HasClose(wire'[g]) \/ R2LDone(g)' \/ r2l'[g] = "notifyClose"
    BY <2>1, <2>3, TailClose, ZenonT(40)
  <2> QED
    BY <2>1, <2>2, <2>4, EndFrame
<1> QED
  BY <1>1, <1>2, <1>3, <1>4, <1>5, StepKinds

-----------------------------------------------------------------------------
(* The data *)

\* The buffer holds the chunk read last or nothing.  A chunk left in it by a
\* writer on its way out is one its peer could no longer be told the end of:
\* the peer's writer has ended, or the stream ended without a Close.
BufInv ==
  \A e \in Endpoints :
    /\ buf[e] = << >> \/ buf[e] = << produced[e] >>
    /\ l2r[e] = "write" => buf[e] # << >>
    /\ buf[e] # << >> => l2r[e] \in {"write", "close", "done"}
    /\ buf[e] # << >> /\ l2r[e] \in {"close", "done"} =>
         \/ L2RDone(Peer(e))
         \/ Lost(e) /\ (l2r[e] = "done" => ~closeSent[e])

\* Steps that leave the buffers and the ends of the writers alone.
LEMMA BufFrame ==
  ASSUME BufInv, UNCHANGED <<buf, produced>>,
         \A g \in Endpoints :
           /\ Lost(g) => Lost(g)'
           /\ L2RDone(g) => L2RDone(g)'
           /\ l2r'[g] = "done" => l2r[g] = "done" /\ (closeSent'[g] => closeSent[g])
           /\ l2r'[g] = l2r[g] \/ l2r[g] \notin {"write", "close", "done"}
           /\ l2r'[g] = "write" => l2r[g] = "write"
  PROVE  BufInv'
<1> SUFFICES ASSUME NEW g \in Endpoints
             PROVE  /\ buf'[g] = << >> \/ buf'[g] = << produced'[g] >>
                    /\ l2r'[g] = "write" => buf'[g] # << >>
                    /\ buf'[g] # << >> => l2r'[g] \in {"write", "close", "done"}
                    /\ buf'[g] # << >> /\ l2r'[g] \in {"close", "done"} =>
                         \/ L2RDone(Peer(g))'
                         \/ Lost(g)' /\ (l2r'[g] = "done" => ~closeSent'[g])
  BY DEF BufInv
<1>1. /\ buf[g] = << >> \/ buf[g] = << produced[g] >>
      /\ l2r[g] = "write" => buf[g] # << >>
      /\ buf[g] # << >> => l2r[g] \in {"write", "close", "done"}
      /\ buf[g] # << >> /\ l2r[g] \in {"close", "done"} =>
           \/ L2RDone(Peer(g))
           \/ Lost(g) /\ (l2r[g] = "done" => ~closeSent[g])
  BY DEF BufInv
<1>2. /\ Lost(g) => Lost(g)'
      /\ L2RDone(Peer(g)) => L2RDone(Peer(g))'
  BY PeerFacts
<1>3. /\ l2r'[g] = "done" => l2r[g] = "done" /\ (closeSent'[g] => closeSent[g])
      /\ l2r'[g] = l2r[g] \/ l2r[g] \notin {"write", "close", "done"}
      /\ l2r'[g] = "write" => l2r[g] = "write"
  OBVIOUS
<1>4. CASE buf[g] = << >>
  BY <1>1, <1>3, <1>4
<1>5. CASE buf[g] # << >>
  <2>1. l2r'[g] = l2r[g]
    BY <1>1, <1>3, <1>5
  <2> QED
    BY <1>1, <1>2, <1>3, <1>5, <2>1
<1> QED
  BY <1>4, <1>5

\* Every step keeps BufInv.
LEMMA BufStep == TypeOK /\ CloseInv /\ BufInv /\ [Next]_vars => BufInv'
<1> SUFFICES ASSUME TypeOK, CloseInv, BufInv, [Next]_vars
             PROVE  BufInv'
  OBVIOUS
<1> USE DEF wireVars, dataVars, linkVars
<1>1. CASE UNCHANGED <<l2r, r2l, pending, wireVars, dataVars, linkVars>> \/ LinkStep
  <2>1. /\ UNCHANGED <<l2r, closeSent, buf, produced>>
        /\ link = "down" => link' = "down"
        /\ cut \subseteq cut'
    BY <1>1 DEF LinkStep
  <2>2. \A g \in Endpoints : (Lost(g) => Lost(g)') /\ (L2RDone(g) => L2RDone(g)')
    BY <2>1 DEF Lost, L2RDone
  <2> QED
    BY <2>1, <2>2, BufFrame
<1>2. ASSUME NEW e \in Endpoints, Look(e) \/ Take(e) \/ Deliver(e)
      PROVE  BufInv'
  <2>1. UNCHANGED <<l2r, closeSent, buf, produced, link, cut>>
    BY <1>2, ZenonT(40) DEF Look, Take, Deliver
  <2>2. \A g \in Endpoints : (Lost(g) => Lost(g)') /\ (L2RDone(g) => L2RDone(g)')
    BY <2>1 DEF Lost, L2RDone
  <2> QED
    BY <2>1, <2>2, BufFrame

<1>3. ASSUME NEW e \in Endpoints, Quiet(e) \/ WritePing(e) \/ DrainReply(e)
      PROVE  BufInv'
  <2>1. UNCHANGED <<buf, produced, link, cut>>
    BY <1>3 DEF Quiet, WritePing, DrainReply
  <2>2. /\ l2r[e] \in {"start", "idle", "polled", "drain", "ping"}
        /\ l2r'[e] \in {"idle", "polled", "drain", "close", "ping", "aborted"}
        /\ \A g \in Endpoints : g # e => l2r'[g] = l2r[g]
    <3>1. CASE Quiet(e)
      BY <3>1 DEF Quiet, TypeOK
    <3>2. CASE WritePing(e)
      BY <3>2 DEF WritePing, TypeOK
    <3>3. CASE DrainReply(e)
      <4>1. l2r[e] = "drain" /\ (l2r' = l2r \/ l2r' = [l2r EXCEPT ![e] = "close"])
        BY <3>3 DEF DrainReply
      <4> QED
        BY <4>1 DEF TypeOK
    <3> QED
      BY <1>3, <3>1, <3>2, <3>3
  <2>3. \A g \in Endpoints : g # e => closeSent'[g] = closeSent[g]
    <3>1. UNCHANGED wireVars \/ \E frame : Put(e, frame)
      BY <1>3, WriteIsPut DEF Quiet, WritePing, DrainReply
    <3> QED
      BY <3>1 DEF Put, TypeOK
  <2>4. \A g \in Endpoints : (Lost(g) => Lost(g)') /\ (L2RDone(g) => L2RDone(g)')
    BY <2>1, <2>2 DEF Lost, L2RDone
  <2> QED
    BY <2>1, <2>2, <2>3, <2>4, BufFrame
<1> DEFINE Good(g) ==
      /\ buf[g] = << >> \/ buf[g] = << produced[g] >>
      /\ l2r[g] = "write" => buf[g] # << >>
      /\ buf[g] # << >> => l2r[g] \in {"write", "close", "done"}
      /\ buf[g] # << >> /\ l2r[g] \in {"close", "done"} =>
           \/ L2RDone(Peer(g))
           \/ Lost(g) /\ (l2r[g] = "done" => ~closeSent[g])
<1>good. (\A g \in Endpoints : Good(g)) /\ ((\A g \in Endpoints : Good(g)') => BufInv')
  BY DEF BufInv
<1>other. ASSUME NEW e \in Endpoints, NEW g \in Endpoints, g # e,
                 buf'[g] = buf[g], produced'[g] = produced[g], l2r'[g] = l2r[g],
                 closeSent'[g] = closeSent[g], L2RDone(e) => L2RDone(e)',
                 UNCHANGED <<link, cut>>
          PROVE  Good(g)'
  <2>1. Good(g) /\ Peer(g) = e
    BY <1>good, <1>other, PeerFacts
  <2>2. Lost(g)' <=> Lost(g)
    BY <1>other DEF Lost
  <2> QED
    BY <1>other, <2>1, <2>2
<1>4. ASSUME NEW e \in Endpoints, ReadLocal(e)
      PROVE  BufInv'
  <2>1. /\ l2r[e] = "polled" /\ l2r'[e] = "write" /\ closeSent' = closeSent
        /\ produced'[e] = produced[e] + 1 /\ buf'[e] = Append(buf[e], produced[e] + 1)
        /\ UNCHANGED <<link, cut>>
        /\ \A g \in Endpoints : g # e => /\ l2r'[g] = l2r[g] /\ produced'[g] = produced[g]
                                         /\ buf'[g] = buf[g]
    BY <1>4 DEF ReadLocal, TypeOK
  <2>2. buf[e] = << >>
    BY <1>good, <2>1
  <2>3. buf'[e] = << produced'[e] >> /\ buf'[e] # << >>
    <3>1. << produced'[e] >> # << >>
      OBVIOUS
    <3> QED
      BY <2>1, <2>2, <3>1
  <2>4. Good(e)'
    BY <2>1, <2>3, ZenonT(40)
  <2>5. ~L2RDone(e)
    BY <2>1 DEF L2RDone
  <2>6. \A g \in Endpoints : g # e => Good(g)'
    BY <2>1, <2>5, <1>other
  <2> QED
    BY <1>good, <2>4, <2>6
<1>5. ASSUME NEW e \in Endpoints, Write(e)
      PROVE  BufInv'
  <2>1. /\ l2r[e] = "write" /\ l2r'[e] \in {"idle", "close"}
        /\ buf'[e] = IF l2r'[e] = "idle" THEN << >> ELSE buf[e]
        /\ UNCHANGED <<produced, link, cut>>
        /\ \A g \in Endpoints : g # e => l2r'[g] = l2r[g] /\ buf'[g] = buf[g]
    BY <1>5 DEF Write, TypeOK
  <2>2. \A g \in Endpoints : g # e => closeSent'[g] = closeSent[g]
    <3>1. UNCHANGED wireVars \/ \E frame : Put(e, frame)
      BY <1>5, WriteIsPut DEF Write
    <3> QED
      BY <3>1 DEF Put, TypeOK
  <2>3. ASSUME l2r'[e] = "close"
        PROVE  Good(e)'
    <3>1. WriteErr(e, Binary(buf[e]))
      BY <1>5, <2>3 DEF Write, TypeOK
    <3>2. Lost(e) \/ Gone(Peer(e)) \/ closeSent[e]
      BY <3>1 DEF WriteErr
    <3>3. Lost(e) \/ L2RDone(Peer(e))
      BY <2>1, <3>2, ZenonT(40) DEF Gone, L2RDone, CloseInv
    <3>4. Lost(e)' \/ L2RDone(Peer(e))'
      BY <2>1, <3>3, PeerFacts DEF Lost, L2RDone
    <3>5. Good(e)
      BY <1>good
    <3> QED
      BY <2>1, <2>3, <3>4, <3>5
  <2>4. Good(e)'
    BY <2>1, <2>3
  <2>5. ~L2RDone(e)
    BY <2>1 DEF L2RDone
  <2>6. \A g \in Endpoints : g # e => Good(g)'
    BY <2>1, <2>2, <2>5, <1>other
  <2> QED
    BY <1>good, <2>4, <2>6
<1>6. ASSUME NEW e \in Endpoints, Finish(e)
      PROVE  BufInv'
  <2>1. /\ l2r[e] = "close" /\ l2r'[e] = "done" /\ UNCHANGED <<buf, produced, link, cut>>
        /\ \A g \in Endpoints : g # e => l2r'[g] = l2r[g]
    BY <1>6 DEF Finish, TypeOK
  <2>2. \A g \in Endpoints : g # e => closeSent'[g] = closeSent[g]
    BY <1>6 DEF Finish, Put, TypeOK
  <2>3. Lost(e) => closeSent' = closeSent
    BY <1>6 DEF Finish
  <2>4. closeSent[e] => L2RDone(Peer(e))
    BY <2>1 DEF CloseInv, L2RDone
  <2>5. buf[e] # << >> => L2RDone(Peer(e)) \/ Lost(e)
    BY <1>good, <2>1
  <2>6. (Lost(e)' <=> Lost(e)) /\ (L2RDone(Peer(e))' <=> L2RDone(Peer(e)))
    BY <2>1, PeerFacts DEF Lost, L2RDone
  <2>7. buf[e] = << >> \/ buf[e] = << produced[e] >>
    BY <1>good
  <2>8. Good(e)'
    BY <2>1, <2>3, <2>4, <2>5, <2>6, <2>7
  <2>9. L2RDone(e)'
    BY <2>1 DEF L2RDone
  <2>10. \A g \in Endpoints : g # e => Good(g)'
    BY <2>1, <2>2, <2>9, <1>other
  <2> QED
    BY <1>good, <2>8, <2>10
<1> QED
  BY <1>1, <1>2, <1>3, <1>4, <1>5, <1>6, StepKinds

\* The frames of one kind among the first n.
CountTo(s, op, n) == Cardinality({i \in 1 .. n : s[i].op = op})

\* They are finitely many.
LEMMA CountToType ==
  ASSUME NEW s, NEW op, NEW n \in Nat
  PROVE  /\ IsFiniteSet({i \in 1 .. n : s[i].op = op})
         /\ CountTo(s, op, n) \in Nat
<1>1. IsFiniteSet(1 .. n)
  BY FS_Interval
<1>2. {i \in 1 .. n : s[i].op = op} \in SUBSET (1 .. n)
  OBVIOUS
<1>3. IsFiniteSet({i \in 1 .. n : s[i].op = op})
  BY <1>1, <1>2, FS_Subset
<1> QED
  BY <1>3, FS_CardinalityType DEF CountTo

\* An appended frame changes no count but the last.
LEMMA CountToAppend ==
  ASSUME NEW S, NEW s \in Seq(S), NEW f \in S, NEW op
  PROVE  /\ \A n \in 1 .. Len(s) : CountTo(Append(s, f), op, n) = CountTo(s, op, n)
         /\ CountTo(Append(s, f), op, Len(s) + 1) = Count(Append(s, f), op)
<1>1. ASSUME NEW n \in 1 .. Len(s)
      PROVE  {i \in 1 .. n : Append(s, f)[i].op = op} = {i \in 1 .. n : s[i].op = op}
  <2>1. \A i \in 1 .. n : Append(s, f)[i] = s[i]
    OBVIOUS
  <2> QED
    BY <2>1
<1>2. DOMAIN Append(s, f) = 1 .. Len(s) + 1
  OBVIOUS
<1> QED
  BY <1>1, <1>2, ZenonT(40) DEF CountTo, Count

\* Taking the head shifts the counts.
LEMMA CountToTail ==
  ASSUME NEW S, NEW s \in Seq(S), s # << >>, NEW op, NEW n \in 1 .. Len(s) - 1
  PROVE  CountTo(s, op, n + 1)
           = CountTo(Tail(s), op, n) + (IF Head(s).op = op THEN 1 ELSE 0)
<1> DEFINE t == [i \in 1 .. n + 1 |-> s[i]]
<1>1. t \in Seq(S) /\ Len(t) = n + 1 /\ t # << >> /\ DOMAIN t = 1 .. n + 1
  OBVIOUS
<1>2. Head(t) = Head(s)
  BY <1>1
<1>3. DOMAIN Tail(t) = 1 .. n /\ \A i \in 1 .. n : Tail(t)[i] = Tail(s)[i]
  BY <1>1
<1>4. Count(t, op) = Count(Tail(t), op) + (IF Head(t).op = op THEN 1 ELSE 0)
  BY <1>1, CountTail, ZenonT(40)
<1>5. {i \in DOMAIN t : t[i].op = op} = {i \in 1 .. n + 1 : s[i].op = op}
  BY <1>1
<1>6. {i \in DOMAIN Tail(t) : Tail(t)[i].op = op} = {i \in 1 .. n : Tail(s)[i].op = op}
  BY <1>3
<1>7. Count(t, op) = CountTo(s, op, n + 1) /\ Count(Tail(t), op) = CountTo(Tail(s), op, n)
  BY <1>5, <1>6, ZenonT(40) DEF Count, CountTo
<1> QED
  BY <1>2, <1>4, <1>7

\* The head is counted first.
LEMMA CountToHead ==
  ASSUME NEW S, NEW s \in Seq(S), s # << >>, NEW op, Head(s).op = op
  PROVE  CountTo(s, op, 1) = 1
<1>1. {i \in 1 .. 1 : s[i].op = op} = {1}
  BY Head(s) = s[1]
<1> QED
  BY <1>1, FS_Singleton, ZenonT(40) DEF CountTo

\* What was delivered is a beginning of what was sent; the data frames on
\* the wire carry the chunks that follow, in order; and the buffer of the
\* writer holds the rest.
DataOf(e) ==
  /\ \A i \in 1 .. Len(delivered[e]) : delivered[e][i] = i
  /\ \A i \in 1 .. Len(wire[e]) : wire[e][i].op = "Binary" =>
       wire[e][i].data = << Len(delivered[e]) + CountTo(wire[e], "Binary", i) >>
  /\ Len(delivered[e]) + Count(wire[e], "Binary") + Len(buf[Peer(e)])
       = produced[Peer(e)]
DataInv == \A e \in Endpoints : DataOf(e)

\* The numbers in DataOf.
LEMMA DataTypes ==
  ASSUME TypeOK, NEW e \in Endpoints
  PROVE  /\ Len(buf[e]) \in Nat /\ produced[e] \in Nat
         /\ Len(delivered[e]) \in Nat
         /\ wire[e] \in Seq(Frames) /\ Len(wire[e]) \in Nat
         /\ Count(wire[e], "Binary") \in Nat
<1>1. buf[e] \in Seq(Nat) /\ delivered[e] \in Seq(Nat) /\ wire[e] \in Seq(Frames)
  BY DEF TypeOK
<1>2. produced[e] \in Nat
  BY DEF TypeOK
<1>3. Count(wire[e], "Binary") \in Nat
  BY <1>1, CountType, ZenonT(40)
<1> QED
  BY <1>1, <1>2, <1>3

\* A direction whose variables a step leaves alone.
LEMMA DataFrame ==
  ASSUME NEW e \in Endpoints, DataOf(e), wire'[e] = wire[e],
         delivered'[e] = delivered[e], buf'[Peer(e)] = buf[Peer(e)],
         produced'[Peer(e)] = produced[Peer(e)]
  PROVE  DataOf(e)'
BY DEF DataOf

\* A chunk that is read goes to the buffer.
LEMMA DataRead ==
  ASSUME TypeOK, NEW e \in Endpoints, DataOf(e), wire'[e] = wire[e],
         delivered'[e] = delivered[e],
         Len(buf'[Peer(e)]) = Len(buf[Peer(e)]) + 1,
         produced'[Peer(e)] = produced[Peer(e)] + 1
  PROVE  DataOf(e)'
<1> DEFINE d == Len(delivered[e])
           c == Count(wire[e], "Binary")
           b == Len(buf[Peer(e)])
           p == produced[Peer(e)]
<1>1. d \in Nat /\ c \in Nat /\ b \in Nat /\ p \in Nat
  BY DataTypes, PeerFacts
<1>2. d + c + b = p
  BY DEF DataOf
<1>3. d + c + (b + 1) = p + 1
  <2> HIDE DEF d, c, b, p
  <2> QED
    BY <1>1, <1>2
<1>4. Len(delivered'[e]) + Count(wire'[e], "Binary") + Len(buf'[Peer(e)]) = produced'[Peer(e)]
  BY <1>3, ZenonT(40)
<1> QED
  BY <1>4 DEF DataOf

\* A frame that is written is the next of its stream.
LEMMA DataPut ==
  ASSUME TypeOK, NEW e \in Endpoints, NEW g \in Endpoints, g = Peer(e),
         DataOf(g), NEW frame \in Frames, Put(e, frame), delivered' = delivered,
         frame.op # "Binary" => UNCHANGED <<buf, produced>>,
         frame.op = "Binary" => /\ buf[e] = << produced[e] >> /\ frame.data = buf[e]
                                /\ buf'[e] = << >> /\ produced' = produced
  PROVE  DataOf(g)'
<1> DEFINE w == wire[g]
           d == Len(delivered[g])
           c == Count(wire[g], "Binary")
<1>t. /\ w \in Seq(Frames) /\ Len(w) \in Nat /\ d \in Nat /\ c \in Nat
      /\ produced[e] \in Nat /\ Len(buf[e]) \in Nat
  BY DataTypes
<1>1. wire'[g] = Append(w, frame) /\ Peer(g) = e
  BY PeerFacts DEF Put, TypeOK
<1>2. Count(Append(w, frame), "Binary") = c + (IF frame.op = "Binary" THEN 1 ELSE 0)
  BY <1>t, CountAppend
<1>3. d + c + Len(buf[e]) = produced[e]
  BY <1>1 DEF DataOf
<1>p. frame.op = "Binary" => Len(buf[e]) = 1 /\ Len(buf'[e]) = 0
  <2>1. Len(<< produced[e] >>) = 1 /\ Len(<< >>) = 0
    OBVIOUS
  <2> QED
    BY <2>1, ZenonT(40)
<1>c. /\ \A n \in 1 .. Len(w) :
           CountTo(Append(w, frame), "Binary", n) = CountTo(w, "Binary", n)
      /\ CountTo(Append(w, frame), "Binary", Len(w) + 1) = Count(Append(w, frame), "Binary")
  BY <1>t, CountToAppend
<1>a. \A x, y, z \in Nat : x + y + 1 = z => x + (y + 1) = z /\ x + (y + 1) + 0 = z
  OBVIOUS
<1>4. ASSUME frame.op = "Binary"
      PROVE  d + Count(wire'[g], "Binary") = produced[e]
  <2>1. Count(wire'[g], "Binary") = c + 1
    BY <1>1, <1>2, <1>4
  <2>2. d + c + 1 = produced[e]
    BY <1>3, <1>4, <1>p, ZenonT(40)
  <2> QED
    BY <1>t, <1>a, <2>1, <2>2
<1>5. d + Count(wire'[g], "Binary") + Len(buf'[e]) = produced'[e]
  <2>1. CASE frame.op = "Binary"
    <3>1. Count(wire'[g], "Binary") = c + 1 /\ Len(buf'[e]) = 0 /\ produced'[e] = produced[e]
      BY <1>1, <1>2, <1>p, <2>1
    <3>2. d + c + 1 = produced[e]
      BY <1>3, <1>p, <2>1, ZenonT(40)
    <3> QED
      BY <1>t, <1>a, <3>1, <3>2
  <2>2. CASE frame.op # "Binary"
    <3>1. Count(wire'[g], "Binary") = c
      BY <1>t, <1>1, <1>2, <2>2
    <3> QED
      BY <1>3, <2>2, <3>1
  <2> QED
    BY <2>1, <2>2
<1>6. ASSUME NEW i \in 1 .. Len(wire'[g]), wire'[g][i].op = "Binary"
      PROVE  wire'[g][i].data = << d + CountTo(wire'[g], "Binary", i) >>
  <2>1. CASE i \in 1 .. Len(w)
    <3>1. wire'[g][i] = w[i]
      BY <1>t, <1>1, <2>1
    <3>2. CountTo(wire'[g], "Binary", i) = CountTo(w, "Binary", i)
      BY <1>1, <1>c, <2>1, ZenonT(40)
    <3>3. w[i].data = << d + CountTo(w, "Binary", i) >>
      BY <1>6, <2>1, <3>1 DEF DataOf
    <3> QED
      BY <3>1, <3>2, <3>3
  <2>2. CASE i \notin 1 .. Len(w)
    <3>1. i = Len(w) + 1 /\ wire'[g][i] = frame
      BY <1>t, <1>1, <2>2
    <3>2. CountTo(wire'[g], "Binary", i) = Count(wire'[g], "Binary")
      BY <1>1, <1>c, <3>1
    <3>3. frame.data = << produced[e] >>
      BY <1>6, <3>1
    <3> QED
      BY <1>4, <1>6, <3>1, <3>2, <3>3
  <2> QED
    BY <2>1, <2>2
<1> QED
  BY <1>1, <1>5, <1>6 DEF DataOf

\* The data frame at the head of the wire carries the next chunk.
LEMMA HeadChunk ==
  ASSUME TypeOK, NEW e \in Endpoints, DataOf(e), wire[e] # << >>, HeadOp(e) = "Binary"
  PROVE  /\ Head(wire[e]).data = << Len(delivered[e]) + 1 >>
         /\ Len(delivered[e]) + 1 <= produced[Peer(e)]
<1> DEFINE w == wire[e]
           d == Len(delivered[e])
           c == Count(w, "Binary")
           t == Count(Tail(w), "Binary")
           b == Len(buf[Peer(e)])
           p == produced[Peer(e)]
<1>1. w \in Seq(Frames) /\ Len(w) \in Nat /\ d \in Nat /\ c \in Nat /\ b \in Nat /\ p \in Nat
  BY DataTypes, PeerFacts
<1>2. 1 \in 1 .. Len(w) /\ Head(w) = w[1] /\ Tail(w) \in Seq(Frames)
  BY <1>1
<1>3. CountTo(w, "Binary", 1) = 1
  BY <1>1, CountToHead DEF HeadOp
<1>4. Head(wire[e]).data = << d + 1 >>
  BY <1>2, <1>3 DEF DataOf, HeadOp
<1>5. t \in Nat /\ c = t + 1
  BY <1>1, <1>2, CountType, CountTail, ZenonT(40) DEF HeadOp
<1>6. d + c + b = p
  BY DEF DataOf
<1>7. d + 1 <= p
  <2> HIDE DEF d, c, t, b, p
  <2> QED
    BY <1>1, <1>5, <1>6
<1> QED
  BY <1>4, <1>7

\* The chunks 1 .. n followed by the chunk n + 1 are the chunks 1 .. n + 1.
LEMMA NextChunk ==
  ASSUME NEW s \in Seq(Nat), \A i \in 1 .. Len(s) : s[i] = i,
         NEW r, r = s \o << Len(s) + 1 >>
  PROVE  Len(r) = Len(s) + 1 /\ \A i \in 1 .. Len(s) + 1 : r[i] = i
<1> DEFINE n == Len(s) + 1
<1>1. n \in Nat /\ Len(s) \in Nat
  OBVIOUS
<1>2. << n >> \in Seq(Nat) /\ Len(<< n >>) = 1 /\ << n >>[1] = n
  <2> HIDE DEF n
  <2> QED
    BY <1>1
<1>3. Len(r) = Len(s) + 1
  BY <1>2
<1>4. ASSUME NEW i \in 1 .. Len(s) + 1
      PROVE  r[i] = i
  <2>1. CASE i <= Len(s)
    BY <1>1, <1>2, <2>1
  <2>2. CASE i = n
    <3>1. i - Len(s) = 1 /\ ~(i <= Len(s)) /\ i \in 1 .. Len(s) + 1
      BY <1>1, <2>2
    <3>2. r[i] = << n >>[1]
      BY <1>1, <1>2, <3>1
    <3> QED
      BY <1>2, <2>2, <3>2, ZenonT(40)
  <2> QED
    BY <1>1, <2>1, <2>2
<1> QED
  BY <1>3, <1>4, ZenonT(40)

\* A frame that is read is the next of its stream.
LEMMA DataTail ==
  ASSUME TypeOK, NEW e \in Endpoints, DataOf(e), wire[e] # << >>,
         wire'[e] = Tail(wire[e]), UNCHANGED <<buf, produced>>,
         delivered'[e] = IF HeadOp(e) = "Binary" THEN delivered[e] \o Head(wire[e]).data
                                                 ELSE delivered[e]
  PROVE  DataOf(e)'
<1> DEFINE w == wire[e]
           d == Len(delivered[e])
           c == Count(w, "Binary")
           t == Count(Tail(w), "Binary")
           b == Len(buf[Peer(e)])
           p == produced[Peer(e)]
           k == IF HeadOp(e) = "Binary" THEN 1 ELSE 0
<1>1. /\ w \in Seq(Frames) /\ Len(w) \in Nat /\ d \in Nat /\ c \in Nat /\ b \in Nat
      /\ p \in Nat /\ k \in Nat /\ delivered[e] \in Seq(Nat)
  <2>1. delivered[e] \in Seq(Nat) /\ k \in Nat
    BY DEF TypeOK
  <2> QED
    BY <2>1, DataTypes, PeerFacts
<1>2. /\ Len(w) # 0 /\ Tail(w) \in Seq(Frames) /\ Len(Tail(w)) = Len(w) - 1
      /\ \A i \in 1 .. Len(w) - 1 : Tail(w)[i] = w[i + 1]
  BY <1>1
<1>3. Len(delivered'[e]) = d + k /\ \A i \in 1 .. d + k : delivered'[e][i] = i
  <2>1. \A i \in 1 .. d : delivered[e][i] = i
    BY DEF DataOf
  <2>2. CASE HeadOp(e) = "Binary"
    <3>1. delivered'[e] = delivered[e] \o << d + 1 >>
      BY <2>2, HeadChunk, ZenonT(40)
    <3>2. Len(delivered'[e]) = d + 1 /\ \A i \in 1 .. d + 1 : delivered'[e][i] = i
      BY <1>1, <2>1, <3>1, NextChunk, ZenonT(40)
    <3>3. k = 1
      BY <2>2
    <3> QED
      BY <3>2, <3>3, ZenonT(40)
  <2>3. CASE HeadOp(e) # "Binary"
    <3>1. d + k = d
      BY <1>1, <2>3
    <3> QED
      BY <2>1, <2>3, <3>1, ZenonT(40)
  <2> QED
    BY <2>2, <2>3, ZenonT(40)
<1>4. t \in Nat /\ c = t + k
  BY <1>1, <1>2, CountType, CountTail, ZenonT(40) DEF HeadOp
<1>5. d + c + b = p
  BY DEF DataOf
<1>6. (d + k) + t + b = p
  <2> HIDE DEF d, c, t, b, p, k
  <2> QED
    BY <1>1, <1>4, <1>5
<1>7. ASSUME NEW i \in 1 .. Len(Tail(w)), Tail(w)[i].op = "Binary"
      PROVE  Tail(w)[i].data = << (d + k) + CountTo(Tail(w), "Binary", i) >>
  <2> DEFINE ct == CountTo(Tail(w), "Binary", i)
             cw == CountTo(w, "Binary", i + 1)
  <2>1. i \in 1 .. Len(w) - 1 /\ i \in Nat /\ i + 1 \in 1 .. Len(w) /\ Tail(w)[i] = w[i + 1]
    BY <1>1, <1>2
  <2>2. cw = ct + k /\ ct \in Nat
    BY <1>1, <2>1, CountToTail, CountToType, ZenonT(40) DEF HeadOp
  <2>3. w[i + 1].data = << d + cw >>
    BY <1>7, <2>1 DEF DataOf
  <2>4. d + cw = (d + k) + ct
    <3> HIDE DEF d, k, ct, cw
    <3> QED
      BY <1>1, <2>2
  <2> QED
    BY <2>1, <2>3, <2>4, ZenonT(40)
<1> QED
  BY <1>2, <1>3, <1>6, <1>7, ZenonT(40) DEF DataOf


\* Every step keeps the streams in order and loses no chunk.
LEMMA DataStep ==
  TypeOK /\ ReaderInv /\ BufInv /\ DataInv /\ [Next]_vars => DataInv'
<1> SUFFICES ASSUME TypeOK, ReaderInv, BufInv, DataInv, [Next]_vars, NEW g \in Endpoints
             PROVE  DataOf(g)'
  BY DEF DataInv
<1> USE DEF wireVars, dataVars, linkVars
<1>p. Peer(g) \in Endpoints /\ DataOf(g)
  BY PeerFacts DEF DataInv
<1>0. ASSUME UNCHANGED <<wire, dataVars>>
      PROVE  DataOf(g)'
  BY <1>0, <1>p, DataFrame
<1>1. CASE UNCHANGED <<l2r, r2l, pending, wireVars, dataVars, linkVars>> \/ LinkStep
  BY <1>0, <1>1 DEF LinkStep
<1>2. ASSUME NEW e \in Endpoints, Quiet(e) \/ Look(e)
      PROVE  DataOf(g)'
  BY <1>0, <1>2 DEF Quiet, Look
<1>3. ASSUME NEW e \in Endpoints, ReadLocal(e)
      PROVE  DataOf(g)'
  <2>1. /\ wire' = wire /\ delivered' = delivered /\ buf[e] \in Seq(Nat)
        /\ produced' = [produced EXCEPT ![e] = produced[e] + 1]
        /\ buf' = [buf EXCEPT ![e] = Append(buf[e], produced[e] + 1)]
    BY <1>3 DEF ReadLocal, TypeOK
  <2>2. buf \in [Endpoints -> Seq(Nat)] /\ produced \in [Endpoints -> Nat]
    BY DEF TypeOK
  <2>3. CASE Peer(g) = e
    <3>1. buf'[e] = Append(buf[e], produced[e] + 1) /\ produced'[e] = produced[e] + 1
      BY <2>1, <2>2
    <3>2. Len(buf'[e]) = Len(buf[e]) + 1
      BY <2>1, <3>1
    <3> QED
      BY <1>p, <2>1, <2>3, <3>1, <3>2, DataRead, ZenonT(40)
  <2>4. CASE Peer(g) # e
    <3>1. buf'[Peer(g)] = buf[Peer(g)] /\ produced'[Peer(g)] = produced[Peer(g)]
      BY <1>p, <2>1, <2>2, <2>4
    <3> QED
      BY <1>p, <2>1, <3>1, DataFrame
  <2> QED
    BY <2>3, <2>4
<1>4. ASSUME NEW e \in Endpoints, NEW frame \in Frames, Put(e, frame),
             delivered' = delivered, produced' = produced,
             frame.op # "Binary" => buf' = buf,
             frame.op = "Binary" => /\ buf[e] = << produced[e] >> /\ frame.data = buf[e]
                                    /\ buf' = [buf EXCEPT ![e] = << >>]
      PROVE  DataOf(g)'
  <2>1. frame.op = "Binary" => buf'[e] = << >> /\ (Peer(g) # e => buf'[Peer(g)] = buf[Peer(g)])
    BY <1>4, <1>p, ZenonT(40) DEF TypeOK
  <2>2. CASE g = Peer(e)
    BY <1>4, <1>p, <2>1, <2>2, DataPut
  <2>3. CASE g # Peer(e)
    <3>1. wire'[g] = wire[g] /\ Peer(g) # e
      BY <1>4, <2>3, PeerFacts DEF Put, TypeOK
    <3>2. buf'[Peer(g)] = buf[Peer(g)]
      BY <1>4, <2>1, <3>1, ZenonT(40)
    <3> QED
      BY <1>4, <1>p, <3>1, <3>2, DataFrame, ZenonT(40)
  <2> QED
    BY <2>2, <2>3
<1>5. ASSUME NEW e \in Endpoints, WritePing(e) \/ DrainReply(e) \/ Finish(e)
      PROVE  DataOf(g)'
  <2>1. UNCHANGED dataVars
    BY <1>5 DEF WritePing, DrainReply, Finish
  <2>2. \/ UNCHANGED wireVars
        \/ \E op \in ControlOps : Put(e, Control(op))
    <3>1. CASE WritePing(e)
      BY <3>1, WriteIsPut DEF WritePing, ControlOps
    <3>2. CASE DrainReply(e)
      <4> DEFINE op == IF Head(pending[e]).op = "Ping" THEN "Pong" ELSE "Close"
      <4>1. op \in ControlOps
        BY DEF ControlOps
      <4>2. Put(e, Control(op)) \/ UNCHANGED wireVars
        BY <3>2, WriteIsPut DEF DrainReply
      <4> QED
        BY <4>1, <4>2, ZenonT(40)
    <3>3. CASE Finish(e)
      BY <3>3 DEF Finish, ControlOps
    <3> QED
      BY <1>5, <3>1, <3>2, <3>3
  <2>3. ASSUME NEW op \in ControlOps, Put(e, Control(op))
        PROVE  DataOf(g)'
    <3>1. Control(op) \in Frames /\ Control(op).op # "Binary"
      BY FrameTypes DEF ControlOps
    <3> QED
      BY <1>4, <2>1, <2>3, <3>1
  <2> QED
    BY <1>0, <2>1, <2>2, <2>3
<1>6. ASSUME NEW e \in Endpoints, Write(e)
      PROVE  DataOf(g)'
  <2>1. l2r[e] = "write" /\ delivered' = delivered /\ produced' = produced
    BY <1>6 DEF Write
  <2>2. /\ buf[e] = << produced[e] >> /\ Binary(buf[e]) \in Frames
        /\ Binary(buf[e]).op = "Binary" /\ Binary(buf[e]).data = buf[e]
    BY <2>1, FrameTypes, ZenonT(40) DEF BufInv, TypeOK, Binary
  <2>3. CASE Put(e, Binary(buf[e])) /\ buf' = [buf EXCEPT ![e] = << >>]
    BY <1>4, <2>1, <2>2, <2>3, ZenonT(40)
  <2>4. CASE UNCHANGED <<wireVars, buf>>
    BY <1>0, <2>1, <2>4
  <2> QED
    BY <1>6, <2>3, <2>4, WriteIsPut DEF Write
<1>7. ASSUME NEW e \in Endpoints, Take(e) \/ Deliver(e)
      PROVE  DataOf(g)'
  <2>1. /\ wire[e] # << >> /\ wire' = [wire EXCEPT ![e] = Tail(wire[e])]
        /\ UNCHANGED <<buf, produced>>
    BY <1>7, ZenonT(40) DEF Take, Deliver, ReaderInv
  <2>2. /\ delivered'[e] = IF HeadOp(e) = "Binary" THEN delivered[e] \o Head(wire[e]).data
                                                  ELSE delivered[e]
        /\ g # e => delivered'[g] = delivered[g]
    <3>1. CASE Take(e)
      BY <3>1 DEF Take
    <3>2. CASE Deliver(e)
      <4>1. HeadOp(e) = "Binary"
        BY <3>2 DEF Deliver, ReaderInv
      <4>2. delivered' = [delivered EXCEPT ![e] = delivered[e] \o Head(wire[e]).data]
        BY <3>2 DEF Deliver
      <4> QED
        BY <4>1, <4>2, ZenonT(40) DEF TypeOK
    <3> QED
      BY <1>7, <3>1, <3>2
  <2>3. wire'[e] = Tail(wire[e]) /\ (g # e => wire'[g] = wire[g])
    BY <2>1 DEF TypeOK
  <2>4. CASE g = e
    BY <1>p, <2>1, <2>2, <2>3, <2>4, DataTail
  <2>5. CASE g # e
    BY <1>p, <2>1, <2>2, <2>3, <2>5, DataFrame
  <2> QED
    BY <2>4, <2>5
<1> QED
  BY <1>1, <1>2, <1>3, <1>5, <1>6, <1>7, StepKinds


-----------------------------------------------------------------------------
(* The invariant *)

\* What the refinement rests on: none of the four parts is inductive without
\* the ones before it.
PipeInv == PingInv /\ CloseInv /\ EndInv /\ BufInv /\ DataInv

\* The tunnel starts with nothing sent, read or closed.
LEMMA PipeInvInit == Init => PipeInv
<1> SUFFICES ASSUME Init
             PROVE  PipeInv
  OBVIOUS
<1>1. ASSUME NEW e \in Endpoints
      PROVE  /\ l2r[e] = "start" /\ wire[e] = << >> /\ pending[e] = << >>
             /\ closeSent[e] = FALSE /\ buf[e] = << >> /\ produced[e] = 0
             /\ delivered[e] = << >>
  BY DEF Init
<1>2. CloseInv
  BY <1>1, CloseEmpty, PeerFacts, ZenonT(40) DEF CloseInv
<1>3. EndInv
  BY <1>1, CloseEmpty, PeerFacts DEF EndInv, Init
<1>4. BufInv
  BY <1>1, ZenonT(40) DEF BufInv
<1>5. DataInv
  <2> SUFFICES ASSUME NEW e \in Endpoints
               PROVE  DataOf(e)
    BY DEF DataInv
  <2>1. wire[e] = << >> /\ delivered[e] = << >> /\ buf[Peer(e)] = << >>
        /\ produced[Peer(e)] = 0
    BY <1>1, PeerFacts, ZenonT(40)
  <2>2. Count(wire[e], "Binary") = 0 /\ Len(<< >>) = 0
    BY <2>1, CountEmpty
  <2>3. 1 .. Len(wire[e]) = {} /\ 1 .. Len(delivered[e]) = {}
    BY <2>1, <2>2
  <2>4. Len(delivered[e]) + Count(wire[e], "Binary") + Len(buf[Peer(e)])
          = produced[Peer(e)]
    BY <2>1, <2>2
  <2> QED
    BY <2>3, <2>4, ZenonT(40) DEF DataOf
<1> QED
  BY <1>2, <1>3, <1>4, <1>5, PingInvInit DEF PipeInv

\* Every step keeps it.
LEMMA PipeInvStep == PipeInv /\ [Next]_vars => PipeInv'
BY PingInvStep, CloseStep, EndStep, BufStep, DataStep DEF PipeInv, PingInv

\* It holds in every state.
LEMMA PipeInvAlways == Spec => []PipeInv
BY PipeInvInit, PipeInvStep, PTL DEF Spec

-----------------------------------------------------------------------------
(* The refinement *)

\* The other end of the pipe is the peer.
LEMMA OtherIsPeer == \A e \in Endpoints : Pipe!Other(e) = Peer(e)
BY DEF Pipe!Other, Peer, Endpoints

\* What the steps of the writers do to the pipe.
LEMMA WritingMove ==
  ASSUME NEW e \in Endpoints
  PROVE  /\ (\A g \in Endpoints : L2RDone(g)' <=> L2RDone(g)) => Writing' = Writing
         /\ (\A g \in Endpoints : L2RDone(g)' <=> L2RDone(g) \/ g = e)
              => Writing' = Writing \ {e}
BY DEF Writing

\* What the steps of the readers do to the pipe.
LEMMA ReaderMove ==
  ASSUME r2l \in [Endpoints -> {"read", "polled", "deliver", "notify",
                                "notifyClose", "closed", "refused", "failed",
                                "cancelled"}],
         NEW e \in Endpoints, NEW to, r2l' = [r2l EXCEPT ![e] = to]
  PROVE  /\ Reader' = [Reader EXCEPT ![e] = ReaderState(to)]
         /\ ReaderState(to) = ReaderState(r2l[e]) => Reader' = Reader
         /\ Reader[e] = ReaderState(r2l[e])
<1>1. \A g \in Endpoints : r2l'[g] = IF g = e THEN to ELSE r2l[g]
  OBVIOUS
<1> QED
  BY <1>1, ZenonT(40) DEF Reader

\* The states of a reader, as the pipe names them.
LEMMA ReaderStates ==
  /\ \A s \in {"read", "polled", "deliver", "notify"} : ReaderState(s) = "open"
  /\ \A s \in {"notifyClose", "closed"} : ReaderState(s) = "ended"
  /\ \A s \in {"failed", "cancelled"} : ReaderState(s) = "cut"
  /\ ReaderState("refused") = "refused"
BY DEF ReaderState

\* A writer that neither starts nor ends being aborted leaves the pipe as
\* whole as it was.
LEMMA BrokenSame ==
  ASSUME link' = link,
         \A g \in Endpoints : l2r'[g] = "aborted" <=> l2r[g] = "aborted"
  PROVE  Broken' = Broken
BY DEF Broken

\* A reader that meets a Close while its own side writes has been given all
\* that the other side sent, and the other side has ended.
LEMMA EndOfStream ==
  ASSUME PipeInv, NEW e \in Endpoints, wire[e] # << >>, HeadOp(e) = "Close", ~L2RDone(e)
  PROVE  l2r[Peer(e)] = "done" /\ Len(delivered[e]) = produced[Peer(e)]
<1> DEFINE p == Peer(e)
           w == wire[e]
<1>t. /\ TypeOK /\ CloseInv /\ EndInv /\ BufInv /\ DataOf(e)
      /\ p \in Endpoints /\ Peer(p) = e
  BY PeerFacts DEF PipeInv, PingInv, DataInv
<1>w. w \in Seq(Frames) /\ Len(delivered[e]) \in Nat /\ produced[p] \in Nat
  BY <1>t, DataTypes
<1>1. HasClose(w)
  BY <1>w, CloseTail DEF HeadOp
<1>2. closeSent[p]
  BY <1>1, <1>t DEF CloseInv
<1>3. l2r[p] = "done"
  BY <1>2, <1>t DEF CloseInv, L2RDone
<1>4. Count(w, "Binary") = 0
  <2>1. CloseIsLast(w)
    BY <1>t DEF EndInv
  <2>2. DOMAIN w = 1 .. Len(w) /\ Len(w) \in Nat /\ 1 \in DOMAIN w /\ w[1].op = "Close"
    BY <1>w DEF HeadOp
  <2>3. DOMAIN w = {1}
    BY <2>1, <2>2 DEF CloseIsLast
  <2>4. {i \in DOMAIN w : w[i].op = "Binary"} = {}
    BY <2>2, <2>3
  <2> QED
    BY <2>4, FS_EmptySet DEF Count
<1>6. buf[p] = << >>
  BY <1>2, <1>3, <1>t, ZenonT(40) DEF BufInv
<1>7. Len(delivered[e]) + 0 + 0 = produced[p]
  <2>1. Len(buf[p]) = 0
    BY <1>6
  <2> QED
    BY <1>4, <1>t, <2>1, ZenonT(40) DEF DataOf
<1> QED
  BY <1>3, <1>7, <1>w


\* What a step of a writer is to the pipe: it sends, stops writing, breaks
\* the connection by giving it up, or changes nothing.
LEMMA WriterRefines ==
  ASSUME TypeOK, NEW e \in Endpoints, L2RTask(e)
  PROVE  Pipe!Next \/ UNCHANGED Pipe!pipeVars
<1> USE DEF wireVars, dataVars, linkVars
<1>r. r2l' = r2l /\ delivered' = delivered /\ link' = link
  BY WriterKinds, ZenonT(40)
  DEF Quiet, ReadLocal, WritePing, Write, DrainReply, Finish
<1>0. Reader' = Reader
  BY <1>r DEF Reader
<1>n. /\ Pipe!Send(e) => Pipe!Next
      /\ Pipe!StopWriting(e) => Pipe!Next
      /\ Pipe!Break(e) => Pipe!Next
  BY DEF Pipe!Next
<1>s. ASSUME NEW to, l2r' = [l2r EXCEPT ![e] = to], ~L2RDone(e)
      PROVE  /\ l2r'[e] = to
             /\ to \notin {"done", "aborted"} => Writing' = Writing
             /\ to \in {"done", "aborted"} => Writing' = Writing \ {e}
             /\ to # "aborted" => Broken' = Broken
             /\ to = "aborted" => Broken' = TRUE
  <2>1. l2r'[e] = to /\ \A g \in Endpoints : g # e => l2r'[g] = l2r[g]
    BY <1>s DEF TypeOK
  <2>2. to \notin {"done", "aborted"} => Writing' = Writing
    BY <1>s, <2>1, WritingMove DEF L2RDone
  <2>3. to \in {"done", "aborted"} => Writing' = Writing \ {e}
    BY <1>s, <2>1, WritingMove DEF L2RDone
  <2>4. to # "aborted" => Broken' = Broken
    BY <1>r, <1>s, <2>1, BrokenSame DEF L2RDone
  <2>5. to = "aborted" => Broken' = TRUE
    BY <2>1 DEF Broken
  <2> QED
    BY <2>1, <2>2, <2>3, <2>4, <2>5
<1>1. CASE Quiet(e) \/ WritePing(e)
  <2>1. ~L2RDone(e) /\ produced' = produced
    BY <1>1 DEF Quiet, WritePing, L2RDone
  <2>2. PICK to \in {"idle", "polled", "drain", "close", "ping", "aborted"} :
          l2r' = [l2r EXCEPT ![e] = to]
    BY <1>1 DEF Quiet, WritePing
  <2>3. CASE to = "aborted"
    <3>1. Writing' = Writing \ {e} /\ Broken' = TRUE
      BY <1>s, <2>1, <2>2, <2>3, ZenonT(40)
    <3> QED
      BY <1>0, <1>n, <1>r, <2>1, <3>1 DEF Pipe!Break
  <2>4. CASE to # "aborted"
    <3>1. Writing' = Writing /\ Broken' = Broken
      BY <1>s, <2>1, <2>2, <2>4, ZenonT(40)
    <3> QED
      BY <1>0, <1>r, <2>1, <3>1 DEF Pipe!pipeVars
  <2> QED
    BY <2>3, <2>4
<1>2. CASE Write(e) \/ DrainReply(e)
  <2>1. ~L2RDone(e) /\ produced' = produced
    BY <1>2 DEF Write, DrainReply, L2RDone
  <2>2. PICK to \in {"idle", "drain", "close"} : l2r' = [l2r EXCEPT ![e] = to]
    <3>1. CASE DrainReply(e) /\ l2r' = l2r
      <4>1. l2r' = [l2r EXCEPT ![e] = "drain"]
        BY <3>1 DEF DrainReply, TypeOK
      <4> QED
        BY <4>1
    <3> QED
      BY <1>2, <3>1 DEF Write, DrainReply
  <2>3. Writing' = Writing /\ Broken' = Broken
    BY <1>s, <2>1, <2>2, ZenonT(40)
  <2> QED
    BY <1>0, <1>r, <2>1, <2>3 DEF Pipe!pipeVars
<1>3. CASE ReadLocal(e)
  <2>1. /\ ~L2RDone(e) /\ l2r' = [l2r EXCEPT ![e] = "write"]
        /\ produced' = [produced EXCEPT ![e] = produced[e] + 1]
    BY <1>3 DEF ReadLocal, L2RDone
  <2>2. Writing' = Writing /\ Broken' = Broken /\ e \in Writing
    BY <1>s, <2>1, ZenonT(40) DEF Writing
  <2> QED
    BY <1>0, <1>n, <1>r, <2>1, <2>2 DEF Pipe!Send
<1>4. CASE Finish(e)
  <2>1. ~L2RDone(e) /\ l2r' = [l2r EXCEPT ![e] = "done"] /\ produced' = produced
    BY <1>4 DEF Finish, L2RDone
  <2>2. Writing' = Writing \ {e} /\ Broken' = Broken /\ e \in Writing
    BY <1>s, <2>1, ZenonT(40) DEF Writing
  <2> QED
    BY <1>0, <1>n, <1>r, <2>1, <2>2 DEF Pipe!StopWriting
<1> QED
  BY <1>1, <1>2, <1>3, <1>4, WriterKinds


\* The chunk that is delivered extends what was received by one.
LEMMA DeliverChunks ==
  ASSUME TypeOK, ReaderInv, NEW e \in Endpoints, DataOf(e), Deliver(e)
  PROVE  /\ delivered' = [delivered EXCEPT ![e] = Pipe!Chunks(Len(delivered[e]) + 1)]
         /\ Len(delivered[e]) + 1 \in Len(delivered[e]) + 1 .. produced[Peer(e)]
<1> DEFINE s == delivered[e]
           n == Len(delivered[e]) + 1
           r == s \o << n >>
<1>1. wire[e] # << >> /\ HeadOp(e) = "Binary"
  BY DEF Deliver, ReaderInv
<1>2. Head(wire[e]).data = << n >> /\ n <= produced[Peer(e)]
  BY <1>1, HeadChunk
<1>3. s \in Seq(Nat) /\ Len(s) \in Nat /\ n \in Nat /\ produced[Peer(e)] \in Nat
  BY PeerFacts DEF TypeOK
<1>4. r = [i \in 1 .. n |-> i]
  <2>1. \A i \in 1 .. Len(s) : s[i] = i
    BY ZenonT(40) DEF DataOf
  <2>2. Len(r) = n /\ \A i \in 1 .. n : r[i] = i
    BY <1>3, <2>1, NextChunk, ZenonT(40)
  <2>3. r \in Seq(Nat)
    BY <1>3
  <2>4. r = [i \in 1 .. Len(r) |-> r[i]]
    <3> HIDE DEF r
    <3> QED
      BY <2>3
  <2> HIDE DEF r, n
  <2> QED
    BY <2>2, <2>4
<1>5. delivered' = [delivered EXCEPT ![e] = r]
  BY <1>2, ZenonT(40) DEF Deliver
<1>6. delivered' = [delivered EXCEPT ![e] = Pipe!Chunks(n)]
  BY <1>4, <1>5, ZenonT(40) DEF Pipe!Chunks
<1>7. n \in n .. produced[Peer(e)]
  <2> HIDE DEF n
  <2> QED
    BY <1>2, <1>3
<1> QED
  BY <1>6, <1>7

\* What a step of a reader is to the pipe: it receives, learns of the end,
\* is refused by its local side or cut off, or changes nothing.
LEMMA ReaderRefines ==
  ASSUME PipeInv, NEW e \in Endpoints, R2LStep(e) \/ LocalWrite(e)
  PROVE  Pipe!Next \/ UNCHANGED Pipe!pipeVars
<1> USE DEF wireVars, dataVars, linkVars
<1>t. TypeOK /\ ReaderInv /\ CloseInv /\ EndInv /\ DataOf(e) /\ Peer(e) \in Endpoints
  BY PeerFacts DEF PipeInv, PingInv, DataInv
<1>0. l2r' = l2r /\ link' = link /\ produced' = produced
  BY ZenonT(40)
  DEF R2LStep, LocalWrite, ReadBinary, ReadPingPong, ReadClose, ReadEndStream,
         NotifyWaiters, ReadErr, CopyPending, CloseRx, Deliver, DeliverFail
<1>w. Writing' = Writing /\ Broken' = Broken
  BY <1>0, BrokenSame DEF Writing, L2RDone
<1>o. Pipe!Other(e) = Peer(e)
  BY OtherIsPeer
<1>n. /\ Pipe!Receive(e) => Pipe!Next
      /\ Pipe!End(e) => Pipe!Next
      /\ Pipe!Refuse(e) => Pipe!Next
      /\ Pipe!Cut(e) => Pipe!Next
  BY DEF Pipe!Next
<1>s. ASSUME NEW to, r2l' = [r2l EXCEPT ![e] = to]
      PROVE  /\ Reader' = [Reader EXCEPT ![e] = ReaderState(to)]
             /\ ReaderState(to) = ReaderState(r2l[e]) => Reader' = Reader
             /\ Reader[e] = ReaderState(r2l[e])
  BY <1>s, <1>t, ReaderMove, ZenonT(40) DEF TypeOK
<1>c. ASSUME NEW to \in {"failed", "cancelled"}, r2l' = [r2l EXCEPT ![e] = to],
             r2l[e] \in {"read", "polled", "deliver"}, Broken \/ L2RDone(e),
             delivered' = delivered
      PROVE  Pipe!Next
  <2>1. Reader' = [Reader EXCEPT ![e] = "cut"] /\ Reader[e] = "open"
    BY <1>c, <1>s, ReaderStates, ZenonT(40)
  <2>2. Broken \/ e \notin Writing
    BY <1>c DEF Writing
  <2> QED
    BY <1>0, <1>c, <1>n, <1>w, <2>1, <2>2, ZenonT(40) DEF Pipe!Cut
<1>q. ASSUME NEW to \in {"read", "polled", "deliver", "notify"},
             r2l' = [r2l EXCEPT ![e] = to], delivered' = delivered,
             r2l[e] \in {"read", "polled", "deliver", "notify"}
      PROVE  UNCHANGED Pipe!pipeVars
  <2>1. Reader' = Reader
    BY <1>q, <1>s, ReaderStates, ZenonT(40)
  <2> QED
    BY <1>0, <1>q, <1>w, <2>1, ZenonT(40) DEF Pipe!pipeVars
<1>1. CASE ReadBinary(e) \/ CopyPending(e)
  <2>1. /\ r2l[e] = "read" /\ delivered' = delivered
        /\ r2l' = [r2l EXCEPT ![e] = "deliver"] \/ r2l' = [r2l EXCEPT ![e] = "polled"]
    BY <1>1, ZenonT(40) DEF ReadBinary, CopyPending, FrameReady
  <2> QED
    BY <1>q, <2>1
<1>2. CASE NotifyWaiters(e)
  <2>1. delivered' = delivered
    BY <1>2 DEF NotifyWaiters
  <2>2. CASE r2l[e] = "notify"
    <3>1. r2l' = [r2l EXCEPT ![e] = "read"]
      BY <1>2, <2>2 DEF NotifyWaiters
    <3> QED
      BY <1>q, <2>1, <2>2, <3>1
  <2>3. CASE r2l[e] = "notifyClose"
    <3>1. r2l' = [r2l EXCEPT ![e] = "closed"]
      BY <1>2, <2>3 DEF NotifyWaiters
    <3>2. Reader' = Reader
      BY <1>s, <2>3, <3>1, ReaderStates, ZenonT(40)
    <3> QED
      BY <1>0, <1>w, <2>1, <3>2, ZenonT(40) DEF Pipe!pipeVars
  <2> QED
    BY <1>2, <2>2, <2>3 DEF NotifyWaiters
<1>3. CASE ReadPingPong(e)
  <2>1. r2l[e] = "read" /\ delivered' = delivered
    BY <1>3 DEF ReadPingPong, FrameReady
  <2>2. CASE r2l' = [r2l EXCEPT ![e] = "notify"]
    BY <1>q, <2>1, <2>2
  <2>3. CASE L2RDone(e) /\ r2l' = [r2l EXCEPT ![e] = "failed"]
    BY <1>c, <2>1, <2>3
  <2> QED
    BY <1>3, <2>2, <2>3 DEF ReadPingPong
<1>4. CASE ReadClose(e) \/ ReadEndStream(e)
  <2>1. PICK to \in {"notifyClose", "closed"} : r2l' = [r2l EXCEPT ![e] = to]
    BY <1>4 DEF ReadClose, ReadEndStream
  <2>2. /\ r2l[e] = "read" /\ delivered' = delivered
        /\ wire[e] # << >> /\ HeadOp(e) = "Close"
    BY <1>4 DEF ReadClose, ReadEndStream, FrameReady
  <2>3. Reader' = [Reader EXCEPT ![e] = "ended"] /\ Reader[e] = "open"
    BY <1>s, <2>1, <2>2, ReaderStates, ZenonT(40)
  <2>4. e \in Writing => Peer(e) \notin Writing /\ Len(delivered[e]) = produced[Peer(e)]
    <3>1. ~L2RDone(e) =>
            L2RDone(Peer(e)) /\ Len(delivered[e]) = produced[Peer(e)]
      BY <2>2, EndOfStream, ZenonT(40) DEF L2RDone
    <3> QED
      BY <3>1, ZenonT(40) DEF Writing
  <2> QED
    BY <1>0, <1>n, <1>o, <1>w, <2>2, <2>3, <2>4, ZenonT(40) DEF Pipe!End
<1>5. CASE ReadErr(e)
  <2>1. /\ r2l[e] = "read" /\ delivered' = delivered
        /\ r2l' = [r2l EXCEPT ![e] = "failed"]
    BY <1>5, ZenonT(40) DEF ReadErr
  <2>2. CASE Lost(e)
    <3>1. link # "up"
      BY <1>t, <2>2 DEF EndInv, Lost
    <3> QED
      BY <1>c, <2>1, <3>1 DEF Broken
  <2>3. CASE link = "up" /\ wire[e] = << >> /\ Eof(e)
    <3>1. l2r[Peer(e)] \in {"done", "aborted"}
      BY <2>3 DEF Eof, Gone, L2RDone
    <3>2. ~HasClose(wire[e]) /\ ~R2LDone(e)
      BY <2>1, <2>3, CloseEmpty, ZenonT(40) DEF R2LDone
    <3>3. l2r[Peer(e)] # "done"
      BY <1>t, <2>1, <2>3, <3>2, ZenonT(40) DEF EndInv
    <3>4. Broken
      BY <1>t, <3>1, <3>3 DEF Broken
    <3> QED
      BY <1>c, <2>1, <3>4
  <2> QED
    BY <1>5, <2>2, <2>3, ZenonT(40) DEF ReadErr
<1>6. CASE CloseRx(e)
  <2>1. r2l[e] \in {"polled", "deliver"} /\ delivered' = delivered
    BY <1>6 DEF CloseRx
  <2>2. CASE L2RDone(e)
    <3>1. r2l' = [r2l EXCEPT ![e] = "cancelled"]
      BY <1>6, <2>2 DEF CloseRx
    <3> QED
      BY <1>c, <2>1, <2>2, <3>1
  <2>3. CASE ~L2RDone(e)
    <3>1. r2l' = [r2l EXCEPT ![e] = "read"]
      BY <1>6, <2>3 DEF CloseRx
    <3> QED
      BY <1>q, <2>1, <3>1
  <2> QED
    BY <2>2, <2>3
<1>7. CASE Deliver(e)
  <2>1. r2l[e] = "deliver" /\ r2l' = [r2l EXCEPT ![e] = "read"]
    BY <1>7 DEF Deliver
  <2>2. Reader' = Reader /\ Reader[e] = "open"
    BY <1>s, <2>1, ReaderStates, ZenonT(40)
  <2>3. \E n \in Len(delivered[e]) + 1 .. produced[Peer(e)] :
          delivered' = [delivered EXCEPT ![e] = Pipe!Chunks(n)]
    BY <1>7, <1>t, DeliverChunks
  <2> QED
    BY <1>0, <1>n, <1>o, <1>w, <2>2, <2>3, ZenonT(40) DEF Pipe!Receive
<1>8. CASE DeliverFail(e)
  <2>1. /\ r2l[e] = "deliver" /\ delivered' = delivered
        /\ r2l' = [r2l EXCEPT ![e] = "refused"]
    BY <1>8 DEF DeliverFail
  <2>2. Reader' = [Reader EXCEPT ![e] = "refused"] /\ Reader[e] = "open"
    BY <1>s, <2>1, ReaderStates, ZenonT(40)
  <2>3. Len(delivered[e]) < produced[Peer(e)]
    <3>1. Len(delivered[e]) + 1 <= produced[Peer(e)]
      BY <1>t, <2>1, HeadChunk DEF ReaderInv
    <3> QED
      BY <1>t, <3>1, DataTypes
  <2> QED
    BY <1>0, <1>n, <1>o, <1>w, <2>1, <2>2, <2>3, ZenonT(40) DEF Pipe!Refuse
<1> QED
  BY <1>1, <1>2, <1>3, <1>4, <1>5, <1>6, <1>7, <1>8 DEF R2LStep, LocalWrite

-----------------------------------------------------------------------------
(* The theorem *)

\* The initial states are initial states of the pipe.
LEMMA PipeInit == Init => Pipe!Init
<1> SUFFICES ASSUME Init
             PROVE  Pipe!Init
  OBVIOUS
<1>1. Writing = Endpoints
  BY DEF Init, Writing, L2RDone
<1>2. Reader = [e \in Endpoints |-> "open"]
  BY ReaderStates DEF Init, Reader
<1>3. Broken = FALSE
  BY DEF Init, Broken
<1> QED
  BY <1>1, <1>2, <1>3 DEF Init, Pipe!Init

\* Every step is a step of the pipe or changes nothing there.
LEMMA PipeStep == PipeInv /\ [Next]_vars => [Pipe!Next]_(Pipe!pipeVars)
<1> SUFFICES ASSUME PipeInv, [Next]_vars
             PROVE  Pipe!Next \/ UNCHANGED Pipe!pipeVars
  OBVIOUS
<1> USE DEF wireVars, dataVars, taskVars, linkVars
<1>1. CASE UNCHANGED vars
  BY <1>1 DEF vars, Pipe!pipeVars, Writing, Reader, Broken, L2RDone
<1>2. CASE LinkStall \/ LinkFail \/ \E e \in Endpoints : CnxEnd(e)
  <2>1. link' # "up" /\ UNCHANGED <<l2r, r2l, produced, delivered>>
    BY <1>2 DEF LinkStall, LinkFail, CnxEnd, PipeInv, PingInv, TypeOK
  <2>2. Writing' = Writing /\ Reader' = Reader /\ Broken' = TRUE
    BY <2>1 DEF Writing, Reader, Broken, L2RDone
  <2>3. "client" \in Endpoints
    BY DEF Endpoints
  <2>4. Pipe!Break("client")
    BY <2>1, <2>2 DEF Pipe!Break
  <2> QED
    BY <2>3, <2>4 DEF Pipe!Next
<1>3. ASSUME NEW e \in Endpoints, L2RTask(e)
      PROVE  Pipe!Next \/ UNCHANGED Pipe!pipeVars
  BY <1>3, WriterRefines DEF PipeInv, PingInv
<1>4. ASSUME NEW e \in Endpoints, R2LStep(e) \/ LocalWrite(e)
      PROVE  Pipe!Next \/ UNCHANGED Pipe!pipeVars
  BY <1>4, ReaderRefines
<1> QED
  BY <1>1, <1>2, <1>3, <1>4 DEF Next, Terminated

\* A tunnel is a pipe in each direction, whatever the number of chunks, the
\* size of the buffers, the limits and the transport.
THEOREM TunnelImplementsPipe == Spec => TunnelIsPipe
<1>1. PipeInv /\ PipeInv' /\ [Next]_vars => [Pipe!Next]_(Pipe!pipeVars)
  BY PipeStep
<1> QED
  BY <1>1, PipeInit, PipeInvAlways, PTL DEF Spec, TunnelIsPipe, Pipe!Spec
=============================================================================
