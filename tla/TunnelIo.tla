------------------------------ MODULE TunnelIo ------------------------------
(***************************************************************************)
(* One established tunnel between a wstunnel client and server, over a     *)
(* WebSocket or an HTTP/2 stream.                                          *)
(*                                                                         *)
(* Each endpoint runs two tasks (wstunnel/src/tunnel/transport/io.rs):     *)
(*   l2r  propagate_local_to_remote, the only writer of the transport;     *)
(*   r2l  propagate_remote_to_local, the only reader of the transport.     *)
(* The reader cannot write, so it hands Ping, Pong and Close frames to the *)
(* writer through a bounded channel `pending' and wakes it with a Notify.  *)
(* Each task watches the end of the other one through a oneshot channel.   *)
(* Over HTTP/2 there are no control frames: ping() and close() do nothing  *)
(* (a tick of the timer is SelectPark) and dropping the write half ends    *)
(* the stream, which a "Close" frame stands for (http2.rs).                *)
(*                                                                         *)
(* A select! polls its branches one after the other, while other threads   *)
(* run: the first branch and the rest are two separate steps here          *)
(* ("idle"/"read" and then "polled").                                      *)
(***************************************************************************)
EXTENDS Naturals, Sequences, FiniteSets

CONSTANTS
  MaxInFlightPing,     \* un-answered pings allowed (3 in websocket.rs:103)
  PendingOpsCapacity,  \* slots of the pending channel (10, websocket.rs:168)
  UsizeMax,            \* largest value of the in-flight counter
  WireCapacity,        \* frames the transport buffers before a write blocks
  Transports,          \* kinds of stream the tunnel may run on
  PingEnabled,         \* endpoints whose ping_frequency is Some
  MaxChunks            \* bound: chunks the local side of each endpoint produces,
                       \* by transport

Endpoints == {"client", "server"}

ASSUME ConstantsAssumption ==
  /\ MaxInFlightPing \in Nat \ {0}
  /\ PendingOpsCapacity \in Nat
  /\ PendingOpsCapacity > 2 * MaxInFlightPing + 1
  /\ UsizeMax \in Nat
  /\ UsizeMax > MaxInFlightPing + 1
  /\ WireCapacity \in Nat \ {0}
  /\ Transports \in SUBSET {"Plain", "Tls", "Http2"}
  /\ PingEnabled \in SUBSET Endpoints
  /\ MaxChunks \in [Transports -> [Endpoints -> Nat]]

Peer(e) == IF e = "client" THEN "server" ELSE "client"

Binary(data) == [op |-> "Binary", data |-> data]
Control(op) == [op |-> op, data |-> << >>]
ControlOps == {"Ping", "Pong", "Close"}

VARIABLES
  l2r,        \* control point of each local-to-remote task
  r2l,        \* control point of each remote-to-local task
  notified,   \* the Notified future the writer holds
  pending,    \* control frames on their way from the reader to the writer
  inFlight,   \* in_flight_ping
  wire,       \* wire[e]: frames written by Peer(e) that e has not read
  closeSent,  \* a Close frame was written
  buf,        \* chunks read from the local side, not yet written
  produced,   \* number of chunks read from the local side so far
  delivered,  \* chunks written to the local side so far
  cut,        \* endpoints whose HTTP/2 connection task has ended
  link,       \* "up", "stalled" (nothing arrives any more, and nobody is
              \* told) or "down" (the loss has been reported)
  transport   \* the kind of stream, fixed by the handshake

taskVars == <<l2r, r2l, notified, pending>>
wireVars == <<wire, closeSent>>
dataVars == <<buf, produced, delivered>>
linkVars == <<cut, link, transport>>
vars == <<l2r, r2l, notified, pending, inFlight, wire, closeSent, buf,
          produced, delivered, cut, link, transport>>

L2RDone(e) == l2r[e] \in {"done", "aborted"}
R2LDone(e) == r2l[e] \in {"closed", "refused", "failed", "cancelled"}
Gone(e) == L2RDone(e) /\ R2LDone(e)
Http2 == transport = "Http2"

Init ==
  /\ l2r = [e \in Endpoints |-> "start"]
  /\ r2l = [e \in Endpoints |-> "read"]
  /\ notified = [e \in Endpoints |-> "none"]
  /\ pending = [e \in Endpoints |-> << >>]
  /\ inFlight = [e \in Endpoints |-> 0]
  /\ wire = [e \in Endpoints |-> << >>]
  /\ closeSent = [e \in Endpoints |-> FALSE]
  /\ buf = [e \in Endpoints |-> << >>]
  /\ produced = [e \in Endpoints |-> 0]
  /\ delivered = [e \in Endpoints |-> << >>]
  /\ cut = {}
  /\ link = "up"
  /\ transport \in Transports

-----------------------------------------------------------------------------
(***************************************************************************)
(* The transport.  write_frame, or over HTTP/2 the send into the channel   *)
(* that feeds the stream, suspends the writer while the buffers are full,  *)
(* stalled connection or not.  It fails once the loss of the connection is *)
(* reported or the remote process has dropped both halves (though the      *)
(* kernel may still take a frame then), and it may refuse any frame but    *)
(* Close after a Close.                                                    *)
(***************************************************************************)
Put(e, frame) ==
  /\ wire' = [wire EXCEPT ![Peer(e)] = Append(@, frame)]
  /\ closeSent' = [closeSent EXCEPT ![e] = @ \/ frame.op = "Close"]

Lost(e) == link = "down" \/ e \in cut

WriteOk(e, frame) ==
  /\ ~Lost(e)
  /\ Len(wire[Peer(e)]) < WireCapacity
  /\ Put(e, frame)

WriteErr(e, frame) ==
  /\ \/ Lost(e)
     \/ link = "up" /\ Gone(Peer(e))
     \/ closeSent[e] /\ frame.op # "Close"
  /\ UNCHANGED wireVars

\* A dropped plain TCP write half sends FIN; a TLS stream stays open until
\* both of its halves are dropped.  An HTTP/2 stream ends with a frame.
Eof(e) ==
  /\ ~Http2
  /\ Gone(Peer(e)) \/ (transport = "Plain" /\ L2RDone(Peer(e)))

LinkStall ==
  /\ link = "up"
  /\ link' = "stalled"
  /\ UNCHANGED <<taskVars, inFlight, wireVars, dataVars, cut, transport>>

LinkFail ==
  /\ link # "down"
  /\ link' = "down"
  /\ UNCHANGED <<taskVars, inFlight, wireVars, dataVars, cut, transport>>

\* The task that drives the HTTP/2 connection of e ends, and with it the
\* connection and all that was written but not sent.  The client's read half
\* aborts it when it is dropped (on the server it outlives the tunnel), and
\* hyper ends it when its keep-alive pings are not answered.
CnxEnd(e) ==
  /\ Http2 /\ e \notin cut /\ link # "down"
  /\ \/ e = "client" /\ R2LDone(e)
     \/ e \in PingEnabled /\ link = "stalled"
  /\ cut' = cut \cup {e}
  /\ link' = IF link = "up" THEN "down" ELSE link
  /\ UNCHANGED <<taskVars, inFlight, wireVars, dataVars, transport>>

-----------------------------------------------------------------------------
(***************************************************************************)
(* propagate_local_to_remote                                               *)
(***************************************************************************)

\* Lines before the loop: the first Notified future is created.  A
\* notify_waiters() that comes earlier finds nobody and is lost.
L2RStart(e) ==
  /\ l2r[e] = "start"
  /\ l2r' = [l2r EXCEPT ![e] = "idle"]
  /\ notified' = [notified EXCEPT ![e] = "fresh"]
  /\ UNCHANGED <<r2l, pending, inFlight, wireVars, dataVars, linkVars>>

\* First branch of the select: a new future is armed before the drain starts.
SelectNotified(e) ==
  /\ l2r[e] = "idle"
  /\ notified[e] = "fired"
  /\ l2r' = [l2r EXCEPT ![e] = "drain"]
  /\ notified' = [notified EXCEPT ![e] = "armed"]
  /\ UNCHANGED <<r2l, pending, inFlight, wireVars, dataVars, linkVars>>

SelectPoll(e) ==
  /\ l2r[e] = "idle"
  /\ notified[e] # "fired"
  /\ l2r' = [l2r EXCEPT ![e] = "polled"]
  /\ UNCHANGED <<r2l, notified, pending, inFlight, wireVars, dataVars, linkVars>>

\* local_rx.read_buf returned bytes.
ReadLocal(e) ==
  /\ l2r[e] = "polled"
  /\ produced[e] < MaxChunks[transport][e]
  /\ produced' = [produced EXCEPT ![e] = @ + 1]
  /\ buf' = [buf EXCEPT ![e] = Append(@, produced[e] + 1)]
  /\ l2r' = [l2r EXCEPT ![e] = "write"]
  /\ UNCHANGED <<r2l, notified, pending, inFlight, wireVars, delivered, linkVars>>

\* local_rx.read_buf returned Ok(0) or an error.
LocalEof(e) ==
  /\ l2r[e] = "polled"
  /\ l2r' = [l2r EXCEPT ![e] = "close"]
  /\ UNCHANGED <<r2l, notified, pending, inFlight, wireVars, dataVars, linkVars>>

\* close_tx.closed(): the reader task dropped its end of the oneshot.
ShouldClose(e) ==
  /\ l2r[e] = "polled"
  /\ R2LDone(e)
  /\ l2r' = [l2r EXCEPT ![e] = "close"]
  /\ UNCHANGED <<r2l, notified, pending, inFlight, wireVars, dataVars, linkVars>>

\* Mutants of PingTick: the limit is off by one; there is no limit.
PingTickOffByOne(e) ==
  /\ l2r[e] = "polled"
  /\ e \in PingEnabled /\ ~Http2
  /\ inFlight' = [inFlight EXCEPT ![e] = IF @ = UsizeMax THEN 0 ELSE @ + 1]
  /\ l2r' = [l2r EXCEPT ![e] = IF inFlight[e] > MaxInFlightPing
                                 THEN "aborted" ELSE "ping"]
  /\ UNCHANGED <<r2l, notified, pending, wireVars, dataVars, linkVars>>

PingTickUnlimited(e) ==
  /\ l2r[e] = "polled"
  /\ e \in PingEnabled /\ ~Http2
  /\ inFlight' = [inFlight EXCEPT ![e] = IF @ = UsizeMax THEN 0 ELSE @ + 1]
  /\ l2r' = [l2r EXCEPT ![e] = "ping"]
  /\ UNCHANGED <<r2l, notified, pending, wireVars, dataVars, linkVars>>

\* The timer branch up to the in-flight test of ping(): past the limit the
\* task returns through `?' and sends no Close frame.
PingTick(e) ==
  /\ l2r[e] = "polled"
  /\ e \in PingEnabled /\ ~Http2
  /\ inFlight' = [inFlight EXCEPT ![e] = IF @ = UsizeMax THEN 0 ELSE @ + 1]
  /\ l2r' = [l2r EXCEPT ![e] = IF inFlight[e] >= MaxInFlightPing
                                 THEN "aborted" ELSE "ping"]
  /\ UNCHANGED <<r2l, notified, pending, wireVars, dataVars, linkVars>>

\* Mutant of SelectPark: the end of the reader does not wake the task.
SelectParkUnwoken(e) ==
  /\ l2r[e] = "polled"
  /\ l2r' = [l2r EXCEPT ![e] = "idle"]
  /\ UNCHANGED <<r2l, notified, pending, inFlight, wireVars, dataVars, linkVars>>

\* No branch is ready: the task is parked and polled again from the top.
SelectPark(e) ==
  /\ l2r[e] = "polled"
  /\ ~R2LDone(e)
  /\ l2r' = [l2r EXCEPT ![e] = "idle"]
  /\ UNCHANGED <<r2l, notified, pending, inFlight, wireVars, dataVars, linkVars>>

\* The write_frame of ping().
WritePing(e) ==
  /\ l2r[e] = "ping"
  /\ \/ /\ WriteOk(e, Control("Ping"))
        /\ l2r' = [l2r EXCEPT ![e] = "idle"]
     \/ /\ WriteErr(e, Control("Ping"))
        /\ l2r' = [l2r EXCEPT ![e] = "aborted"]
  /\ UNCHANGED <<r2l, notified, pending, inFlight, dataVars, linkVars>>

\* Mutant of Write: the buffer is not cleared after it was sent.
WriteKeepsBuffer(e) ==
  /\ l2r[e] = "write"
  /\ \/ /\ WriteOk(e, Binary(buf[e]))
        /\ l2r' = [l2r EXCEPT ![e] = "idle"]
     \/ /\ WriteErr(e, Binary(buf[e]))
        /\ l2r' = [l2r EXCEPT ![e] = "close"]
  /\ UNCHANGED <<r2l, notified, pending, inFlight, dataVars, linkVars>>

\* write(): the whole buffer is one frame; it is cleared once sent.  (Over
\* HTTP/2 it is cleared even if the send fails, and then never looked at.)
Write(e) ==
  /\ l2r[e] = "write"
  /\ \/ /\ WriteOk(e, Binary(buf[e]))
        /\ buf' = [buf EXCEPT ![e] = << >>]
        /\ l2r' = [l2r EXCEPT ![e] = "idle"]
     \/ /\ WriteErr(e, Binary(buf[e]))
        /\ l2r' = [l2r EXCEPT ![e] = "close"]
        /\ UNCHANGED buf
  /\ UNCHANGED <<r2l, notified, pending, inFlight, produced, delivered, linkVars>>

\* handle_pending_operations: try_recv found the channel empty.
DrainEnd(e) ==
  /\ l2r[e] = "drain"
  /\ pending[e] = << >>
  /\ l2r' = [l2r EXCEPT ![e] = "idle"]
  /\ UNCHANGED <<r2l, notified, pending, inFlight, wireVars, dataVars, linkVars>>

\* Mutant of DrainReply: a Ping is taken from the channel and not answered.
DrainReplyNoPong(e) ==
  /\ l2r[e] = "drain"
  /\ pending[e] # << >>
  /\ Head(pending[e]).op # "Pong"
  /\ pending' = [pending EXCEPT ![e] = Tail(@)]
  /\ IF Head(pending[e]).op = "Ping" THEN UNCHANGED <<l2r, wireVars>>
     ELSE \/ WriteOk(e, Control("Close")) /\ UNCHANGED l2r
          \/ WriteErr(e, Control("Close")) /\ l2r' = [l2r EXCEPT ![e] = "close"]
  /\ UNCHANGED <<r2l, notified, inFlight, dataVars, linkVars>>

\* A Close is echoed and a Ping answered with a Pong.
DrainReply(e) ==
  /\ l2r[e] = "drain"
  /\ pending[e] # << >>
  /\ Head(pending[e]).op # "Pong"
  /\ pending' = [pending EXCEPT ![e] = Tail(@)]
  /\ LET reply == Control(IF Head(pending[e]).op = "Ping" THEN "Pong" ELSE "Close")
     IN \/ WriteOk(e, reply) /\ UNCHANGED l2r
        \/ WriteErr(e, reply) /\ l2r' = [l2r EXCEPT ![e] = "close"]
  /\ UNCHANGED <<r2l, notified, inFlight, dataVars, linkVars>>

\* A Pong only lowers the in-flight counter (fetch_sub wraps).
DrainPong(e) ==
  /\ l2r[e] = "drain"
  /\ pending[e] # << >>
  /\ Head(pending[e]).op = "Pong"
  /\ pending' = [pending EXCEPT ![e] = Tail(@)]
  /\ inFlight' = [inFlight EXCEPT ![e] = IF @ = 0 THEN UsizeMax ELSE @ - 1]
  /\ UNCHANGED <<l2r, r2l, notified, wireVars, dataVars, linkVars>>

\* After the loop: a Close frame whose failure is ignored; the task then
\* drops its local reader, close_tx, the channel and the write half.
Close(e) ==
  /\ l2r[e] = "close" /\ ~Http2
  /\ WriteOk(e, Control("Close")) \/ WriteErr(e, Control("Close"))
  /\ l2r' = [l2r EXCEPT ![e] = "done"]
  /\ UNCHANGED <<r2l, notified, pending, inFlight, dataVars, linkVars>>

\* Over HTTP/2 close() does nothing; the dropped sender ends the stream.
EndStream(e) ==
  /\ l2r[e] = "close" /\ Http2
  /\ IF Lost(e) THEN UNCHANGED wireVars ELSE Put(e, Control("Close"))
  /\ l2r' = [l2r EXCEPT ![e] = "done"]
  /\ UNCHANGED <<r2l, notified, pending, inFlight, dataVars, linkVars>>

-----------------------------------------------------------------------------
(***************************************************************************)
(* propagate_remote_to_local and WebsocketTunnelRead::copy                 *)
(***************************************************************************)

FrameReady(e) == r2l[e] = "read" /\ wire[e] # << >> /\ link # "stalled"
HeadOp(e) == Head(wire[e]).op
PendingFull(e) == Len(pending[e]) >= PendingOpsCapacity

\* A data frame: copy() is now inside write_all.  The frame stays at the
\* head of the wire until the local side has taken it.
ReadBinary(e) ==
  /\ FrameReady(e)
  /\ HeadOp(e) = "Binary"
  /\ r2l' = [r2l EXCEPT ![e] = "deliver"]
  /\ UNCHANGED <<l2r, notified, pending, inFlight, wireVars, dataVars, linkVars>>

\* write_all: the local side takes the payload, or refuses it.
Deliver(e) ==
  /\ r2l[e] = "deliver"
  /\ delivered' = [delivered EXCEPT ![e] = @ \o Head(wire[e]).data]
  /\ wire' = [wire EXCEPT ![e] = Tail(@)]
  /\ r2l' = [r2l EXCEPT ![e] = "read"]
  /\ UNCHANGED <<l2r, notified, pending, inFlight, closeSent, buf, produced,
                 linkVars>>

DeliverFail(e) ==
  /\ r2l[e] = "deliver"
  /\ r2l' = [r2l EXCEPT ![e] = "refused"]
  /\ UNCHANGED <<l2r, notified, pending, inFlight, wireVars, dataVars, linkVars>>

\* A Ping or Pong goes to the writer, unless the writer has gone.
ReadPingPong(e) ==
  /\ FrameReady(e)
  /\ HeadOp(e) \in {"Ping", "Pong"}
  /\ wire' = [wire EXCEPT ![e] = Tail(@)]
  /\ \/ /\ ~L2RDone(e) /\ ~PendingFull(e)
        /\ pending' = [pending EXCEPT ![e] = Append(@, Head(wire[e]))]
        /\ r2l' = [r2l EXCEPT ![e] = "notify"]
     \/ /\ L2RDone(e)
        /\ r2l' = [r2l EXCEPT ![e] = "failed"]
        /\ UNCHANGED pending
  /\ UNCHANGED <<l2r, notified, inFlight, closeSent, dataVars, linkVars>>

\* A Close goes to the writer too; that the writer has gone is ignored.
ReadClose(e) ==
  /\ FrameReady(e)
  /\ HeadOp(e) = "Close" /\ ~Http2
  /\ wire' = [wire EXCEPT ![e] = Tail(@)]
  /\ \/ /\ ~L2RDone(e) /\ ~PendingFull(e)
        /\ pending' = [pending EXCEPT ![e] = Append(@, Head(wire[e]))]
     \/ L2RDone(e) /\ UNCHANGED pending
  /\ r2l' = [r2l EXCEPT ![e] = "notifyClose"]
  /\ UNCHANGED <<l2r, notified, inFlight, closeSent, dataVars, linkVars>>

\* The body of the HTTP/2 stream has no further frame.
ReadEndStream(e) ==
  /\ FrameReady(e)
  /\ HeadOp(e) = "Close" /\ Http2
  /\ wire' = [wire EXCEPT ![e] = Tail(@)]
  /\ r2l' = [r2l EXCEPT ![e] = "closed"]
  /\ UNCHANGED <<l2r, notified, pending, inFlight, closeSent, dataVars, linkVars>>

\* Mutant of NotifyWaiters: only a future that was polled is woken.
NotifyWaitersPolledOnly(e) ==
  /\ r2l[e] \in {"notify", "notifyClose"}
  /\ notified' = [notified EXCEPT
       ![e] = IF @ # "none" /\ l2r[e] \in {"idle", "polled"} THEN "fired" ELSE @]
  /\ r2l' = [r2l EXCEPT ![e] = IF @ = "notify" THEN "read" ELSE "closed"]
  /\ UNCHANGED <<l2r, pending, inFlight, wireVars, dataVars, linkVars>>

\* notify_waiters wakes the future the writer holds at this moment, if any.
NotifyWaiters(e) ==
  /\ r2l[e] \in {"notify", "notifyClose"}
  /\ notified' = [notified EXCEPT ![e] = IF @ = "none" THEN @ ELSE "fired"]
  /\ r2l' = [r2l EXCEPT ![e] = IF @ = "notify" THEN "read" ELSE "closed"]
  /\ UNCHANGED <<l2r, pending, inFlight, wireVars, dataVars, linkVars>>

\* read_frame fails: the connection is lost, or ended without a Close frame.
ReadErr(e) ==
  /\ r2l[e] = "read"
  /\ \/ Lost(e)
     \/ link = "up" /\ wire[e] = << >> /\ Eof(e)
  /\ r2l' = [r2l EXCEPT ![e] = "failed"]
  /\ UNCHANGED <<l2r, notified, pending, inFlight, wireVars, dataVars, linkVars>>

\* copy() is pending: no frame, or a control frame and a full channel.
CopyPending(e) ==
  /\ r2l[e] = "read"
  /\ \/ link = "stalled" /\ e \notin cut
     \/ link = "up" /\ wire[e] = << >> /\ ~Eof(e)
     \/ /\ wire[e] # << >> /\ HeadOp(e) # "Binary"
        /\ PendingFull(e) /\ ~L2RDone(e)
  /\ r2l' = [r2l EXCEPT ![e] = "polled"]
  /\ UNCHANGED <<l2r, notified, pending, inFlight, wireVars, dataVars, linkVars>>

\* The close_rx branch: the writer ended, and a copy() in progress is dropped.
CloseRx(e) ==
  /\ \/ r2l[e] = "polled"
     \/ r2l[e] = "deliver" /\ L2RDone(e)
  /\ r2l' = [r2l EXCEPT ![e] = IF L2RDone(e) THEN "cancelled" ELSE "read"]
  /\ UNCHANGED <<l2r, notified, pending, inFlight, wireVars, dataVars, linkVars>>

-----------------------------------------------------------------------------

L2RTask(e) ==
  \/ L2RStart(e) \/ SelectNotified(e) \/ SelectPoll(e) \/ SelectPark(e)
  \/ ReadLocal(e) \/ LocalEof(e) \/ ShouldClose(e) \/ PingTick(e)
  \/ WritePing(e) \/ Write(e) \/ Close(e) \/ EndStream(e)
  \/ DrainEnd(e) \/ DrainReply(e) \/ DrainPong(e)

\* What the reader does by itself, and what its local side lets it do.
R2LStep(e) ==
  \/ ReadBinary(e) \/ ReadPingPong(e) \/ ReadClose(e) \/ ReadEndStream(e)
  \/ NotifyWaiters(e)
  \/ ReadErr(e) \/ CopyPending(e) \/ CloseRx(e)
LocalWrite(e) == Deliver(e) \/ DeliverFail(e)

AllGone == \A e \in Endpoints : Gone(e)
Terminated == AllGone /\ UNCHANGED vars

Next ==
  \/ \E e \in Endpoints : L2RTask(e) \/ R2LStep(e) \/ LocalWrite(e) \/ CnxEnd(e)
  \/ LinkStall \/ LinkFail
  \/ Terminated

Spec == Init /\ [][Next]_vars

\* tokio polls every task that is ready, each local side sooner or later
\* takes or refuses what is written to it, the ping timer elapses again and
\* again, and so does that of the keep-alive; an aborted task is dropped.
FairSpec ==
  /\ Spec
  /\ \A e \in Endpoints : WF_vars(L2RTask(e)) /\ WF_vars(R2LStep(e) \/ LocalWrite(e))
  /\ \A e \in Endpoints : WF_vars(CnxEnd(e))
  /\ \A e \in PingEnabled : SF_vars(PingTick(e))

-----------------------------------------------------------------------------
(***************************************************************************)
(* Properties                                                              *)
(***************************************************************************)

ControlFrames == [op : ControlOps, data : {<< >>}]
Frames == ControlFrames \cup [op : {"Binary"}, data : Seq(Nat)]

\* Every variable keeps its type; `pending' carries only control frames.
TypeOK ==
  /\ l2r \in [Endpoints -> {"start", "idle", "polled", "drain", "write",
                            "ping", "close", "done", "aborted"}]
  /\ r2l \in [Endpoints -> {"read", "polled", "deliver", "notify",
                            "notifyClose", "closed", "refused", "failed",
                            "cancelled"}]
  /\ notified \in [Endpoints -> {"none", "fresh", "armed", "fired"}]
  /\ pending \in [Endpoints -> Seq(ControlFrames)]
  /\ inFlight \in [Endpoints -> 0 .. UsizeMax]
  /\ wire \in [Endpoints -> Seq(Frames)]
  /\ closeSent \in [Endpoints -> BOOLEAN]
  /\ buf \in [Endpoints -> Seq(Nat)]
  /\ produced \in [Endpoints -> Nat]
  /\ delivered \in [Endpoints -> Seq(Nat)]
  /\ cut \in SUBSET Endpoints
  /\ link \in {"up", "stalled", "down"}
  /\ transport \in {"Plain", "Tls", "Http2"}

Count(s, op) == Cardinality({i \in DOMAIN s : s[i].op = op})

\* The pings of e that are somewhere between its writer and its counter.
Outstanding(e) ==
  Count(wire[Peer(e)], "Ping") + Count(pending[Peer(e)], "Ping")
    + Count(wire[e], "Pong") + Count(pending[e], "Pong")

\* A counted ping whose frame is not written yet.
AboutToPing(e) == IF l2r[e] = "ping" THEN 1 ELSE 0

\* The counter never falls behind the pings that can still be answered, so
\* that fetch_sub cannot wrap; never more than the limit of them are under
\* way; and the counter passes the limit only by the increment that ends the
\* task (websocket.rs ping and handle_pending_operations).
PingCounterSound ==
  \A e \in Endpoints :
    /\ Outstanding(e) + AboutToPing(e) <= inFlight[e]
    /\ Outstanding(e) + AboutToPing(e) <= MaxInFlightPing
    /\ inFlight[e] <= MaxInFlightPing + (IF l2r[e] = "aborted" THEN 1 ELSE 0)

\* A reader inside write_all still has its data frame at the head of the
\* wire, and only a reader that met a Close has one in the pending channel,
\* at most one: with the counters, what makes PendingNeverFull inductive.
ReaderInv ==
  \A e \in Endpoints :
    /\ r2l[e] = "deliver" => wire[e] # << >> /\ HeadOp(e) = "Binary"
    /\ Count(pending[e], "Close")
         <= IF r2l[e] \in {"notifyClose", "closed"} THEN 1 ELSE 0

\* While both writers run on a live connection no ping and no pong is lost
\* between the four tasks: the counter is exactly the number of outstanding
\* pings, so a healthy peer that drains its channel is never declared dead
\* because of an answer that went missing inside the program.
PingAccounting ==
  \A e \in Endpoints :
    link # "down" /\ ~L2RDone(e) /\ ~L2RDone(Peer(e))
      => inFlight[e] = Outstanding(e) + AboutToPing(e)

\* The reader never waits for room in the pending channel: were it to, a
\* writer blocked on a full transport and a reader blocked on the writer
\* would hold each other up on both sides (websocket.rs channel(10)).
PendingNeverFull == \A e \in Endpoints : ~PendingFull(e)

\* Once the writer holds a re-armed Notified future, a queued control frame
\* is never left without a wake-up: the writer is draining, has been woken,
\* or is about to be woken by the reader.
NoLostWakeup ==
  \A e \in Endpoints :
    notified[e] = "armed" /\ pending[e] # << >>
      => \/ l2r[e] = "drain" \/ l2r[e] = "close" \/ L2RDone(e)
         \/ r2l[e] \in {"notify", "notifyClose"}

\* The pipe as the two local sides see it: the writers that have not ended,
\* what each reader knows of its stream, and whether the tunnel broke.
Writing == {e \in Endpoints : ~L2RDone(e)}
ReaderState(state) ==
  CASE state \in {"failed", "cancelled"} -> "cut"
    [] state = "refused" -> "refused"
    [] state \in {"notifyClose", "closed"} -> "ended"
    [] OTHER -> "open"
Reader == [e \in Endpoints |-> ReaderState(r2l[e])]
Broken == link # "up" \/ \E e \in Endpoints : l2r[e] = "aborted"

Pipe == INSTANCE DuplexPipe WITH
  sent <- produced, received <- delivered,
  writing <- Writing, reader <- Reader, broken <- Broken

\* A tunnel is a pipe in each direction, over every transport and whatever
\* its four tasks and the connection do: what arrives is what was sent, in
\* order and once; a reader whose own side still writes is told the end only
\* after all that the other side sent, and is cut off only if the connection
\* breaks (the loops of io.rs over the copy and write of websocket.rs and
\* http2.rs).
TunnelIsPipe == Pipe!Spec

\* The writer waits for room in the transport's buffers.
BlockedInWrite(e) ==
  /\ l2r[e] \in {"write", "ping", "drain", "close"}
  /\ Len(wire[Peer(e)]) = WireCapacity

\* Both readers ended with data in flight both ways: no writer looks at
\* close_tx while it is suspended in a write, and each keeps open the stream
\* the other one waits for.
CrossedWriters == \A e \in Endpoints : R2LDone(e) /\ BlockedInWrite(e)

\* When one of the four tasks ends, for whatever reason, all four end: no
\* half of a tunnel is left hanging.  The two exceptions are the connection
\* that stalls and, on a WebSocket, the two writers blocked on each other.
TunnelTerminates ==
  <>[]((\E e \in Endpoints : L2RDone(e) \/ R2LDone(e))
         => AllGone \/ link = "stalled" \/ (CrossedWriters /\ ~Http2))

\* With ping_frequency set, both tasks of an endpoint end once the connection
\* goes silent, unless the writer waits for a transport that more than
\* pings have filled: ping() runs in the task that is then suspended.  The
\* keep-alive of HTTP/2 runs in a task of its own and has no such exception.
SilentPeerDetected ==
  <>[](\A e \in PingEnabled : link = "stalled" =>
         \/ Gone(e)
         \/ ~Http2 /\ BlockedInWrite(e) /\ (l2r[e] = "ping" =>
              \E i \in DOMAIN wire[Peer(e)] : wire[Peer(e)][i].op # "Ping"))
=============================================================================
