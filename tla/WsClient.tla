------------------------------ MODULE WsClient ------------------------------
(***************************************************************************)
(* The client's connections to the server (tunnel/client/client.rs,        *)
(* cnx_pool.rs, connect of transport/websocket.rs and http2.rs): tasks     *)
(* that each open a tunnel for a local connection, the loop of a reverse   *)
(* tunnel, and the pool they take connections from.                        *)
(*                                                                         *)
(* External: the server, which comes and goes, and takes its connections   *)
(* with it; the network, which can lose a connection without notice (TCP   *)
(* keep-alive finds out); the bb8 crate, which keeps idle connections,     *)
(* drops old ones, and asks has_broken when one is given back.             *)
(***************************************************************************)
EXTENDS Naturals, FiniteSets

CONSTANTS
  Fwd,         \* tasks of local connections
  Rev,         \* the task of a reverse tunnel
  MaxSlots,    \* bound: connections of the pool, those in use included
  NoCnx,       \* a task that has no connection
  MinIdle,     \* --connection-min-idle
  MaxBackoff,  \* --reverse-tunnel-connection-retry-max-backoff, in seconds
  BadRequests, \* tasks whose request can fail to be built
  MaxCrashes,  \* bound: times the server goes down
  MaxLosses    \* bound: connections lost without notice

Tasks == Fwd \cup {Rev}
Slots == 1 .. MaxSlots

ASSUME ClientAssumption ==
  /\ Rev \notin Fwd /\ NoCnx \notin Slots
  /\ MaxSlots \in Nat /\ MaxSlots >= Cardinality(Tasks) + MinIdle
  /\ {MinIdle, MaxBackoff, MaxCrashes, MaxLosses} \subseteq Nat
  /\ BadRequests \subseteq Tasks

VARIABLES
  up,       \* the server is up
  slot,     \* [Slots -> where the connection is, holds a stream, and alive]
  pc,       \* control point of each task
  cnx,      \* the connection a task has taken from the pool
  delay,    \* the next delay of the reverse tunnel
  wait,     \* the delay it is sleeping for
  fails,    \* failures of the reverse tunnel since its last success
  crashes, losses

vars == <<up, slot, pc, cnx, delay, wait, fails, crashes, losses>>
envVars == <<up, crashes, losses>>
loopVars == <<delay, wait, fails>>

Free == [at |-> "free", full |-> FALSE, alive |-> FALSE]
Unused(s) == slot[s].at = "free" /\ \A r \in 1 .. s - 1 : slot[r].at # "free"
Idle == {s \in Slots : slot[s].at = "idle"}

Init ==
  /\ up = TRUE
  /\ slot = [s \in Slots |-> Free]
  /\ pc = [t \in Tasks |-> IF t = Rev THEN "get" ELSE "absent"]
  /\ cnx = [t \in Tasks |-> NoCnx]
  /\ delay = 1 /\ wait = 0 /\ fails = 0
  /\ crashes = 0 /\ losses = 0

-----------------------------------------------------------------------------
(***************************************************************************)
(* The server, the network and the pool                                    *)
(***************************************************************************)

ServerDown ==
  /\ up /\ crashes < MaxCrashes
  /\ up' = FALSE /\ crashes' = crashes + 1
  /\ slot' = [s \in Slots |-> [slot[s] EXCEPT !.alive = FALSE]]
  /\ UNCHANGED <<pc, cnx, loopVars, losses>>

ServerUp ==
  /\ ~up /\ up' = TRUE
  /\ UNCHANGED <<slot, pc, cnx, loopVars, crashes, losses>>

LoseConnection(s) ==
  /\ slot[s].alive /\ losses < MaxLosses
  /\ losses' = losses + 1
  /\ slot' = [slot EXCEPT ![s].alive = FALSE]
  /\ UNCHANGED <<up, pc, cnx, loopVars, crashes>>

\* WsConnection::connect, for a connection at the given place.
Connected(at) == [at |-> at, full |-> TRUE, alive |-> TRUE]

\* The pool keeps MinIdle connections.
Replenish(s) ==
  /\ up /\ Unused(s) /\ Cardinality(Idle) < MinIdle
  /\ slot' = [slot EXCEPT ![s] = Connected("idle")]
  /\ UNCHANGED <<envVars, pc, cnx, loopVars>>

\* max_lifetime is over.
Expire(s) ==
  /\ slot[s].at = "idle"
  /\ slot' = [slot EXCEPT ![s] = Free]
  /\ UNCHANGED <<envVars, pc, cnx, loopVars>>

-----------------------------------------------------------------------------
(***************************************************************************)
(* websocket::connect and http2::connect                                   *)
(***************************************************************************)

\* Mutant of has_broken: a connection without its stream is kept.
has_broken_never(c) == FALSE

has_broken(c) == ~c.full

\* The pooled connection goes out of scope.
GiveBack(c) == IF has_broken(c) THEN Free ELSE [c EXCEPT !.at = "idle"]

\* cnx_pool.get(): an idle connection, which is_valid never refuses, or a new
\* one.
Get(t) ==
  /\ pc[t] = "get"
  /\ \E s \in Slots :
       /\ \/ /\ s \in Idle
             /\ slot' = [slot EXCEPT ![s].at = "used"]
          \/ /\ Idle = {} /\ up /\ Unused(s)
             /\ slot' = [slot EXCEPT ![s] = Connected("used")]
       /\ cnx' = [cnx EXCEPT ![t] = s]
  /\ pc' = [pc EXCEPT ![t] = "build"]
  /\ UNCHANGED <<envVars, loopVars>>

\* The request is built and the stream taken out of the pooled connection;
\* unwrap() panics if there is none.
TakeStream(t) ==
  /\ pc[t] = "build"
  /\ pc' = [pc EXCEPT ![t] = IF slot[cnx[t]].full THEN "handshake" ELSE "panic"]
  /\ slot' = [slot EXCEPT ![cnx[t]].full = FALSE]
  /\ UNCHANGED <<envVars, cnx, loopVars>>

\* new_reconnect_delay.
NextDelay == IF delay * 2 < MaxBackoff THEN delay * 2 ELSE MaxBackoff

\* Mutant of Failed: an error ends the loop of the reverse tunnel.
FailedEnds(t, how) ==
  /\ pc' = [pc EXCEPT ![t] = how]
  /\ UNCHANGED loopVars

\* What an error does: the task of a local connection ends and drops it, the
\* reverse tunnel sleeps and tries again.
Failed(t, how) ==
  IF t = Rev
  THEN /\ pc' = [pc EXCEPT ![t] = "sleep"]
       /\ wait' = delay /\ delay' = NextDelay
       /\ fails' = IF fails = MaxBackoff + 1 THEN fails ELSE fails + 1
  ELSE /\ pc' = [pc EXCEPT ![t] = how]
       /\ UNCHANGED loopVars

\* Mutant of GetFails: no new connection is tried.
GetFailsAtOnce(t) ==
  /\ pc[t] = "get" /\ Idle = {}
  /\ Failed(t, "dropped")
  /\ UNCHANGED <<envVars, slot, cnx>>

\* No idle connection, and no new one within connection_timeout.
GetFails(t) ==
  /\ pc[t] = "get" /\ Idle = {} /\ ~up
  /\ Failed(t, "dropped")
  /\ UNCHANGED <<envVars, slot, cnx>>

EndConnect(t) ==
  /\ slot' = [slot EXCEPT ![cnx[t]] = GiveBack(@)]
  /\ cnx' = [cnx EXCEPT ![t] = NoCnx]
  /\ UNCHANGED envVars

\* The headers of the request are not valid; the stream is still there.
BuildFails(t) ==
  /\ pc[t] = "build" /\ t \in BadRequests
  /\ Failed(t, "rejected")
  /\ EndConnect(t)

\* The connection is dead.
HandshakeFails(t) ==
  /\ pc[t] = "handshake" /\ ~slot[cnx[t]].alive
  /\ Failed(t, "lost")
  /\ EndConnect(t)

\* The server refuses the request.
Refused(t) ==
  /\ pc[t] = "handshake" /\ slot[cnx[t]].alive
  /\ Failed(t, "rejected")
  /\ EndConnect(t)

\* Mutant of Accepted: the delay is not reset.
AcceptedNoReset(t) ==
  /\ pc[t] = "handshake" /\ slot[cnx[t]].alive
  /\ pc' = [pc EXCEPT ![t] = IF t = Rev THEN "connector" ELSE "tunnel"]
  /\ fails' = IF t = Rev THEN 0 ELSE fails
  /\ EndConnect(t)
  /\ UNCHANGED <<delay, wait>>

\* The server accepts.  The tunnel itself is TunnelIo.
Accepted(t) ==
  /\ pc[t] = "handshake" /\ slot[cnx[t]].alive
  /\ pc' = [pc EXCEPT ![t] = IF t = Rev THEN "connector" ELSE "tunnel"]
  /\ IF t = Rev THEN delay' = 1 /\ fails' = 0 ELSE UNCHANGED <<delay, fails>>
  /\ EndConnect(t)
  /\ UNCHANGED wait

-----------------------------------------------------------------------------
(***************************************************************************)
(* run_tunnel and run_reverse_tunnel                                       *)
(***************************************************************************)

\* The listener of run_tunnel yields a connection.
LocalConnection(t) ==
  /\ pc[t] = "absent"
  /\ pc' = [pc EXCEPT ![t] = "get"]
  /\ UNCHANGED <<envVars, slot, cnx, loopVars>>

\* connector.connect() returns: the tasks of the tunnel are spawned, or the
\* error is logged; either way the loop opens the next connection at once.
ConnectorDone ==
  /\ pc[Rev] = "connector"
  /\ pc' = [pc EXCEPT ![Rev] = "get"]
  /\ UNCHANGED <<envVars, slot, cnx, loopVars>>

SleepOver ==
  /\ pc[Rev] = "sleep"
  /\ pc' = [pc EXCEPT ![Rev] = "get"]
  /\ wait' = 0
  /\ UNCHANGED <<envVars, slot, cnx, delay, fails>>

-----------------------------------------------------------------------------
\* What a task does without waiting for the server's answer.
Step(t) ==
  Get(t) \/ GetFails(t) \/ TakeStream(t) \/ BuildFails(t) \/ HandshakeFails(t)
Answer(t) == Accepted(t) \/ Refused(t)

Next ==
  \/ ServerDown \/ ServerUp
  \/ \E s \in Slots : LoseConnection(s) \/ Replenish(s) \/ Expire(s)
  \/ \E t \in Tasks : Step(t) \/ Answer(t)
  \/ \E t \in Fwd : LocalConnection(t)
  \/ ConnectorDone \/ SleepOver

Spec == Init /\ [][Next]_vars

\* Tasks run on, and a server that is up answers the requests for local
\* connections; it answers a reverse tunnel only when it has a use for it.
FairSpec ==
  /\ Spec
  /\ \A t \in Tasks : WF_vars(Step(t))
  /\ \A t \in Fwd : WF_vars(Answer(t))
  /\ WF_vars(ConnectorDone \/ SleepOver)

-----------------------------------------------------------------------------
(***************************************************************************)
(* Properties                                                              *)
(***************************************************************************)

\* Every variable keeps its type.
TypeOK ==
  /\ up \in BOOLEAN
  /\ slot \in [Slots -> [at : {"free", "idle", "used"}, full : BOOLEAN, alive : BOOLEAN]]
  /\ pc \in [Tasks -> {"absent", "get", "build", "handshake", "connector", "sleep",
                       "tunnel", "dropped", "lost", "rejected", "panic"}]
  /\ \A t \in Tasks :
       (pc[t] \in {"build", "handshake"}) <=> (cnx[t] # NoCnx /\ pc[t] # "panic")
  /\ delay \in 0 .. (MaxBackoff + 1) /\ wait \in 0 .. (MaxBackoff + 1)

\* pooled_cnx.take().unwrap() never panics: a connection whose stream was
\* taken is never handed out again, and one whose request could not be built
\* goes back to the pool whole.
StreamTakenOnce == TypeOK /\ \A t \in Tasks : pc[t] # "panic"

\* config.rs:79, "an exponential backoff strategy until it reaches this
\* maximum delay": the n-th failure in a row is followed by a sleep of 2^(n-1)
\* seconds or the maximum, and a success starts over.
BackoffExact ==
  pc[Rev] = "sleep" =>
    wait = IF 2^(fails - 1) < MaxBackoff THEN 2^(fails - 1) ELSE MaxBackoff

Waiting == pc[Rev] = "handshake" /\ slot[cnx[Rev]].alive

\* config.rs:77, "the client will try to always keep a connection to the
\* server to await for new tunnels": while the server is up the reverse
\* tunnel always gets back to waiting for it, through crashes of the server,
\* lost and stale connections.
ReverseTunnelReturns == []<>(Waiting \/ ~up)

\* client.rs:106, "everybody who connects to the local socket gets their own
\* tunnel": a local connection made while the server is up gets a tunnel or
\* the server's refusal, unless the server goes down meanwhile or the
\* connection the pool gave out was dead (is_valid accepts every idle one, and
\* there is no second attempt).
EverybodyGetsTunnel ==
  \A t \in Fwd :
    (pc[t] = "get" /\ up) ~> (pc[t] \in {"tunnel", "rejected", "lost"} \/ ~up)
=============================================================================
