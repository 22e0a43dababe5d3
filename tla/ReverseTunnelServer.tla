------------------------ MODULE ReverseTunnelServer ------------------------
(***************************************************************************)
(* The server's registry of reverse-tunnel listeners                       *)
(* (wstunnel/src/tunnel/server/reverse_tunnel.rs).                         *)
(*                                                                         *)
(* Every request of a reverse tunnel runs run_listening_server: it joins   *)
(* the listener registered for its bind address or creates one, and waits  *)
(* for a connection.  A listener is served by a task of its own that       *)
(* queues what it accepts and stops when it is idle.  The listener that    *)
(* request r creates, its channel and its task are all named r.            *)
(*                                                                         *)
(* External: the sockets (bind, accept), the channel and the abort handle. *)
(***************************************************************************)
EXTENDS Naturals, Sequences, FiniteSets

CONSTANTS
  Requests,       \* requests of reverse tunnels
  Addrs,          \* bind addresses
  BindAddr,       \* the address each request asks for
  Exclusive,      \* TRUE unless several listeners may bind one address
                  \* (port 0, a unix socket path)
  QueueCapacity,  \* slots of the channel (10 in reverse_tunnel.rs:71)
  MaxCnx,         \* bound: connections that arrive in total
  NoServer        \* an address nobody is registered for

ASSUME RegistryAssumption ==
  /\ IsFiniteSet(Requests)
  /\ BindAddr \in [Requests -> Addrs]
  /\ Exclusive \in BOOLEAN
  /\ QueueCapacity \in Nat \ {0}
  /\ MaxCnx \in Nat
  /\ NoServer \notin Requests

VARIABLES
  servers,  \* the map behind the mutex: the listener of each address
  pc,       \* control point of each request
  srv,      \* the listener a request is attached to
  task,     \* control point of each listener task
  abort,    \* listeners whose task has been told to stop
  seen,     \* nb_seen_clients
  queue,    \* connections accepted and not yet picked by a request
  holding,  \* the connection a task is sending
  got,      \* the connection a request received
  nextCnx,  \* number of the next connection
  lateItem  \* listeners that were registered after their own clean-up ran

vars == <<servers, pc, srv, task, abort, seen, queue, holding, got, nextCnx,
          lateItem>>

Init ==
  /\ servers = [a \in Addrs |-> NoServer]
  /\ pc = [r \in Requests |-> "lookup"]
  /\ srv = [r \in Requests |-> NoServer]
  /\ task = [s \in Requests |-> "none"]
  /\ abort = {}
  /\ seen = [s \in Requests |-> 0]
  /\ queue = [s \in Requests |-> << >>]
  /\ holding = [s \in Requests |-> 0]
  /\ got = [r \in Requests |-> 0]
  /\ nextCnx = 1
  /\ lateItem = {}

-----------------------------------------------------------------------------
\* The socket is open until the task's clean-up drops it.
Bound(s) == task[s] \in {"spawned", "select", "tick", "send", "stopping"}
\* The clean-up that unregisters the listener has run.
CleanedUp(s) == task[s] \in {"removed", "done"}
\* The item that owns the abort handle and the first receiver.
ItemAlive(s) == servers[BindAddr[s]] = s \/ pc[s] \in {"create", "insert"}
Waiting(s) == {r \in Requests : srv[r] = s /\ pc[r] \in {"insert", "recv"}}
ReceiverCount(s) == Cardinality(Waiting(s)) + (IF ItemAlive(s) THEN 1 ELSE 0)

-----------------------------------------------------------------------------
(***************************************************************************)
(* run_listening_server, the request side                                  *)
(***************************************************************************)

\* Under the lock: join the registered listener (get_cnx_awaiter).
Lookup(r) ==
  /\ pc[r] = "lookup"
  /\ LET s == servers[BindAddr[r]] IN
       IF s = NoServer
       THEN /\ pc' = [pc EXCEPT ![r] = "bind"]
            /\ UNCHANGED <<srv, seen>>
       ELSE /\ pc' = [pc EXCEPT ![r] = "recv"]
            /\ srv' = [srv EXCEPT ![r] = s]
            /\ seen' = [seen EXCEPT ![s] = @ + 1]
  /\ UNCHANGED <<servers, task, abort, queue, holding, got, nextCnx, lateItem>>

\* gen_listening_server.await, and the spawn of the task.
Bind(r) ==
  /\ pc[r] = "bind"
  /\ Exclusive => \A s \in Requests : BindAddr[s] = BindAddr[r] => ~Bound(s)
  /\ pc' = [pc EXCEPT ![r] = "create"]
  /\ task' = [task EXCEPT ![r] = "spawned"]
  /\ UNCHANGED <<servers, srv, abort, seen, queue, holding, got, nextCnx,
                 lateItem>>

BindErr(r) ==
  /\ pc[r] = "bind"
  /\ pc' = [pc EXCEPT ![r] = "failed"]
  /\ UNCHANGED <<servers, srv, task, abort, seen, queue, holding, got, nextCnx,
                 lateItem>>

\* item.get_cnx_awaiter() of the request that created the listener.
JoinOwn(r) ==
  /\ pc[r] = "create"
  /\ pc' = [pc EXCEPT ![r] = "insert"]
  /\ srv' = [srv EXCEPT ![r] = r]
  /\ seen' = [seen EXCEPT ![r] = @ + 1]
  /\ UNCHANGED <<servers, task, abort, queue, holding, got, nextCnx, lateItem>>

\* servers.lock().insert(): a replaced item is dropped, which aborts its task.
Insert(r) ==
  /\ pc[r] = "insert"
  /\ pc' = [pc EXCEPT ![r] = "recv"]
  /\ servers' = [servers EXCEPT ![BindAddr[r]] = r]
  /\ abort' = abort \cup ({servers[BindAddr[r]]} \ {NoServer})
  /\ lateItem' = IF CleanedUp(r) THEN lateItem \cup {r} ELSE lateItem
  /\ UNCHANGED <<srv, task, seen, queue, holding, got, nextCnx>>

\* recv(): the oldest queued connection, also from a channel closed since.
Recv(r) ==
  /\ pc[r] = "recv"
  /\ queue[srv[r]] # << >>
  /\ pc' = [pc EXCEPT ![r] = "got"]
  /\ got' = [got EXCEPT ![r] = Head(queue[srv[r]])]
  /\ queue' = [queue EXCEPT ![srv[r]] = Tail(@)]
  /\ UNCHANGED <<servers, srv, task, abort, seen, holding, nextCnx, lateItem>>

\* "listening reverse server stopped": the sender was dropped.
RecvErr(r) ==
  /\ pc[r] = "recv"
  /\ queue[srv[r]] = << >>
  /\ task[srv[r]] = "done"
  /\ pc' = [pc EXCEPT ![r] = "failed"]
  /\ UNCHANGED <<servers, srv, task, abort, seen, queue, holding, got, nextCnx,
                 lateItem>>

\* The remote client went away: the future is dropped at an await.
Cancel(r) ==
  /\ pc[r] \in {"bind", "recv"}
  /\ pc' = [pc EXCEPT ![r] = "cancelled"]
  /\ UNCHANGED <<servers, srv, task, abort, seen, queue, holding, got, nextCnx,
                 lateItem>>

-----------------------------------------------------------------------------
(***************************************************************************)
(* The listener task                                                       *)
(***************************************************************************)

\* First poll: the clean-up guard exists from now on.  The timer ticks for
\* the first time at once.
TaskStart(s) ==
  /\ task[s] = "spawned" /\ s \notin abort
  /\ task' = [task EXCEPT ![s] = "select"]
  /\ UNCHANGED <<servers, pc, srv, abort, seen, queue, holding, got, nextCnx,
                 lateItem>>

\* listening_server.next() is a connection; an accept error changes nothing.
Accept(s) ==
  /\ task[s] = "select"
  /\ nextCnx <= MaxCnx
  /\ task' = [task EXCEPT ![s] = "send"]
  /\ holding' = [holding EXCEPT ![s] = nextCnx]
  /\ nextCnx' = nextCnx + 1
  /\ UNCHANGED <<servers, pc, srv, abort, seen, queue, got, lateItem>>

\* listening_server.next() is None.
ListenerEnd(s) ==
  /\ task[s] = "select"
  /\ task' = [task EXCEPT ![s] = "stopping"]
  /\ UNCHANGED <<servers, pc, srv, abort, seen, queue, holding, got, nextCnx,
                 lateItem>>

\* tx.send() returns: queued, or dropped because nobody can receive it.
SendCnx(s) ==
  /\ task[s] = "send"
  /\ \/ /\ ReceiverCount(s) > 0
        /\ Len(queue[s]) < QueueCapacity
        /\ queue' = [queue EXCEPT ![s] = Append(@, holding[s])]
     \/ ReceiverCount(s) = 0 /\ UNCHANGED queue
  /\ task' = [task EXCEPT ![s] = "select"]
  /\ holding' = [holding EXCEPT ![s] = 0]
  /\ UNCHANGED <<servers, pc, srv, abort, seen, got, nextCnx, lateItem>>

\* Nobody made room in the channel during idle_timeout.
SendTimeout(s) ==
  /\ task[s] = "send"
  /\ ReceiverCount(s) > 0
  /\ Len(queue[s]) = QueueCapacity
  /\ task' = [task EXCEPT ![s] = "stopping"]
  /\ holding' = [holding EXCEPT ![s] = 0]
  /\ UNCHANGED <<servers, pc, srv, abort, seen, queue, got, nextCnx, lateItem>>

\* timer.tick(), first half: seen_clients.swap(0).
Tick(s) ==
  /\ task[s] = "select"
  /\ seen' = [seen EXCEPT ![s] = 0]
  /\ task' = [task EXCEPT ![s] = IF seen[s] = 0 THEN "tick" ELSE "select"]
  /\ UNCHANGED <<servers, pc, srv, abort, queue, holding, got, nextCnx,
                 lateItem>>

\* Mutant of CountReceivers: the task's own item is not discounted properly.
CountReceiversOffByOne(s) ==
  /\ task[s] = "tick"
  /\ task' = [task EXCEPT ![s] = IF ReceiverCount(s) <= 2
                                   THEN "stopping" ELSE "select"]
  /\ UNCHANGED <<servers, pc, srv, abort, seen, queue, holding, got, nextCnx,
                 lateItem>>

\* Mutant of CountReceivers: the receiver of the item is counted as a client.
CountReceiversZero(s) ==
  /\ task[s] = "tick"
  /\ task' = [task EXCEPT ![s] = IF ReceiverCount(s) = 0
                                   THEN "stopping" ELSE "select"]
  /\ UNCHANGED <<servers, pc, srv, abort, seen, queue, holding, got, nextCnx,
                 lateItem>>

\* timer.tick(), second half: the test of tx.receiver_count().
CountReceivers(s) ==
  /\ task[s] = "tick"
  /\ task' = [task EXCEPT ![s] = IF ReceiverCount(s) <= 1
                                   THEN "stopping" ELSE "select"]
  /\ UNCHANGED <<servers, pc, srv, abort, seen, queue, holding, got, nextCnx,
                 lateItem>>

\* An abort takes effect at an await; a task never polled has no guard to run.
Aborted(s) ==
  /\ s \in abort
  /\ task[s] \in {"spawned", "select", "send"}
  /\ task' = [task EXCEPT ![s] = IF @ = "spawned" THEN "removed" ELSE "stopping"]
  /\ holding' = [holding EXCEPT ![s] = 0]
  /\ UNCHANGED <<servers, pc, srv, abort, seen, queue, got, nextCnx, lateItem>>

\* The block's locals are dropped in reverse order: the listener first ...
DropListener(s) ==
  /\ task[s] = "stopping"
  /\ task' = [task EXCEPT ![s] = "unbound"]
  /\ UNCHANGED <<servers, pc, srv, abort, seen, queue, holding, got, nextCnx,
                 lateItem>>

\* Mutant of Unregister: the entry is taken out without dropping the item.
UnregisterNoAbort(s) ==
  /\ task[s] = "unbound"
  /\ task' = [task EXCEPT ![s] = "removed"]
  /\ servers' = [servers EXCEPT ![BindAddr[s]] = NoServer]
  /\ UNCHANGED <<pc, srv, abort, seen, queue, holding, got, nextCnx, lateItem>>

\* ... then the guard removes the address's entry, whoever it belongs to, and
\* dropping that item aborts its task ...
Unregister(s) ==
  /\ task[s] = "unbound"
  /\ task' = [task EXCEPT ![s] = "removed"]
  /\ servers' = [servers EXCEPT ![BindAddr[s]] = NoServer]
  /\ abort' = abort \cup ({servers[BindAddr[s]]} \ {NoServer})
  /\ UNCHANGED <<pc, srv, seen, queue, holding, got, nextCnx, lateItem>>

\* Mutant of DropSender: the sender outlives the task.
DropSenderNever(s) ==
  /\ task[s] = "removed"
  /\ UNCHANGED vars

\* ... and the captured sender last, which closes the channel.
DropSender(s) ==
  /\ task[s] = "removed"
  /\ task' = [task EXCEPT ![s] = "done"]
  /\ UNCHANGED <<servers, pc, srv, abort, seen, queue, holding, got, nextCnx,
                 lateItem>>

-----------------------------------------------------------------------------

RequestStep(r) ==
  \/ Lookup(r) \/ Bind(r) \/ BindErr(r) \/ JoinOwn(r) \/ Insert(r)
  \/ Recv(r) \/ RecvErr(r)

TaskStep(s) ==
  \/ TaskStart(s) \/ SendCnx(s) \/ SendTimeout(s) \/ Tick(s)
  \/ CountReceivers(s) \/ Aborted(s) \/ DropListener(s) \/ Unregister(s)
  \/ DropSender(s)

Next ==
  \/ \E r \in Requests : RequestStep(r) \/ Cancel(r)
  \/ \E s \in Requests : TaskStep(s) \/ Accept(s) \/ ListenerEnd(s)

Spec == Init /\ [][Next]_vars

\* Requests and tasks that can run are polled; the timer keeps ticking.
FairSpec ==
  /\ Spec
  /\ \A r \in Requests : WF_vars(RequestStep(r)) /\ WF_vars(TaskStep(r))

-----------------------------------------------------------------------------
(***************************************************************************)
(* Properties                                                              *)
(***************************************************************************)

\* Every variable keeps its type.
TypeOK ==
  /\ servers \in [Addrs -> Requests \cup {NoServer}]
  /\ pc \in [Requests -> {"lookup", "bind", "create", "insert", "recv", "got",
                          "failed", "cancelled"}]
  /\ srv \in [Requests -> Requests \cup {NoServer}]
  /\ task \in [Requests -> {"none", "spawned", "select", "tick", "send",
                            "stopping", "unbound", "removed", "done"}]
  /\ abort \in SUBSET Requests
  /\ seen \in [Requests -> Nat]
  /\ queue \in [Requests -> Seq(1 .. MaxCnx)]
  /\ holding \in [Requests -> 0 .. MaxCnx]
  /\ got \in [Requests -> 0 .. MaxCnx]
  /\ nextCnx \in 1 .. MaxCnx + 1
  /\ lateItem \in SUBSET Requests

\* The task is in its loop.
Serving(s) == task[s] \in {"spawned", "select", "tick", "send"}

\* The map and the listeners agree.  No orphan: a listener that keeps its
\* address bound and was not told to stop can be reached through the map, or is
\* about to be put there; a second request would otherwise fail to bind an
\* address nobody serves.  No dead entry, except one that was put there after
\* the clean-up of its listener had already run.
MapFollowsListeners ==
  /\ TypeOK
  /\ \A s \in Requests :
       Serving(s) /\ s \notin abort
         => servers[BindAddr[s]] = s \/ pc[s] \in {"create", "insert"}
  /\ \A a \in Addrs :
       servers[a] # NoServer /\ CleanedUp(servers[a]) => servers[a] \in lateItem

\* The idle test ends a listener only when no request waits on its channel,
\* however the request's arrival interleaves with the two halves of the tick.
\* (A listener whose item was replaced counts one receiver too few, but it
\* has been aborted.)  The request that is creating the listener does not wait
\* yet: the first tick is immediate and may stop the listener on it, although
\* the comment there says "if no client connected ... close it".
IdleStopSparesWaiting ==
  [][\A s \in Requests :
       task[s] = "tick" /\ task'[s] = "stopping"
         => Waiting(s) = {} \/ s \in abort]_vars

\* A listener nobody waits for stops: every listener ends, or some request is
\* attached to it.
IdleListenerStops ==
  \A s \in Requests : Serving(s) ~> (task[s] = "done" \/ Waiting(s) # {})

\* A request attached to a listener that stops is answered, with a queued
\* connection or with an error; it never waits for ever.
NoRequestStranded ==
  \A r \in Requests :
    (pc[r] = "recv" /\ ~Serving(srv[r])) ~> pc[r] \in {"got", "failed", "cancelled"}
=============================================================================
