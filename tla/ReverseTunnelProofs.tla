------------------------ MODULE ReverseTunnelProofs ------------------------
(***************************************************************************)
(* Proofs about the registry of reverse-tunnel listeners, for any number   *)
(* of requests, addresses and connections: the map and the listeners       *)
(* agree, and the idle test never stops a listener that a request waits    *)
(* for.                                                                    *)
(***************************************************************************)
EXTENDS ReverseTunnelServer, FiniteSetTheorems, TLAPS

USE SMTT(40), ZenonT(40), Z3T(40), SMTT(30), Z3T(30)

\* Requests that have not put a listener into the map.
Unborn(r) == pc[r] \in {"lookup", "bind", "create", "insert"}

\* A request that has bound nothing has no task; one that waits knows its
\* listener; and a task that is sending holds a connection.
TaskInv ==
  \A r \in Requests :
    /\ pc[r] \in {"lookup", "bind"} => task[r] = "none"
    /\ pc[r] \in {"insert", "recv"} => srv[r] \in Requests
    /\ task[r] = "send" => holding[r] \in 1 .. MaxCnx

\* An entry is that of a listener of its address, which was inserted; and a
\* listener that was told to stop was inserted and has left the map for good.
MapInv ==
  /\ \A a \in Addrs : servers[a] # NoServer =>
       BindAddr[servers[a]] = a /\ ~Unborn(servers[a])
  /\ \A s \in abort : ~Unborn(s) /\ servers[BindAddr[s]] # s

Inv == MapFollowsListeners /\ TaskInv /\ MapInv

\* Before the first request the map is empty and no task runs.
LEMMA InvInit == Init => Inv
<1> SUFFICES ASSUME Init PROVE Inv
  OBVIOUS
<1> USE RegistryAssumption
<1>1. TypeOK
  BY DEF Init, TypeOK
<1>2. MapFollowsListeners
  BY <1>1 DEF Init, MapFollowsListeners, Serving
<1>3. TaskInv /\ MapInv
  BY DEF Init, TaskInv, MapInv
<1> QED
  BY <1>2, <1>3 DEF Inv

\* Every variable keeps its type in a step of a request.
LEMMA RequestTypes ==
  ASSUME TypeOK, TaskInv, NEW r \in Requests, RequestStep(r) \/ Cancel(r)
  PROVE  TypeOK'
<1> USE RegistryAssumption
<1>1. CASE Lookup(r)
  <2>1. pc' \in [Requests -> {"lookup", "bind", "create", "insert", "recv", "got",
                             "failed", "cancelled"}]
    <3>1. pc' = [pc EXCEPT ![r] = "bind"] \/ pc' = [pc EXCEPT ![r] = "recv"]
      BY <1>1, ZenonT(40) DEF Lookup
    <3> QED
      BY <3>1, ZenonT(40) DEF TypeOK
  <2>2. srv' \in [Requests -> Requests \cup {NoServer}]
    BY <1>1, ZenonT(40) DEF TypeOK, Lookup
  <2>3. seen' \in [Requests -> Nat]
    <3>1. seen \in [Requests -> Nat] /\ servers[BindAddr[r]] \in Requests \cup {NoServer}
      BY DEF TypeOK
    <3>2. CASE seen' = seen
      BY <3>1, <3>2
    <3>3. CASE /\ servers[BindAddr[r]] # NoServer
               /\ seen' = [seen EXCEPT ![servers[BindAddr[r]]] = @ + 1]
      BY <3>1, <3>3
    <3> QED
      BY <1>1, <3>2, <3>3 DEF Lookup
  <2> QED
    BY <1>1, <2>1, <2>2, <2>3 DEF TypeOK, Lookup
<1>2. CASE Bind(r)
  BY <1>2, ZenonT(40) DEF TypeOK, Bind
<1>3. CASE BindErr(r) \/ Cancel(r)
  BY <1>3, ZenonT(40) DEF TypeOK, BindErr, Cancel
<1>4. CASE JoinOwn(r)
  BY <1>4 DEF TypeOK, JoinOwn
<1>5. CASE Insert(r)
  <2>1. servers' \in [Addrs -> Requests \cup {NoServer}] /\ abort' \in SUBSET Requests
    BY <1>5 DEF TypeOK, Insert
  <2>2. lateItem' \in SUBSET Requests
    BY <1>5 DEF TypeOK, Insert
  <2> QED
    BY <1>5, <2>1, <2>2 DEF TypeOK, Insert
<1>6. CASE Recv(r)
  <2> DEFINE q == queue[srv[r]]
  <2>1. srv[r] \in Requests /\ q \in Seq(1 .. MaxCnx) /\ q # << >>
    BY <1>6 DEF TypeOK, TaskInv, Recv
  <2>2. Head(q) \in 1 .. MaxCnx /\ Tail(q) \in Seq(1 .. MaxCnx)
    <3> HIDE DEF q
    <3> QED
      BY <2>1
  <2>3. got' \in [Requests -> 0 .. MaxCnx]
    <3>1. got \in [Requests -> 0 .. MaxCnx] /\ got' = [got EXCEPT ![r] = Head(q)]
      BY <1>6 DEF TypeOK, Recv
    <3>2. Head(q) \in 0 .. MaxCnx
      BY <2>2
    <3> QED
      BY <3>1, <3>2
  <2>4. queue' \in [Requests -> Seq(1 .. MaxCnx)]
    BY <1>6, <2>1, <2>2 DEF TypeOK, Recv
  <2> QED
    BY <1>6, <2>3, <2>4 DEF TypeOK, Recv
<1>7. CASE RecvErr(r)
  BY <1>7 DEF TypeOK, RecvErr
<1> QED
  BY <1>1, <1>2, <1>3, <1>4, <1>5, <1>6, <1>7 DEF RequestStep

\* And in a step of a listener task.
LEMMA TaskTypes ==
  ASSUME TypeOK, TaskInv, NEW s \in Requests, TaskStep(s) \/ Accept(s) \/ ListenerEnd(s)
  PROVE  TypeOK'
<1> USE RegistryAssumption
<1>1. CASE TaskStart(s) \/ ListenerEnd(s) \/ DropListener(s) \/ DropSender(s)
  BY <1>1 DEF TypeOK, TaskStart, ListenerEnd, DropListener, DropSender
<1>2. CASE Accept(s)
  BY <1>2 DEF TypeOK, Accept
<1>3. CASE SendCnx(s)
  <2>1. holding[s] \in 1 .. MaxCnx /\ queue[s] \in Seq(1 .. MaxCnx)
    BY <1>3 DEF TypeOK, TaskInv, SendCnx
  <2>2. Append(queue[s], holding[s]) \in Seq(1 .. MaxCnx)
    BY <2>1
  <2>3. queue' \in [Requests -> Seq(1 .. MaxCnx)]
    <3>1. queue' = queue \/ queue' = [queue EXCEPT ![s] = Append(queue[s], holding[s])]
      BY <1>3, ZenonT(40) DEF SendCnx
    <3> QED
      BY <2>2, <3>1, ZenonT(40) DEF TypeOK
  <2>4. holding' \in [Requests -> 0 .. MaxCnx]
    BY <1>3 DEF TypeOK, SendCnx
  <2> QED
    BY <1>3, <2>3, <2>4 DEF TypeOK, SendCnx
<1>4. CASE SendTimeout(s)
  BY <1>4 DEF TypeOK, SendTimeout
<1>5. CASE Tick(s)
  BY <1>5 DEF TypeOK, Tick
<1>6. CASE CountReceivers(s)
  BY <1>6 DEF TypeOK, CountReceivers
<1>7. CASE Aborted(s)
  BY <1>7 DEF TypeOK, Aborted
<1>8. CASE Unregister(s)
  BY <1>8 DEF TypeOK, Unregister
<1> QED
  BY <1>1, <1>2, <1>3, <1>4, <1>5, <1>6, <1>7, <1>8 DEF TaskStep

\* Every step keeps TaskInv: it is about the request, or the task, that moves.
LEMMA TaskInvStep ==
  ASSUME TypeOK, TaskInv, NEW r \in Requests,
         RequestStep(r) \/ Cancel(r) \/ TaskStep(r) \/ Accept(r) \/ ListenerEnd(r)
  PROVE  TaskInv'
<1> USE RegistryAssumption DEF TypeOK, TaskInv
<1>1. CASE Lookup(r)
  BY <1>1 DEF Lookup
<1>2. CASE Bind(r) \/ BindErr(r) \/ Cancel(r)
  BY <1>2 DEF Bind, BindErr, Cancel
<1>3. CASE JoinOwn(r) \/ Insert(r)
  BY <1>3 DEF JoinOwn, Insert
<1>4. CASE Recv(r) \/ RecvErr(r)
  BY <1>4 DEF Recv, RecvErr
<1>5. CASE TaskStart(r) \/ ListenerEnd(r) \/ DropListener(r) \/ DropSender(r)
  BY <1>5 DEF TaskStart, ListenerEnd, DropListener, DropSender
<1>6. CASE Accept(r)
  BY <1>6 DEF Accept
<1>7. CASE SendCnx(r) \/ SendTimeout(r) \/ Aborted(r)
  BY <1>7, ZenonT(40) DEF SendCnx, SendTimeout, Aborted
<1>8. CASE Tick(r) \/ CountReceivers(r) \/ Unregister(r)
  BY <1>8 DEF Tick, CountReceivers, Unregister
<1> QED
  BY <1>1, <1>2, <1>3, <1>4, <1>5, <1>6, <1>7, <1>8 DEF RequestStep, TaskStep

\* The map after a step that leaves it alone and ends no listener's clean-up.
LEMMA MapFrame ==
  ASSUME Inv, TypeOK', UNCHANGED <<servers, abort, lateItem>>,
         \A r \in Requests :
           /\ Unborn(r)' => Unborn(r)
           /\ Serving(r)' => Serving(r) \/ pc'[r] \in {"create", "insert"}
           /\ pc[r] \in {"create", "insert"} => pc'[r] \in {"create", "insert"}
           /\ CleanedUp(r)' => CleanedUp(r) \/ r \in abort
  PROVE  MapFollowsListeners' /\ MapInv'
<1> USE RegistryAssumption
<1>1. ASSUME NEW s \in Requests, Serving(s)', s \notin abort'
      PROVE  servers'[BindAddr[s]] = s \/ pc'[s] \in {"create", "insert"}
  BY <1>1 DEF Inv, MapFollowsListeners
<1>2. ASSUME NEW a \in Addrs, servers'[a] # NoServer, CleanedUp(servers[a])'
      PROVE  servers'[a] \in lateItem'
  <2>1. servers[a] \in Requests /\ BindAddr[servers[a]] = a /\ servers[a] \notin abort
    BY <1>2 DEF Inv, MapFollowsListeners, TypeOK, MapInv
  <2>2. CleanedUp(servers[a])
    BY <1>2, <2>1
  <2> QED
    BY <1>2, <2>2 DEF Inv, MapFollowsListeners
<1>3. MapFollowsListeners'
  BY <1>1, <1>2 DEF MapFollowsListeners
<1>4. MapInv'
  BY DEF Inv, MapFollowsListeners, TypeOK, MapInv, Unborn
<1> QED
  BY <1>3, <1>4

\* A listener is put into the map; the one it replaces is told to stop.
LEMMA InsertStep ==
  ASSUME Inv, TypeOK', NEW r \in Requests, Insert(r)
  PROVE  MapFollowsListeners' /\ MapInv'
<1> USE RegistryAssumption
<1>1. /\ pc[r] = "insert" /\ pc' = [pc EXCEPT ![r] = "recv"]
      /\ servers' = [servers EXCEPT ![BindAddr[r]] = r]
      /\ abort' = abort \cup ({servers[BindAddr[r]]} \ {NoServer})
      /\ lateItem' = IF CleanedUp(r) THEN lateItem \cup {r} ELSE lateItem
      /\ task' = task
  BY DEF Insert
<1>2. /\ BindAddr \in [Requests -> Addrs] /\ servers \in [Addrs -> Requests \cup {NoServer}]
      /\ pc \in [Requests -> {"lookup", "bind", "create", "insert", "recv", "got",
                              "failed", "cancelled"}]
      /\ abort \in SUBSET Requests
  BY DEF Inv, MapFollowsListeners, TypeOK
<1>3. \A s \in Requests : Unborn(s)' <=> Unborn(s) /\ s # r
  BY <1>1, <1>2 DEF Unborn
<1>4. ASSUME NEW s \in Requests, Serving(s)', s \notin abort'
      PROVE  servers'[BindAddr[s]] = s \/ pc'[s] \in {"create", "insert"}
  BY <1>1, <1>2, <1>4 DEF Inv, MapFollowsListeners, Serving
<1>5. ASSUME NEW a \in Addrs, servers'[a] # NoServer, CleanedUp(servers[a])'
      PROVE  servers'[a] \in lateItem'
  BY <1>1, <1>2, <1>5 DEF Inv, MapFollowsListeners, CleanedUp
<1>6. ASSUME NEW a \in Addrs, servers'[a] # NoServer
      PROVE  BindAddr[servers'[a]] = a /\ ~Unborn(servers[a])'
  BY <1>1, <1>2, <1>3, <1>6 DEF Inv, MapInv
<1>7. ASSUME NEW s \in abort' PROVE ~Unborn(s)' /\ servers'[BindAddr[s]] # s
  <2>1. Unborn(r) /\ r \notin abort
    BY <1>1, <1>2 DEF Inv, MapInv, Unborn
  <2>2. CASE s \in abort
    BY <1>1, <1>2, <1>3, <2>1, <2>2 DEF Inv, MapInv
  <2>3. CASE s = servers[BindAddr[r]] /\ s # NoServer
    <3>1. s \in Requests /\ BindAddr[s] = BindAddr[r] /\ ~Unborn(s)
      BY <1>2, <2>3 DEF Inv, MapInv
    <3> QED
      BY <1>1, <1>2, <1>3, <2>1, <3>1
  <2> QED
    BY <1>1, <1>7, <2>2, <2>3
<1>8. MapFollowsListeners'
  BY <1>4, <1>5 DEF MapFollowsListeners
<1>9. MapInv'
  BY <1>6, <1>7 DEF MapInv
<1> QED
  BY <1>8, <1>9

\* The clean-up of a listener removes the entry of its address; the listener
\* that was there, its own or another, is told to stop.
LEMMA UnregisterStep ==
  ASSUME Inv, TypeOK', NEW t \in Requests, Unregister(t)
  PROVE  MapFollowsListeners' /\ MapInv'
<1> USE RegistryAssumption
<1>1. /\ task[t] = "unbound" /\ task' = [task EXCEPT ![t] = "removed"]
      /\ servers' = [servers EXCEPT ![BindAddr[t]] = NoServer]
      /\ abort' = abort \cup ({servers[BindAddr[t]]} \ {NoServer})
      /\ pc' = pc /\ lateItem' = lateItem
  BY DEF Unregister
<1>2. /\ BindAddr \in [Requests -> Addrs] /\ servers \in [Addrs -> Requests \cup {NoServer}]
      /\ abort \in SUBSET Requests
      /\ task \in [Requests -> {"none", "spawned", "select", "tick", "send",
                                "stopping", "unbound", "removed", "done"}]
  BY DEF Inv, MapFollowsListeners, TypeOK
<1>3. \A s \in Requests : /\ Unborn(s)' <=> Unborn(s)
                          /\ Serving(s)' => Serving(s)
                          /\ CleanedUp(s)' => CleanedUp(s) \/ s = t
  BY <1>1, <1>2 DEF Unborn, Serving, CleanedUp
<1>4. ASSUME NEW s \in Requests, Serving(s)', s \notin abort'
      PROVE  servers'[BindAddr[s]] = s \/ pc'[s] \in {"create", "insert"}
  <2>1. Serving(s) /\ s \notin abort /\ s # servers[BindAddr[t]]
    BY <1>1, <1>3, <1>4
  <2> QED
    BY <1>1, <1>2, <2>1 DEF Inv, MapFollowsListeners
<1>5. ASSUME NEW a \in Addrs, servers'[a] # NoServer, CleanedUp(servers[a])'
      PROVE  servers'[a] \in lateItem'
  <2>1. a # BindAddr[t] /\ servers'[a] = servers[a] /\ servers[a] \in Requests
    BY <1>1, <1>2, <1>5
  <2>2. servers[a] # t
    BY <2>1 DEF Inv, MapInv
  <2>3. CleanedUp(servers[a])
    BY <1>3, <1>5, <2>1, <2>2 DEF CleanedUp
  <2> QED
    BY <1>1, <1>5, <2>1, <2>3 DEF Inv, MapFollowsListeners
<1>6. ASSUME NEW a \in Addrs, servers'[a] # NoServer
      PROVE  BindAddr[servers'[a]] = a /\ ~Unborn(servers[a])'
  BY <1>1, <1>2, <1>3, <1>6 DEF Inv, MapInv, Unborn
<1>7. ASSUME NEW s \in abort' PROVE ~Unborn(s)' /\ servers'[BindAddr[s]] # s
  BY <1>1, <1>2, <1>3, <1>7 DEF Inv, MapInv
<1>8. MapFollowsListeners'
  BY <1>4, <1>5 DEF MapFollowsListeners
<1>9. MapInv'
  BY <1>6, <1>7 DEF MapInv
<1> QED
  BY <1>8, <1>9

\* Every step keeps the invariant.
LEMMA InvStep == Inv /\ [Next]_vars => Inv'
<1> SUFFICES ASSUME Inv, [Next]_vars PROVE Inv'
  OBVIOUS
<1> USE RegistryAssumption
<1>1. CASE UNCHANGED vars
  BY <1>1 DEF Inv, MapFollowsListeners, TypeOK, TaskInv, MapInv, Unborn, Serving,
     CleanedUp, vars
<1>2. ASSUME NEW r \in Requests,
             RequestStep(r) \/ Cancel(r) \/ TaskStep(r) \/ Accept(r) \/ ListenerEnd(r)
      PROVE  Inv'
  <2>1. TypeOK' /\ TaskInv'
    BY <1>2, RequestTypes, TaskTypes, TaskInvStep DEF Inv, MapFollowsListeners
  <2>2. CASE Insert(r) \/ Unregister(r)
    BY <2>1, <2>2, InsertStep, UnregisterStep DEF Inv
  <2>3. CASE ~Insert(r) /\ ~Unregister(r)
    <3> DEFINE Kept(s) ==
          /\ Unborn(s)' => Unborn(s)
          /\ Serving(s)' => Serving(s) \/ pc'[s] \in {"create", "insert"}
          /\ pc[s] \in {"create", "insert"} => pc'[s] \in {"create", "insert"}
          /\ CleanedUp(s)' => CleanedUp(s) \/ s \in abort
    <3>1. UNCHANGED <<servers, abort, lateItem>>
      BY <1>2, <2>3 DEF RequestStep, Lookup, Bind, BindErr, JoinOwn, Recv, RecvErr,
         Cancel, TaskStep, TaskStart, SendCnx, SendTimeout, Tick, CountReceivers,
         Aborted, DropListener, DropSender, Accept, ListenerEnd
    <3>2. ASSUME NEW s \in Requests, RequestStep(r) \/ Cancel(r) PROVE Kept(s)
      BY <2>3, <3>2
      DEF Inv, MapFollowsListeners, TypeOK, Unborn, Serving, CleanedUp,
         RequestStep, Lookup, Bind, BindErr, JoinOwn, Recv, RecvErr, Cancel
    <3>3. ASSUME NEW s \in Requests, TaskStep(r) \/ Accept(r) \/ ListenerEnd(r)
          PROVE  Kept(s)
      BY <2>3, <3>3
      DEF Inv, MapFollowsListeners, TypeOK, Unborn, Serving, CleanedUp,
         TaskStep, TaskStart, SendCnx, SendTimeout, Tick, CountReceivers, Aborted,
         DropListener, DropSender, Accept, ListenerEnd
    <3>4. MapFollowsListeners' /\ MapInv'
      BY <1>2, <2>1, <3>1, <3>2, <3>3, MapFrame, ZenonT(40)
    <3> QED
      BY <2>1, <3>4 DEF Inv
  <2> QED
    BY <2>2, <2>3
<1> QED
  BY <1>1, <1>2 DEF Next

\* It holds in every state.
LEMMA InvAlways == Spec => []Inv
  BY InvInit, InvStep, PTL DEF Spec

\* The map of reverse_tunnel.rs and its listeners agree, whatever the number of
\* requests, addresses and connections, and whether or not an address can be
\* bound twice.
THEOREM MapAndListenersAgree == Spec => []MapFollowsListeners
<1>1. Inv => MapFollowsListeners
  BY DEF Inv
<1> QED
  BY InvAlways, <1>1, PTL

\* The idle test of a listener task stops it only if no request waits for one
\* of its connections: the one receiver that the test leaves out of account is
\* there, because the listener is still in the map.
THEOREM IdleStopsSpareWaiting == Spec => IdleStopSparesWaiting
<1> DEFINE Spared ==
      \A s \in Requests : task[s] = "tick" /\ task'[s] = "stopping"
        => Waiting(s) = {} \/ s \in abort
<1>1. Inv /\ [Next]_vars => [Spared]_vars
  <2> SUFFICES ASSUME Inv, Next, NEW s \in Requests,
                      task[s] = "tick", task'[s] = "stopping", s \notin abort
               PROVE  Waiting(s) = {}
    OBVIOUS
  <2>1. ItemAlive(s)
    BY DEF Inv, MapFollowsListeners, Serving, ItemAlive
  <2>2. ReceiverCount(s) <= 1
    BY ZenonT(40)
    DEF Inv, MapFollowsListeners, TypeOK, Next, RequestStep, Lookup, Bind, BindErr,
       JoinOwn, Insert, Recv, RecvErr, Cancel, TaskStep, TaskStart, SendCnx,
       SendTimeout, Tick, CountReceivers, Aborted, DropListener, Unregister,
       DropSender, Accept, ListenerEnd
  <2>3. IsFiniteSet(Waiting(s))
    BY RegistryAssumption, FS_Subset DEF Waiting
  <2>4. Cardinality(Waiting(s)) \in Nat
    BY <2>3, FS_CardinalityType
  <2>5. Cardinality(Waiting(s)) = 0
    BY <2>1, <2>2, <2>4 DEF ReceiverCount
  <2> QED
    BY <2>3, <2>5, FS_EmptySet
<1> QED
  BY InvAlways, <1>1, PTL DEF Spec, IdleStopSparesWaiting
=============================================================================
