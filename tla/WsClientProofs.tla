--------------------------- MODULE WsClientProofs ---------------------------
(***************************************************************************)
(* pooled_cnx.take().unwrap() of the client's transports never panics, for *)
(* any number of tasks, of connections in the pool, of crashes and losses. *)
(***************************************************************************)
EXTENDS WsClient, TLAPS

USE SMTT(40), ZenonT(40), Z3T(40), SMTT(30), Z3T(30)

SlotTypes == [at : {"free", "idle", "used"}, full : BOOLEAN, alive : BOOLEAN]
Points == {"absent", "get", "build", "handshake", "connector", "sleep",
           "tunnel", "dropped", "lost", "rejected", "panic"}
InConnect(p) == p \in {"build", "handshake"}

\* A connection in the pool has its stream, and so has one whose request is
\* being built; a task in connect has a connection that is in use, and no
\* other task has the same.
PoolInv ==
  /\ \A s \in Slots : slot[s].at = "idle" => slot[s].full = TRUE
  /\ \A t \in Tasks : cnx[t] # NoCnx => slot[cnx[t]].at = "used"
  /\ \A t \in Tasks : pc[t] = "build" => slot[cnx[t]].full = TRUE
  /\ \A t, u \in Tasks : cnx[t] # NoCnx /\ cnx[t] = cnx[u] => t = u

Types ==
  /\ up \in BOOLEAN
  /\ slot \in [Slots -> SlotTypes]
  /\ pc \in [Tasks -> Points]
  /\ cnx \in [Tasks -> Slots \cup {NoCnx}]
  /\ delay \in 0 .. (MaxBackoff + 1) /\ wait \in 0 .. (MaxBackoff + 1)

TaskInv ==
  \A t \in Tasks : pc[t] # "panic" /\ (InConnect(pc[t]) <=> cnx[t] # NoCnx)

Inv == Types /\ TaskInv /\ PoolInv

-----------------------------------------------------------------------------
LEMMA InvInit ==
  ASSUME Init
  PROVE  Inv
<1>1. Free \in SlotTypes
  BY DEF Free, SlotTypes
<1>2. Types
  BY <1>1, ClientAssumption DEF Init, Types, Points
<1>3. TaskInv
  BY DEF Init, TaskInv, InConnect
<1>4. PoolInv
  BY DEF Init, PoolInv, Free
<1> QED BY <1>2, <1>3, <1>4 DEF Inv

\* new_reconnect_delay stays below the maximum.
LEMMA DelayType ==
  ASSUME Types
  PROVE  NextDelay \in 0 .. (MaxBackoff + 1)
BY ClientAssumption DEF Types, NextDelay

\* A step that takes nothing from the pool and gives nothing back: it may
\* move tasks that are not in connect, change connections nobody uses, and
\* break any.
LEMMA Frame ==
  ASSUME Inv, Types', cnx' = cnx,
         \A t \in Tasks : pc'[t] = pc[t] \/ (/\ ~InConnect(pc[t])
                                             /\ ~InConnect(pc'[t])
                                             /\ pc'[t] # "panic"),
         \A s \in Slots :
           /\ slot[s].at = "used" =>
                slot'[s].at = "used" /\ slot'[s].full = slot[s].full
           /\ slot'[s].at = "idle" => slot'[s].full = TRUE
  PROVE  Inv'
<1>1. TaskInv'
  BY DEF Inv, TaskInv, InConnect
<1>2. \A t \in Tasks : cnx[t] # NoCnx => cnx[t] \in Slots
  BY DEF Inv, Types
<1>3. \A t \in Tasks : cnx'[t] # NoCnx => slot'[cnx'[t]].at = "used"
  BY <1>2 DEF Inv, PoolInv
<1>4. \A t \in Tasks : pc'[t] = "build" => slot'[cnx'[t]].full = TRUE
  <2>1. \A t \in Tasks : pc'[t] = "build" => pc[t] = "build"
    BY DEF InConnect
  <2>2. \A t \in Tasks : pc[t] = "build" => cnx[t] # NoCnx
    BY DEF Inv, TaskInv, InConnect
  <2> QED BY <1>2, <2>1, <2>2 DEF Inv, PoolInv
<1>5. PoolInv'
  BY <1>3, <1>4 DEF Inv, PoolInv
<1> QED BY <1>1, <1>5 DEF Inv

\* The server, the network and the pool.
LEMMA OutsideStep ==
  ASSUME Inv,
         \/ ServerDown \/ ServerUp
         \/ \E s \in Slots : LoseConnection(s) \/ Replenish(s) \/ Expire(s)
  PROVE  Inv'
<1> USE DEF envVars, loopVars
<1>1. /\ pc' = pc /\ cnx' = cnx /\ delay' = delay /\ wait' = wait
      /\ up' \in BOOLEAN
  BY ZenonT(40)
  DEF Inv, Types, ServerDown, ServerUp, LoseConnection, Replenish, Expire
<1>2. slot \in [Slots -> SlotTypes]
  BY DEF Inv, Types
<1> DEFINE Kept ==
             \A s \in Slots :
               /\ slot[s].at = "used" =>
                    slot'[s].at = "used" /\ slot'[s].full = slot[s].full
               /\ slot'[s].at = "idle" => slot'[s].full = TRUE
<1>3. slot' \in [Slots -> SlotTypes] /\ Kept
  <2>1. CASE ServerDown
    BY <1>2, <2>1, ZenonT(40) DEF ServerDown, SlotTypes, Inv, PoolInv
  <2>2. CASE ServerUp
    BY <1>2, <2>2 DEF ServerUp, Inv, PoolInv
  <2>3. ASSUME NEW r \in Slots, LoseConnection(r)
        PROVE  slot' \in [Slots -> SlotTypes] /\ Kept
    BY <1>2, <2>3, ZenonT(40) DEF LoseConnection, SlotTypes, Inv, PoolInv
  <2>4. ASSUME NEW r \in Slots, Replenish(r)
        PROVE  slot' \in [Slots -> SlotTypes] /\ Kept
    BY <1>2, <2>4, ZenonT(40)
    DEF Replenish, Unused, Connected, SlotTypes, Inv, PoolInv
  <2>5. ASSUME NEW r \in Slots, Expire(r)
        PROVE  slot' \in [Slots -> SlotTypes] /\ Kept
    BY <1>2, <2>5, ZenonT(40) DEF Expire, Free, SlotTypes, Inv, PoolInv
  <2> HIDE DEF Kept
  <2> QED BY <2>1, <2>2, <2>3, <2>4, <2>5, ZenonT(40)
<1>4. Types'
  BY <1>1, <1>3 DEF Inv, Types
<1> QED BY <1>1, <1>3, <1>4, Frame, ZenonT(40)

\* The loops of run_tunnel and run_reverse_tunnel.
LEMMA LoopStep ==
  ASSUME Inv,
         \/ \E t \in Fwd : LocalConnection(t)
         \/ ConnectorDone \/ SleepOver
  PROVE  Inv'
<1> USE DEF envVars, loopVars
<1>1. /\ slot' = slot /\ cnx' = cnx /\ delay' = delay /\ up' = up
      /\ wait' \in {wait, 0}
  BY DEF LocalConnection, ConnectorDone, SleepOver
<1>2. PICK t \in Tasks : /\ pc[t] \in {"absent", "connector", "sleep"}
                         /\ pc' = [pc EXCEPT ![t] = "get"]
  BY DEF LocalConnection, ConnectorDone, SleepOver, Tasks
<1>3. pc \in [Tasks -> Points] /\ pc' \in [Tasks -> Points]
  BY <1>2 DEF Inv, Types, Points
<1>4. Types'
  BY <1>1, <1>3, ClientAssumption DEF Inv, Types
<1>5. \A u \in Tasks : pc'[u] = pc[u] \/ (/\ ~InConnect(pc[u])
                                          /\ ~InConnect(pc'[u])
                                          /\ pc'[u] # "panic")
  BY <1>2, <1>3 DEF InConnect
<1> QED BY <1>1, <1>4, <1>5, Frame, ZenonT(40) DEF Inv, PoolInv

\* cnx_pool.get(): the connection was idle or is new, so it has its stream
\* and no other task has it.
LEMMA GetStep ==
  ASSUME Inv, NEW t \in Tasks, Get(t)
  PROVE  Inv'
<1> USE DEF envVars, loopVars
<1>1. PICK s \in Slots :
        /\ slot[s].at # "used"
        /\ \/ s \in Idle /\ slot' = [slot EXCEPT ![s].at = "used"]
           \/ slot' = [slot EXCEPT ![s] = Connected("used")]
        /\ cnx' = [cnx EXCEPT ![t] = s]
  BY ZenonT(40) DEF Get, Idle, Unused
<1>2. /\ pc[t] = "get" /\ pc' = [pc EXCEPT ![t] = "build"]
      /\ up' = up /\ delay' = delay /\ wait' = wait
  BY DEF Get
<1>3. /\ slot \in [Slots -> SlotTypes] /\ pc \in [Tasks -> Points]
      /\ cnx \in [Tasks -> Slots \cup {NoCnx}]
  BY DEF Inv, Types
<1>4. slot[s].at = "idle" => slot[s].full = TRUE
  BY DEF Inv, PoolInv
<1>5. /\ slot' \in [Slots -> SlotTypes]
      /\ slot'[s].at = "used" /\ slot'[s].full = TRUE
      /\ \A r \in Slots : r # s => slot'[r] = slot[r]
  <2>1. CASE s \in Idle /\ slot' = [slot EXCEPT ![s].at = "used"]
    BY <1>3, <1>4, <2>1, ZenonT(40) DEF Idle, SlotTypes
  <2>2. CASE slot' = [slot EXCEPT ![s] = Connected("used")]
    BY <1>3, <2>2, ZenonT(40) DEF Connected, SlotTypes
  <2> QED BY <1>1, <2>1, <2>2, ZenonT(40)
<1>6. /\ pc' \in [Tasks -> Points] /\ pc'[t] = "build"
      /\ \A u \in Tasks : u # t => pc'[u] = pc[u]
  BY <1>2, <1>3 DEF Points
<1>7. /\ cnx' \in [Tasks -> Slots \cup {NoCnx}] /\ cnx'[t] = s
      /\ \A u \in Tasks : u # t => cnx'[u] = cnx[u]
  BY <1>1, <1>3
<1>8. s # NoCnx
  BY ClientAssumption
<1>9. \A u \in Tasks : cnx[u] # NoCnx => cnx[u] \in Slots /\ cnx[u] # s
  BY <1>1, <1>3 DEF Inv, PoolInv
<1>10. Types'
  BY <1>2, <1>5, <1>6, <1>7 DEF Inv, Types
<1>11. TaskInv'
  BY <1>6, <1>7, <1>8 DEF Inv, TaskInv, InConnect
<1>12. PoolInv'
  <2>1. \A r \in Slots : slot'[r].at = "idle" => slot'[r].full = TRUE
    BY <1>5 DEF Inv, PoolInv
  <2>2. \A u \in Tasks : cnx'[u] # NoCnx => slot'[cnx'[u]].at = "used"
    BY <1>5, <1>7, <1>9 DEF Inv, PoolInv
  <2>3. \A u \in Tasks : pc'[u] = "build" => slot'[cnx'[u]].full = TRUE
    <3>1. \A u \in Tasks : pc[u] = "build" => cnx[u] # NoCnx
      BY DEF Inv, TaskInv, InConnect
    <3> QED BY <1>5, <1>6, <1>7, <1>9, <3>1 DEF Inv, PoolInv
  <2>4. \A u, v \in Tasks : cnx'[u] # NoCnx /\ cnx'[u] = cnx'[v] => u = v
    BY <1>7, <1>8, <1>9 DEF Inv, PoolInv
  <2> QED BY <2>1, <2>2, <2>3, <2>4 DEF PoolInv
<1> QED BY <1>10, <1>11, <1>12 DEF Inv

\* The stream is there, and only this task has the connection it leaves.
LEMMA TakeStep ==
  ASSUME Inv, NEW t \in Tasks, TakeStream(t)
  PROVE  Inv'
<1> USE DEF envVars, loopVars
<1>1. /\ slot \in [Slots -> SlotTypes] /\ pc \in [Tasks -> Points]
      /\ cnx \in [Tasks -> Slots \cup {NoCnx}]
  BY DEF Inv, Types
<1>2. pc[t] = "build" /\ cnx[t] # NoCnx /\ cnx[t] \in Slots
  BY <1>1 DEF TakeStream, Inv, TaskInv, InConnect
<1>3. slot[cnx[t]].full = TRUE /\ slot[cnx[t]].at = "used"
  BY <1>2 DEF Inv, PoolInv
<1>4. /\ pc' = [pc EXCEPT ![t] = "handshake"]
      /\ slot' = [slot EXCEPT ![cnx[t]].full = FALSE]
      /\ cnx' = cnx /\ up' = up /\ delay' = delay /\ wait' = wait
  BY <1>3, ZenonT(40) DEF TakeStream
<1>5. /\ slot' \in [Slots -> SlotTypes] /\ slot'[cnx[t]].at = "used"
      /\ \A r \in Slots : r # cnx[t] => slot'[r] = slot[r]
  BY <1>1, <1>2, <1>3, <1>4, ZenonT(40) DEF SlotTypes
<1>6. /\ pc' \in [Tasks -> Points] /\ pc'[t] = "handshake"
      /\ \A u \in Tasks : u # t => pc'[u] = pc[u]
  BY <1>1, <1>4 DEF Points
<1>7. Types'
  BY <1>4, <1>5, <1>6 DEF Inv, Types
<1>8. TaskInv'
  BY <1>2, <1>4, <1>6 DEF Inv, TaskInv, InConnect
<1>9. PoolInv'
  <2>1. \A r \in Slots : slot'[r].at = "idle" => slot'[r].full = TRUE
    BY <1>5 DEF Inv, PoolInv
  <2>2. \A u \in Tasks : cnx'[u] # NoCnx => slot'[cnx'[u]].at = "used"
    BY <1>1, <1>4, <1>5 DEF Inv, PoolInv
  <2>3. \A u \in Tasks : pc'[u] = "build" => slot'[cnx'[u]].full = TRUE
    <3>1. \A u \in Tasks : pc[u] = "build" => cnx[u] # NoCnx /\ cnx[u] \in Slots
      BY <1>1 DEF Inv, TaskInv, InConnect
    <3>2. \A u \in Tasks : u # t /\ cnx[u] # NoCnx => cnx[u] # cnx[t]
      BY DEF Inv, PoolInv
    <3> QED BY <1>4, <1>5, <1>6, <3>1, <3>2 DEF Inv, PoolInv
  <2>4. \A u, v \in Tasks : cnx'[u] # NoCnx /\ cnx'[u] = cnx'[v] => u = v
    BY <1>4 DEF Inv, PoolInv
  <2> QED BY <2>1, <2>2, <2>3, <2>4 DEF PoolInv
<1> QED BY <1>7, <1>8, <1>9 DEF Inv

\* connect returns: the connection goes back if its stream is there.
LEMMA EndStep ==
  ASSUME Inv, NEW t \in Tasks, InConnect(pc[t]), EndConnect(t),
         NEW p \in Points, ~InConnect(p), p # "panic",
         pc' = [pc EXCEPT ![t] = p],
         delay' \in 0 .. (MaxBackoff + 1), wait' \in 0 .. (MaxBackoff + 1)
  PROVE  Inv'
<1> USE DEF envVars
<1>1. /\ slot \in [Slots -> SlotTypes] /\ pc \in [Tasks -> Points]
      /\ cnx \in [Tasks -> Slots \cup {NoCnx}]
  BY DEF Inv, Types
<1>2. cnx[t] # NoCnx /\ cnx[t] \in Slots
  BY <1>1 DEF Inv, TaskInv
<1>3. /\ slot' = [slot EXCEPT ![cnx[t]] = GiveBack(slot[cnx[t]])]
      /\ cnx' = [cnx EXCEPT ![t] = NoCnx] /\ up' = up
  BY <1>1, <1>2 DEF EndConnect
<1> DEFINE back == GiveBack(slot[cnx[t]])
<1>4. back \in SlotTypes /\ (back.at = "idle" => back.full = TRUE)
  <2>1. slot[cnx[t]] \in SlotTypes
    BY <1>1, <1>2
  <2>2. CASE slot[cnx[t]].full = TRUE
    BY <2>1, <2>2, ZenonT(40) DEF GiveBack, has_broken, SlotTypes
  <2>3. CASE slot[cnx[t]].full = FALSE
    BY <2>1, <2>3, ZenonT(40) DEF GiveBack, has_broken, SlotTypes, Free
  <2> QED BY <2>1, <2>2, <2>3, ZenonT(40) DEF SlotTypes
<1> HIDE DEF back
<1>5. /\ slot' \in [Slots -> SlotTypes] /\ slot'[cnx[t]] = back
      /\ \A r \in Slots : r # cnx[t] => slot'[r] = slot[r]
  BY <1>1, <1>2, <1>3, <1>4, ZenonT(40) DEF back
<1>6. /\ pc' \in [Tasks -> Points] /\ pc'[t] = p
      /\ \A u \in Tasks : u # t => pc'[u] = pc[u]
  BY <1>1
<1>7. /\ cnx' \in [Tasks -> Slots \cup {NoCnx}] /\ cnx'[t] = NoCnx
      /\ \A u \in Tasks : u # t => cnx'[u] = cnx[u]
  BY <1>1, <1>3
<1>8. Types'
  BY <1>3, <1>5, <1>6, <1>7 DEF Inv, Types
<1>9. TaskInv'
  BY <1>6, <1>7 DEF Inv, TaskInv
<1>10. PoolInv'
  <2>0. \A u \in Tasks : cnx'[u] # NoCnx =>
          /\ u # t /\ cnx'[u] = cnx[u] /\ cnx[u] \in Slots
          /\ cnx[u] # cnx[t] /\ slot'[cnx[u]] = slot[cnx[u]]
    BY <1>1, <1>2, <1>5, <1>7 DEF Inv, PoolInv
  <2>1. \A r \in Slots : slot'[r].at = "idle" => slot'[r].full = TRUE
    BY <1>4, <1>5 DEF Inv, PoolInv
  <2>2. \A u \in Tasks : cnx'[u] # NoCnx => slot'[cnx'[u]].at = "used"
    BY <2>0 DEF Inv, PoolInv
  <2>3. \A u \in Tasks : pc'[u] = "build" => slot'[cnx'[u]].full = TRUE
    <3>1. \A u \in Tasks : pc'[u] = "build" => cnx'[u] # NoCnx /\ pc[u] = "build"
      BY <1>6, <1>9 DEF TaskInv, InConnect
    <3> QED BY <2>0, <3>1 DEF Inv, PoolInv
  <2>4. \A u, v \in Tasks : cnx'[u] # NoCnx /\ cnx'[u] = cnx'[v] => u = v
    BY <2>0 DEF Inv, PoolInv
  <2> QED BY <2>1, <2>2, <2>3, <2>4 DEF PoolInv
<1> QED BY <1>8, <1>9, <1>10 DEF Inv

\* What an error does to the task and to the delays.
LEMMA FailedMoves ==
  ASSUME Inv, NEW t \in Tasks, NEW how \in {"dropped", "rejected", "lost"},
         Failed(t, how)
  PROVE  /\ \E p \in {"sleep", how} : pc' = [pc EXCEPT ![t] = p]
         /\ delay' \in 0 .. (MaxBackoff + 1) /\ wait' \in 0 .. (MaxBackoff + 1)
<1>1. /\ NextDelay \in 0 .. (MaxBackoff + 1)
      /\ delay \in 0 .. (MaxBackoff + 1) /\ wait \in 0 .. (MaxBackoff + 1)
  BY DelayType DEF Inv, Types
<1>2. CASE t = Rev
  BY <1>1, <1>2 DEF Failed
<1>3. CASE t # Rev
  BY <1>1, <1>3 DEF Failed, loopVars
<1> QED BY <1>2, <1>3

\* No connection to be had: nothing was taken.
LEMMA GetFailsStep ==
  ASSUME Inv, NEW t \in Tasks, GetFails(t)
  PROVE  Inv'
<1>1. /\ pc[t] = "get" /\ Failed(t, "dropped")
      /\ slot' = slot /\ cnx' = cnx /\ up' = up
  BY DEF GetFails, envVars
<1>2. /\ \E p \in {"sleep", "dropped"} : pc' = [pc EXCEPT ![t] = p]
      /\ delay' \in 0 .. (MaxBackoff + 1) /\ wait' \in 0 .. (MaxBackoff + 1)
  BY <1>1, FailedMoves
<1>3. PICK p \in {"sleep", "dropped"} : pc' = [pc EXCEPT ![t] = p]
  BY <1>2, ZenonT(40)
<1>4. pc \in [Tasks -> Points] /\ pc' \in [Tasks -> Points]
  BY <1>3 DEF Inv, Types, Points
<1>5. Types'
  BY <1>1, <1>2, <1>4 DEF Inv, Types
<1>6. \A u \in Tasks : pc'[u] = pc[u] \/ (/\ ~InConnect(pc[u])
                                          /\ ~InConnect(pc'[u])
                                          /\ pc'[u] # "panic")
  BY <1>1, <1>3, <1>4 DEF InConnect
<1> QED BY <1>1, <1>5, <1>6, Frame, ZenonT(40) DEF Inv, PoolInv

\* connect fails or succeeds with a connection in hand.
LEMMA ReturnStep ==
  ASSUME Inv, NEW t \in Tasks,
         BuildFails(t) \/ HandshakeFails(t) \/ Refused(t) \/ Accepted(t)
  PROVE  Inv'
<1>1. InConnect(pc[t]) /\ EndConnect(t)
  BY DEF BuildFails, HandshakeFails, Refused, Accepted, InConnect
<1>2. CASE BuildFails(t) \/ HandshakeFails(t) \/ Refused(t)
  <2>1. PICK how \in {"rejected", "lost"} : Failed(t, how)
    BY <1>2 DEF BuildFails, HandshakeFails, Refused
  <2>2. /\ \E p \in {"sleep", how} : pc' = [pc EXCEPT ![t] = p]
        /\ delay' \in 0 .. (MaxBackoff + 1) /\ wait' \in 0 .. (MaxBackoff + 1)
    BY <2>1, FailedMoves
  <2>3. PICK p \in {"sleep", how} : pc' = [pc EXCEPT ![t] = p]
    BY <2>2, ZenonT(40)
  <2>4. p \in Points /\ ~InConnect(p) /\ p # "panic"
    BY <2>1, <2>3 DEF Points, InConnect
  <2> QED BY <1>1, <2>2, <2>3, <2>4, EndStep, ZenonT(40)
<1>3. CASE Accepted(t)
  <2>1. PICK p \in {"connector", "tunnel"} : pc' = [pc EXCEPT ![t] = p]
    BY <1>3, ZenonT(40) DEF Accepted
  <2>2. p \in Points /\ ~InConnect(p) /\ p # "panic"
    BY <2>1 DEF Points, InConnect
  <2>3. delay' \in 0 .. (MaxBackoff + 1) /\ wait' \in 0 .. (MaxBackoff + 1)
    BY <1>3, ClientAssumption DEF Accepted, Inv, Types
  <2> QED BY <1>1, <2>1, <2>2, <2>3, EndStep, ZenonT(40)
<1> QED BY <1>2, <1>3

LEMMA InvStep ==
  ASSUME Inv, [Next]_vars
  PROVE  Inv'
<1>1. CASE \/ ServerDown \/ ServerUp
           \/ \E s \in Slots : LoseConnection(s) \/ Replenish(s) \/ Expire(s)
  BY <1>1, OutsideStep
<1>2. CASE \/ \E t \in Fwd : LocalConnection(t)
           \/ ConnectorDone \/ SleepOver
  BY <1>2, LoopStep
<1>3. ASSUME NEW t \in Tasks, Step(t) \/ Answer(t)
      PROVE  Inv'
  <2>1. CASE Get(t) BY <2>1, GetStep
  <2>2. CASE GetFails(t) BY <2>2, GetFailsStep
  <2>3. CASE TakeStream(t) BY <2>3, TakeStep
  <2>4. CASE BuildFails(t) \/ HandshakeFails(t) \/ Refused(t) \/ Accepted(t)
    BY <2>4, ReturnStep
  <2> QED BY <1>3, <2>1, <2>2, <2>3, <2>4 DEF Step, Answer
<1>4. CASE UNCHANGED vars
  BY <1>4 DEF vars, Inv, Types, TaskInv, PoolInv
<1> QED BY <1>1, <1>2, <1>3, <1>4 DEF Next

-----------------------------------------------------------------------------
\* pooled_cnx.take().unwrap() never panics: has_broken keeps a connection
\* whose stream was taken out of the pool, whichever way connect ends, and
\* no connection is with two tasks.
THEOREM UnwrapNeverPanics == Spec => []StreamTakenOnce
<1>1. Init => Inv
  BY InvInit
<1>2. Inv /\ [Next]_vars => Inv'
  BY InvStep
<1>3. Inv => StreamTakenOnce
  BY DEF Inv, Types, TaskInv, StreamTakenOnce, TypeOK, SlotTypes, Points, InConnect
<1> QED BY <1>1, <1>2, <1>3, PTL DEF Spec
=============================================================================
