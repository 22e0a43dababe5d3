------------------------------ MODULE Startup ------------------------------
(***************************************************************************)
(* The calls that run wstunnel (run_client and run_server of lib.rs), the  *)
(* executors they are given (executor.rs) and the tunnels over the         *)
(* standard input and output (tunnel/listeners/stdio.rs, tunnel_stdio.rs). *)
(*                                                                         *)
(* The command line makes one call with the runtime as its executor; a     *)
(* user of the library may make several with clones of one executor.  What *)
(* a tunnel does once it runs is modelled elsewhere: here it accepts a     *)
(* connection, which is a task and, once connected, a second one that      *)
(* forwards the local side, and it may end or panic.                       *)
(*                                                                         *)
(* External: tokio.  Aborting a task is not immediate: it runs on to its   *)
(* next await and may start other tasks before it is dropped.              *)
(***************************************************************************)
EXTENDS Naturals, Sequences

CONSTANTS
  Calls,     \* calls of run_client and run_server
  Programs   \* programs: [executor, args], where args gives each call its
             \* [command, tunnels], the tunnels in the order they are made

\* A program that makes fewer calls.
NoCall == [command |-> "none", tunnels |-> <<>>]

VARIABLES
  program,  \* the program
  pc,       \* [Calls -> control point of the call]
  tun,      \* [Calls -> state of each of its tunnels]
  task,     \* [Calls \X TaskNames -> state of the task]
  ended     \* std::process::exit was called

vars == <<program, pc, tun, task, ended>>

\* main runs the tunnels or the server; cnx and fwd are the two tasks of a
\* connection.
TaskNames == {"main", "cnx", "fwd"}

Init ==
  /\ program \in Programs
  /\ pc = [c \in Calls |-> IF program.args[c] = NoCall THEN "ok" ELSE "start"]
  /\ tun = [c \in Calls |-> [k \in DOMAIN program.args[c].tunnels |-> "given"]]
  /\ task = [c \in Calls |-> [n \in TaskNames |-> "none"]]
  /\ ended = FALSE

Kind(c, k) == program.args[c].tunnels[k]
Stdio == {"stdio", "tunnel"}
Over(c) == pc[c] \in {"ok", "failed"}
Alive(c, n) == task[c][n] \in {"live", "aborting"}

-----------------------------------------------------------------------------
(***************************************************************************)
(* Executors                                                               *)
(***************************************************************************)

\* The set of tasks is freed with the last clone of its executor: each call
\* has one until it returns.
Freed == program.executor = "join set" /\ \A c \in Calls : Over(c)

\* Mutant of Spawned: without a set the task goes to the runtime.
SpawnedAnyway == "live"

\* What becomes of a task given to spawn: without a set, it is dropped.
Spawned == IF Freed THEN "gone" ELSE "live"

\* The state of a task after abort_all, which the drop of any clone calls.
AbortAll(state) ==
  IF program.executor = "join set" /\ state = "live" THEN "aborting" ELSE state

\* An aborted task reaches an await and is dropped.
Aborted(c, n) ==
  /\ task[c][n] = "aborting"
  /\ task' = [task EXCEPT ![c][n] = "gone"]
  /\ UNCHANGED <<program, pc, tun, ended>>

\* The call ends: tunnels made and not run are dropped, and so is its clone of
\* the executor.
Return(c, how) ==
  /\ pc' = [pc EXCEPT ![c] = how]
  /\ tun' = [tun EXCEPT ![c] =
       [k \in DOMAIN @ |-> IF @[k] \in {"given", "made"} THEN "dropped" ELSE @[k]]]
  /\ task' = [d \in Calls |-> [n \in TaskNames |-> AbortAll(task[d][n])]]
  /\ UNCHANGED <<program, ended>>

-----------------------------------------------------------------------------
(***************************************************************************)
(* run_client                                                              *)
(***************************************************************************)

Todo(c) == {k \in DOMAIN tun[c] : tun[c][k] = "given"}
NextTunnel(c, k) == k \in Todo(c) /\ \A j \in Todo(c) : k <= j

\* create_client returns a client, or an error, or panics.
create_client(c) ==
  /\ pc[c] = "start" /\ program.args[c].command = "client"
  /\ \/ /\ pc' = [pc EXCEPT ![c] = "make"]
        /\ UNCHANGED <<program, tun, task, ended>>
     \/ Return(c, "failed")

\* A reverse tunnel: its future is kept for later.
MakeReverse(c, k) ==
  /\ pc[c] = "make" /\ NextTunnel(c, k) /\ Kind(c, k) = "reverse"
  /\ tun' = [tun EXCEPT ![c][k] = "made"]
  /\ UNCHANGED <<program, pc, task, ended>>

\* Mutant of MakeListener: a tunnel runs as soon as it is made.
MakeListenerRunning(c, k) ==
  /\ pc[c] = "make" /\ NextTunnel(c, k) /\ Kind(c, k) \notin Stdio \cup {"reverse"}
  /\ \/ /\ tun' = [tun EXCEPT ![c][k] = "running"]
        /\ UNCHANGED <<program, pc, task, ended>>
     \/ Return(c, "failed")

\* A listener is bound and its future kept for later; or it cannot be bound.
MakeListener(c, k) ==
  /\ pc[c] = "make" /\ NextTunnel(c, k) /\ Kind(c, k) \notin Stdio \cup {"reverse"}
  /\ \/ /\ tun' = [tun EXCEPT ![c][k] = "made"]
        /\ UNCHANGED <<program, pc, task, ended>>
     \/ Return(c, "failed")

\* The listener of a tunnel over stdio gives one connection, for which run_tunnel
\* starts a task, and then none.
poll_next(c) == task' = [task EXCEPT ![c].cnx = Spawned]

\* A tunnel over stdio runs here and now, and the call stays with it: what was
\* made before waits, what is given behind is not made.  Or the standard input
\* cannot be opened.
MakeStdio(c, k) ==
  /\ pc[c] = "make" /\ NextTunnel(c, k) /\ Kind(c, k) \in Stdio
  /\ \/ /\ pc' = [pc EXCEPT ![c] = "stdio"]
        /\ tun' = [tun EXCEPT ![c][k] = "running"]
        /\ poll_next(c)
        /\ UNCHANGED <<program, ended>>
     \/ Return(c, "failed")

\* Mutant of handle_closed: a connection that fails is not noticed.
handle_closed_forwarding(c) == task[c].fwd # "none" /\ ~Alive(c, "fwd")

\* WsStdin is dropped: by the task that was to connect, or by the one that
\* forwards it.
handle_closed(c) ==
  IF task[c].fwd = "none" THEN ~Alive(c, "cnx") ELSE ~Alive(c, "fwd")

\* select!: the tunnel over stdio is closed.
StdioClosed(c) ==
  /\ pc[c] = "stdio" /\ handle_closed(c)
  /\ pc' = [pc EXCEPT ![c] = "linger"]
  /\ tun' = [tun EXCEPT ![c] =
       [k \in DOMAIN @ |-> IF @[k] = "running" THEN "ended" ELSE @[k]]]
  /\ UNCHANGED <<program, task, ended>>

\* select!: ctrl_c, or the time given to a tunnel:// is over.
Interrupted(c) ==
  /\ pc[c] = "stdio"
  /\ pc' = [pc EXCEPT ![c] = "linger"]
  /\ UNCHANGED <<program, tun, task, ended>>

\* sleep(1), exit(0): nothing of the process is left.
Exit(c) ==
  /\ pc[c] = "linger"
  /\ ended' = TRUE
  /\ task' = [d \in Calls |-> [n \in TaskNames |-> "gone"]]
  /\ UNCHANGED <<program, pc, tun>>

\* Every tunnel is made: one task runs them all.
RunTunnels(c) ==
  /\ pc[c] = "make" /\ Todo(c) = {}
  /\ pc' = [pc EXCEPT ![c] = "wait"]
  /\ task' = [task EXCEPT ![c].main = Spawned]
  /\ tun' = [tun EXCEPT ![c] = [k \in DOMAIN @ |-> "running"]]
  /\ UNCHANGED <<program, ended>>

\* rx.await: the tunnels have all ended, or the server has sent its error, or
\* the task is gone and tx with it.
Received(c) ==
  /\ pc[c] = "wait" /\ task[c].main \in {"done", "gone"}
  /\ Return(c, IF task[c].main = "done" /\ program.args[c].command = "client"
               THEN "ok" ELSE "failed")

-----------------------------------------------------------------------------
(***************************************************************************)
(* run_server                                                              *)
(***************************************************************************)

run_server(c) ==
  /\ pc[c] = "start" /\ program.args[c].command = "server"
  /\ pc' = [pc EXCEPT ![c] = "wait"]
  /\ task' = [task EXCEPT ![c].main = Spawned]
  /\ tun' = [tun EXCEPT ![c][1] = "made"]
  /\ UNCHANGED <<program, ended>>

\* The server listens; or its configuration is refused, with an error, or with
\* a panic that ends the task before it sends anything.
run_server_impl(c) ==
  /\ Alive(c, "main") /\ pc[c] = "wait" /\ tun[c] = <<"made">>
  /\ \/ /\ tun' = [tun EXCEPT ![c][1] = "running"]
        /\ UNCHANGED task
     \/ /\ tun' = [tun EXCEPT ![c][1] = "dropped"]
        /\ \E s \in {"done", "gone"} : task' = [task EXCEPT ![c].main = s]
  /\ UNCHANGED <<program, pc, ended>>

-----------------------------------------------------------------------------
(***************************************************************************)
(* Tunnels and their connections                                           *)
(***************************************************************************)

\* The stream of a UDP or SOCKS5 listener ends when its socket fails; no other
\* one ends.
TunnelEnds(c, k) ==
  /\ tun[c][k] = "running" /\ Kind(c, k) = "udp"
  /\ tun' = [tun EXCEPT ![c][k] = "ended"]
  /\ UNCHANGED <<program, pc, task, ended>>

\* The address of a transparent connection cannot be read and unwrap panics.
TunnelPanics(c, k) ==
  /\ tun[c][k] = "running" /\ Kind(c, k) = "tproxy"
  /\ tun' = [tun EXCEPT ![c][k] = "panicked"]
  /\ UNCHANGED <<program, pc, task, ended>>

\* join_all returns when every tunnel has ended, and panics as soon as one did.
JoinAll(c) ==
  /\ Alive(c, "main") /\ program.args[c].command = "client"
  /\ \/ /\ \A k \in DOMAIN tun[c] : tun[c][k] = "ended"
        /\ task' = [task EXCEPT ![c].main = "done"]
     \/ /\ \E k \in DOMAIN tun[c] : tun[c][k] = "panicked"
        /\ task' = [task EXCEPT ![c].main = "gone"]
  /\ UNCHANGED <<program, pc, tun, ended>>

\* The tunnels end with the task they run in, each at its next await.
TunnelDropped(c, k) ==
  /\ tun[c][k] \in {"made", "running"} /\ (pc[c] = "wait" \/ Over(c))
  /\ ~Alive(c, "main")
  /\ tun' = [tun EXCEPT ![c][k] = "dropped"]
  /\ UNCHANGED <<program, pc, task, ended>>

\* A connection: a task for it is given to the executor of the client or of
\* the server, through its reference.
Accept(c, k) ==
  /\ tun[c][k] = "running" /\ task[c].cnx = "none"
  /\ task' = [task EXCEPT ![c].cnx = Spawned]
  /\ UNCHANGED <<program, pc, tun, ended>>

\* The connection is made, and a task forwards the local side.
Connected(c) ==
  /\ Alive(c, "cnx") /\ task[c].fwd = "none"
  /\ task' = [task EXCEPT ![c].fwd = Spawned]
  /\ UNCHANGED <<program, pc, tun, ended>>

\* A task of a connection comes to its end.
CnxOver(c, n) ==
  /\ n # "main" /\ Alive(c, n)
  /\ task' = [task EXCEPT ![c][n] = "done"]
  /\ UNCHANGED <<program, pc, tun, ended>>

-----------------------------------------------------------------------------
\* What the code does without waiting for anything outside.
Step(c) ==
  \/ create_client(c) \/ RunTunnels(c) \/ StdioClosed(c) \/ Exit(c) \/ Received(c)
  \/ run_server(c) \/ run_server_impl(c) \/ JoinAll(c)
  \/ \E k \in DOMAIN tun[c] :
       MakeReverse(c, k) \/ MakeListener(c, k) \/ MakeStdio(c, k) \/ TunnelDropped(c, k)
  \/ \E n \in TaskNames : Aborted(c, n)

Event(c) ==
  \/ Interrupted(c) \/ Connected(c)
  \/ \E n \in TaskNames : CnxOver(c, n)
  \/ \E k \in DOMAIN tun[c] : TunnelEnds(c, k) \/ TunnelPanics(c, k) \/ Accept(c, k)

Next == \E c \in Calls : Step(c) \/ Event(c)

-----------------------------------------------------------------------------
(***************************************************************************)
(* Properties                                                              *)
(***************************************************************************)

\* Every variable keeps its type.
TypeOK ==
  /\ pc \in [Calls -> {"start", "make", "stdio", "linger", "wait", "ok", "failed"}]
  /\ \A c \in Calls :
       tun[c] \in [DOMAIN program.args[c].tunnels ->
                     {"given", "made", "running", "ended", "panicked", "dropped"}]
  /\ task \in [Calls -> [TaskNames -> {"none", "live", "aborting", "done", "gone"}]]
  /\ ended \in BOOLEAN

\* lib.rs:47, "Start all tunnels": a client whose tunnels cannot all be set up
\* runs none of them: while one accepts connections, none of the others failed
\* to be made, or is still to be made or started behind it.  The exception is a
\* tunnel over stdio, which runs alone: the others are never started.
StartedTogether ==
  /\ TypeOK
  /\ \A c \in Calls : \A k \in DOMAIN tun[c] : tun[c][k] = "running" =>
       IF Kind(c, k) \in Stdio
       THEN \A j \in DOMAIN tun[c] \ {k} : tun[c][j] \in {"given", "made"}
       ELSE /\ \A j \in DOMAIN tun[c] : tun[c][j] \notin {"given", "made"}
            /\ Over(c) => task[c].main \in {"done", "gone"}

\* executor.rs, Drop and JoinSetTokioExecutorRef: once every call that was given
\* a clone of the executor has returned, no task is left running in its name,
\* though tunnels and connections that have not noticed yet may start new ones.
NothingOutlivesExecutor ==
  Freed => \A c \in Calls : \A n \in TaskNames : task[c][n] # "live"

\* A call has something to wait for: a tunnel that runs, or a task that holds
\* the standard input.
Busy(c) ==
  \/ /\ pc[c] = "wait" /\ Alive(c, "main")
     /\ \E k \in DOMAIN tun[c] : tun[c][k] = "running"
  \/ /\ pc[c] = "stdio"
     /\ Alive(c, "fwd") \/ (Alive(c, "cnx") /\ task[c].fwd = "none")
=============================================================================
