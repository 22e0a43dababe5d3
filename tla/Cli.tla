-------------------------------- MODULE Cli --------------------------------
(***************************************************************************)
(* The commands of the program (wstunnel-cli/src/main.rs) and the library  *)
(* functions behind them: client and server (Startup), ssh (SshShell) and  *)
(* scp (Scp).  A process runs one of them; the library may be used for     *)
(* several calls of run_client and run_server at once.                     *)
(***************************************************************************)
EXTENDS Naturals, Sequences

CONSTANTS
  Calls, Programs,                     \* of Startup
  Files, Dirs, Entries, Size, Texts, Roots    \* of Scp

ASSUME CliAssumption ==
  /\ \A p \in Programs :
       /\ p.executor \in {"runtime", "join set"}
       /\ DOMAIN p.args = Calls
       /\ \A c \in Calls :
            \/ p.args[c].command = "none" /\ p.args[c].tunnels = <<>>
            \/ p.args[c].command = "server" /\ p.args[c].tunnels = <<"server">>
            \/ /\ p.args[c].command = "client"
               /\ p.args[c].tunnels \in
                    Seq({"reverse", "tcp", "udp", "tproxy", "stdio", "tunnel"})
  /\ Entries \in [Dirs -> SUBSET (Files \cup Dirs)] /\ Size \in [Files -> Nat]
  /\ Texts \subseteq Files /\ Roots \subseteq Files \cup Dirs

VARIABLES
  command,  \* what the process runs: "run" stands for client and server
  program, pc, tun, task, ended,           \* Startup
  sh, raw, session, reading, to, from,     \* SshShell
  upload, recursive, root, snd, rcv, walk, file, at, target, remaining,
  data, replies, dest, warned, odd         \* Scp

startupVars == <<program, pc, tun, task>>
sshVars == <<sh, raw, session, reading, to, from>>
scpVars == <<upload, recursive, root, snd, rcv, walk, file, at, target,
             remaining, data, replies, dest, warned, odd>>
vars == <<command, startupVars, sshVars, scpVars, ended>>

Run == INSTANCE Startup
Ssh == INSTANCE SshShell
Copy == INSTANCE Scp

\* The arguments of a command that is not run do not matter.  The scp command
\* asks for one remote path: one of a file or directory there, or of one here.
Init ==
  /\ command \in {"run", "ssh", "scp", "usage"}
  /\ Run!Init /\ Ssh!Init /\ Copy!Init
  /\ command # "run" => program = CHOOSE p \in Programs : TRUE
  /\ command # "scp" => ~upload /\ ~recursive /\ root = CHOOSE r \in Roots : TRUE

\* The function that the command calls has returned.
Returned ==
  CASE command = "run" -> \A c \in Calls : Run!Over(c)
    [] command = "ssh" -> Ssh!Over
    [] command = "scp" -> Copy!Returned
    [] command = "usage" -> TRUE

\* main returns, or panics for a client or server that failed: the runtime is
\* dropped, and with it every task; it waits for a thread that reads the
\* terminal.
MainReturns ==
  /\ Returned /\ ~reading
  /\ ended' = TRUE
  /\ UNCHANGED <<command, startupVars, sshVars, scpVars>>

Step ==
  \/ MainReturns
  \/ /\ command = "run" /\ \E c \in Calls : Run!Step(c)
     /\ UNCHANGED <<command, sshVars, scpVars>>
  \/ /\ command = "ssh" /\ Ssh!Step
     /\ UNCHANGED <<command, startupVars, scpVars, ended>>

ScpStep(A) ==
  /\ command = "scp" /\ A
  /\ UNCHANGED <<command, startupVars, sshVars, ended>>

Event ==
  \/ /\ command = "run" /\ \E c \in Calls : Run!Event(c)
     /\ UNCHANGED <<command, sshVars, scpVars>>
  \/ /\ command = "ssh" /\ Ssh!Event
     /\ UNCHANGED <<command, startupVars, scpVars, ended>>
  \/ ScpStep(Copy!Connect) \/ ScpStep(Copy!Lose)

Next ==
  /\ ~ended
  /\ Step \/ Event \/ ScpStep(Copy!Sender) \/ ScpStep(Copy!Receiver)

\* The code goes on whenever it can, and so does a remote scp that runs.  Keys,
\* the network, the remote sshd, listeners that fail and the ends of connections
\* are left to chance.
Spec ==
  /\ Init /\ [][Next]_vars
  /\ WF_vars(~ended /\ Step)
  /\ WF_vars(~ended /\ ScpStep(Copy!Sender))
  /\ WF_vars(~ended /\ ScpStep(Copy!Receiver))

-----------------------------------------------------------------------------
(***************************************************************************)
(* Properties                                                              *)
(***************************************************************************)

\* lib.rs:47, "Start all tunnels": a client whose tunnels cannot all be set up
\* runs none of them.
StartedTogether == Run!StartedTogether

\* executor.rs, Drop and JoinSetTokioExecutorRef: no task is left running when
\* every call that was given a clone of the executor has returned.
NothingOutlivesExecutor == Run!NothingOutlivesExecutor

\* scp.rs: a client that succeeds without a warning has copied everything.
SilentSuccessIsWhole == Copy!SilentSuccessIsWhole

\* A command has something to wait for: each call that has not returned, a
\* tunnel that runs or a standard input that is open; an ssh command a remote
\* sshd that has not answered, a remote shell, or the key that ends the last read
\* when the shell is over; an scp command a remote side by which it is held up.
Waiting ==
  \/ /\ command = "run" /\ \E c \in Calls : Run!Busy(c)
     /\ \A c \in Calls : Run!Over(c) \/ Run!Busy(c)
  \/ command = "ssh" /\ sh = "connect"
  \/ command = "ssh" /\ sh = "select" /\ session
  \/ command = "ssh" /\ Ssh!LastKey
  \/ command = "scp" /\ Copy!HeldUp

\* lib.rs:54, "wait for all tunnels to finish", lib.rs:422, "force exit the
\* program", shell.rs and scp.rs: no command waits for ever for what is not
\* there any more.
CommandsEnd == <>[](ended \/ Waiting)
=============================================================================
