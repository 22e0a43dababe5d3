------------------------------ MODULE SshShell ------------------------------
(***************************************************************************)
(* The embedded ssh client (protocols/ssh/shell.rs): a remote shell on the *)
(* user's terminal, over an ssh session inside a tunnel.                   *)
(*                                                                         *)
(* External: the remote side; the terminal; tokio's standard input, which  *)
(* is read by a thread of its own: a read that has begun goes on until the *)
(* user presses a key, also when nobody waits for it any more.             *)
(***************************************************************************)

VARIABLES
  sh,       \* where run_ssh_client_impl is
  raw,      \* the terminal is in raw mode
  session,  \* the remote shell is there
  reading,  \* a thread reads the terminal
  to,       \* the task to_remote
  from      \* the task from_remote

vars == <<sh, raw, session, reading, to, from>>

Init ==
  /\ sh = "connect"
  /\ raw = FALSE /\ session = FALSE /\ reading = FALSE
  /\ to = "none" /\ from = "none"

Over == sh \in {"ok", "failed"}

\* The function returns: the tasks are aborted, RawModeGuard is dropped.
Leave(how) ==
  /\ sh' = how /\ raw' = FALSE
  /\ to' = "aborted" /\ from' = "aborted"

\* connect_ssh and channel_open_session wait for the remote sshd, without a time
\* limit; enable_raw_mode; request_pty and request_shell.  Each of them may fail.
Connect ==
  /\ sh = "connect"
  /\ \/ sh' = "raw" /\ session' = TRUE /\ UNCHANGED <<raw, to, from>>
     \/ Leave("failed") /\ UNCHANGED session
  /\ UNCHANGED reading

EnableRaw ==
  /\ sh = "raw"
  /\ \/ sh' = "pty" /\ raw' = TRUE /\ UNCHANGED <<to, from>>
     \/ Leave("failed")
  /\ UNCHANGED <<session, reading>>

RequestShell ==
  /\ sh = "pty"
  /\ \/ /\ session
        /\ sh' = "select" /\ to' = "read" /\ from' = "copy" /\ reading' = TRUE
        /\ UNCHANGED raw
     \/ Leave("failed") /\ UNCHANGED reading
  /\ UNCHANGED session

\* A key, or the end of the input.  A read that holds a ctrl-d ends the task,
\* whatever else it holds.
Key ==
  /\ reading /\ reading' = FALSE
  /\ IF to = "read" THEN to' \in {"write", "done"} ELSE UNCHANGED to
  /\ UNCHANGED <<sh, raw, session, from>>

\* write_all waits for the window of the channel, and fails without a session.
Write ==
  /\ to = "write"
  /\ IF session THEN to' = "read" /\ reading' = TRUE
     ELSE to' = "done" /\ UNCHANGED reading
  /\ UNCHANGED <<sh, raw, session, from>>

\* The remote shell ends, or the connection is lost.
SessionEnds ==
  /\ session /\ session' = FALSE
  /\ UNCHANGED <<sh, raw, reading, to, from>>

CopyEnds ==
  /\ from = "copy" /\ ~session
  /\ from' = "done"
  /\ UNCHANGED <<sh, raw, session, reading, to>>

\* select!: one of the tasks is over; the session is disconnected if the
\* remote side has not ended it.
Select ==
  /\ sh = "select" /\ (to = "done" \/ from = "done")
  /\ Leave("ok") /\ session' = FALSE
  /\ UNCHANGED reading

\* select!: ctrl_c, by a signal: in raw mode the key is data.
Interrupted ==
  /\ sh = "select"
  /\ Leave("ok") /\ session' = FALSE
  /\ UNCHANGED reading

Step == EnableRaw \/ RequestShell \/ (~session /\ Write) \/ CopyEnds \/ Select
Event == Connect \/ Key \/ (session /\ Write) \/ SessionEnds \/ Interrupted

Next == Step \/ Event

\* The shell is over, the terminal is as it was, and the process waits for the key
\* that ends the last read, also after a ctrl-c (README.md:562, "`Ctrl+C` exits
\* cleanly").
LastKey == Over /\ ~raw /\ reading
=============================================================================
