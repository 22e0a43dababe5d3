----------------------------- MODULE HttpProxy -----------------------------
(***************************************************************************)
(* The http proxy listener (wstunnel/src/protocols/http_proxy/server.rs).  *)
(*                                                                         *)
(* Every connection gets a task of its own in a JoinSet.  The task peeks   *)
(* at what has arrived of the request: a CONNECT request is then served by *)
(* hyper, any other is judged by what the peek shows and left in the       *)
(* socket for the destination.  A request arrives in pieces: its first     *)
(* bytes (less than the method), the method, the rest of the request line, *)
(* the headers up to the credentials, the rest of the head, and what the   *)
(* client sends after the head.                                            *)
(***************************************************************************)
EXTENDS Naturals, Sequences, FiniteSets

CONSTANTS
  Clients,      \* connections
  Requests      \* what the clients may ask for, a set of functions

\* Pieces of a request that have arrived.
First  == 1
Method == 2
Line   == 3
Creds  == 4
Whole  == 5
More   == 6

\* What port_or_known_default knows of the schemes of URLs.
KnownDefault == [http |-> "80", https |-> "443", ftp |-> "21"]
Schemes == DOMAIN KnownDefault \cup {"unknown"}

Request == [method : {"CONNECT", "other"},
            scheme : Schemes,  \* of the URL; that of a CONNECT has none
            host   : {"valid", "invalid"},
            port   : {"given", "none"},
            auth   : {"right", "wrong", "none"},
            fits   : {Method, Line, Whole},  \* what the 512 bytes that are
                               \* peeked, and 32 headers, hold of the head
            waits  : BOOLEAN]  \* a CONNECT client waits for the answer

ASSUME ProxyAssumption == Requests \subseteq [Clients -> Request]

VARIABLES
  hasCreds, \* the proxy was given credentials
  req,      \* what each client asks for
  arrived,  \* pieces of it that have arrived
  taken,    \* pieces taken out of the socket
  state,    \* where the connection is
  dest,     \* the destination the task has found, its port
  tasks,    \* tasks that have ended, in that order
  backlog   \* connections not accepted

vars == <<hasCreds, req, arrived, taken, state, dest, tasks, backlog>>

Ports == {"none", "given", "443", "80", "21"}

Init ==
  /\ hasCreds \in BOOLEAN
  /\ req \in Requests
  /\ arrived = [c \in Clients |-> 0] /\ taken = [c \in Clients |-> 0]
  /\ state = [c \in Clients |-> "away"]
  /\ dest = [c \in Clients |-> "none"]
  /\ tasks = << >> /\ backlog = << >>

-----------------------------------------------------------------------------
(***************************************************************************)
(* Clients                                                                 *)
(***************************************************************************)

Connect(c) ==
  /\ state[c] = "away"
  /\ state' = [state EXCEPT ![c] = "backlog"]
  /\ backlog' = Append(backlog, c)
  /\ UNCHANGED <<hasCreds, req, arrived, taken, dest, tasks>>

\* TCP may deliver any number of pieces at once.
Send(c) ==
  /\ state[c] # "away"
  /\ \E k \in (arrived[c] + 1) .. More :
       /\ k = More /\ req[c].waits /\ req[c].method = "CONNECT" => state[c] = "given"
       /\ arrived' = [arrived EXCEPT ![c] = k]
  /\ UNCHANGED <<hasCreds, req, taken, state, dest, tasks, backlog>>

-----------------------------------------------------------------------------
(***************************************************************************)
(* handle_new_connection                                                   *)
(***************************************************************************)

\* Mutant of verify_credentials: a request without credentials passes.
verify_credentials_lax(header) == ~hasCreds \/ header \in {"right", "none"}

verify_credentials(header) == ~hasCreds \/ header = "right"

EndTask(c, d) ==
  /\ dest' = [dest EXCEPT ![c] = d]
  /\ state' = [state EXCEPT ![c] = "ended"]
  /\ tasks' = Append(tasks, c)

\* The parser knows the path once the line is there, and a header once it is,
\* also when the rest of the head is missing or beyond the bytes peeked.
handle_regular_http_request(c) ==
  LET r == req[c]
      peeked == IF arrived[c] < r.fits THEN arrived[c] ELSE r.fits
      header == IF hasCreds /\ peeked >= Creds THEN r.auth ELSE "none"
      path   == peeked >= Line /\ r.method = "other"
  IN  CASE ~verify_credentials(header)      -> "none"
        [] ~path \/ r.host = "invalid"      -> "none"
        [] r.port = "given"                 -> "given"
        [] r.scheme \in DOMAIN KnownDefault -> KnownDefault[r.scheme]
        [] OTHER                            -> "80"

\* stream.peek waits for the first bytes, and what they show decides at once; an
\* error, or the client closing, ends the task.
Peek(c) ==
  /\ state[c] = "peek"
  /\ \/ /\ req[c].method = "CONNECT" /\ arrived[c] >= Method
        /\ state' = [state EXCEPT ![c] = "serve"]
        /\ UNCHANGED <<dest, tasks>>
     \/ /\ arrived[c] > 0 /\ (req[c].method = "CONNECT" => arrived[c] < Method)
        /\ EndTask(c, handle_regular_http_request(c))
     \/ EndTask(c, "none")
  /\ UNCHANGED <<hasCreds, req, arrived, taken, backlog>>

handle_http_connect_request(c) ==
  CASE req[c].host = "invalid"            -> "none"
    [] ~verify_credentials(req[c].auth)   -> "none"
    [] req[c].port = "given"              -> "given"
    [] OTHER                              -> "443"

\* Mutant of Serve: hyper leaves the request in the socket.
ServePeeks(c) ==
  /\ state[c] = "serve" /\ arrived[c] >= Whole
  /\ EndTask(c, handle_http_connect_request(c))
  /\ UNCHANGED <<hasCreds, req, arrived, taken, backlog>>

\* hyper reads what has arrived, calls the handler when it has the head, and
\* writes its answer, 200 or 401.
Serve(c) ==
  /\ state[c] = "serve" /\ arrived[c] >= Whole
  /\ EndTask(c, handle_http_connect_request(c))
  /\ taken' = [taken EXCEPT ![c] = arrived[c]]
  /\ UNCHANGED <<hasCreds, req, arrived, backlog>>

\* The client closes, the head takes longer than header_read_timeout, or the
\* answer cannot be written.
ServeFails(c) ==
  /\ state[c] = "serve"
  /\ EndTask(c, "none")
  /\ UNCHANGED <<hasCreds, req, arrived, taken, backlog>>

-----------------------------------------------------------------------------
(***************************************************************************)
(* run_server                                                              *)
(***************************************************************************)

\* select! is biased: a task that has ended comes before a new connection.
JoinTask ==
  /\ tasks # << >>
  /\ LET c == Head(tasks)
     IN  state' = [state EXCEPT ![c] = IF dest[c] = "none" THEN "rejected" ELSE "given"]
  /\ tasks' = Tail(tasks)
  /\ UNCHANGED <<hasCreds, req, arrived, taken, dest, backlog>>

\* Mutant of Accept: the request is looked at in the loop, one at a time.
AcceptOne ==
  /\ tasks = << >> /\ backlog # << >>
  /\ \A c \in Clients : state[c] \notin {"peek", "serve"}
  /\ state' = [state EXCEPT ![Head(backlog)] = "peek"]
  /\ backlog' = Tail(backlog)
  /\ UNCHANGED <<hasCreds, req, arrived, taken, dest, tasks>>

Accept ==
  /\ tasks = << >> /\ backlog # << >>
  /\ state' = [state EXCEPT ![Head(backlog)] = "peek"]
  /\ backlog' = Tail(backlog)
  /\ UNCHANGED <<hasCreds, req, arrived, taken, dest, tasks>>

-----------------------------------------------------------------------------

TaskStep(c) == Peek(c) \/ Serve(c) \/ ServeFails(c)

Next ==
  \/ JoinTask \/ Accept
  \/ \E c \in Clients : Connect(c) \/ Send(c) \/ TaskStep(c)

Spec == Init /\ [][Next]_vars

\* The loop and the tasks run when they can.  A task can go on once there is
\* something to read: no client is made to send, and none to close.
CanRead(c) == (arrived[c] > 0 /\ Peek(c)) \/ Serve(c)
FairSpec ==
  /\ Spec
  /\ WF_vars(JoinTask \/ Accept)
  /\ \A c \in Clients : WF_vars(CanRead(c))

-----------------------------------------------------------------------------
(***************************************************************************)
(* Properties                                                              *)
(***************************************************************************)

\* Every variable keeps its type.
TypeOK ==
  /\ hasCreds \in BOOLEAN /\ req \in [Clients -> Request]
  /\ arrived \in [Clients -> 0 .. More] /\ taken \in [Clients -> 0 .. More]
  /\ state \in [Clients -> {"away", "backlog", "peek", "serve", "ended", "given",
                            "rejected"}]
  /\ dest \in [Clients -> Ports]
  /\ tasks \in Seq(Clients) /\ backlog \in Seq(Clients)

\* A connection that is forwarded asked for a valid host, showed the credentials
\* if there are any, and goes to the port it named, or to that of https after a
\* CONNECT and else to the one known for the scheme of its URL (server.rs:62 and
\* 235), whatever part of the request was there, or fitted, when the task looked.
ForwardedAsAsked ==
  /\ TypeOK
  /\ \A c \in Clients :
       state[c] = "given" =>
         /\ req[c].host = "valid"
         /\ hasCreds => req[c].auth = "right"
         /\ req[c].port = "given" <=> dest[c] = "given"
         /\ dest[c] = "443" => req[c].method = "CONNECT" \/ req[c].scheme = "https"
         /\ dest[c] = "21" => req[c].method = "other" /\ req[c].scheme = "ftp"
         /\ dest[c] = "80" => req[c].method = "other" /\ req[c].scheme \in {"http", "unknown"}

\* The destination is given exactly what is meant for it: all of a regular
\* request, which was only peeked at, and after a CONNECT all that follows
\* the head and nothing of it.  Excepted is what a CONNECT client sends before
\* it has the answer: hyper may have read it, and drops it.
NothingLostOrAdded ==
  \A c \in Clients :
    state[c] = "given" =>
      IF req[c].method = "CONNECT"
      THEN taken[c] = Whole \/ (taken[c] = More /\ ~req[c].waits)
      ELSE taken[c] = 0

\* A connection whose request is there is decided, also when other clients
\* connect and send nothing: only its own task waits for a client.
RequestsDecided ==
  \A c \in Clients :
    <>[](state[c] \in {"given", "rejected"} \/ state[c] = "away" \/ arrived[c] < Whole)
=============================================================================
