----------------------------- MODULE TcpConnect -----------------------------
(***************************************************************************)
(* Opening a connection (connect and connect_with_http_proxy in            *)
(* wstunnel/src/protocols/tcp/server.rs, lookup_host and                   *)
(* sort_socket_addrs in wstunnel/src/protocols/dns/resolver.rs; connect in *)
(* wstunnel/src/protocols/udp/server.rs).                                  *)
(*                                                                         *)
(* One task per address races for the connection, the n-th one starting    *)
(* after n times the 250 ms of RFC 8305, which are one unit of time here.  *)
(* Time does not pass while a task has something to do: the runtime is     *)
(* taken to be faster than 250 ms.  What comes back over a proxy is a      *)
(* sequence of pieces: the status line, the rest of the head, its empty    *)
(* line ("end"), then what the destination itself sends ("data").          *)
(***************************************************************************)
EXTENDS Naturals, Sequences, FiniteSets, SequencesExt

CONSTANTS
  MaxAddrs,       \* bound: addresses a name resolves to
  Resolvers,      \* kinds of resolver: "System", "PreferV6", "PreferV4"
  ConnectTimeout, \* connect_timeout, in units of 250 ms
  LogsDebug,      \* debug! evaluates its arguments
  Routes,         \* "direct", "udp" (connect of protocols/udp/server.rs), or
                  \* over a proxy to a destination that "waits" for the
                  \* client or that "speaks" first
  MaxHead,        \* pieces of the answer kept before giving up (50 KiB)
  MaxReply,       \* bound: pieces sent back over the proxy
  MaxTime         \* bound on the clock, above every deadline

ASSUME ConnectAssumption ==
  /\ Resolvers \subseteq {"System", "PreferV6", "PreferV4"}
  /\ {MaxAddrs, MaxHead, MaxReply} \subseteq Nat \ {0}
  /\ ConnectTimeout \in Nat \ {0}
  /\ MaxTime > MaxAddrs + ConnectTimeout
  /\ LogsDebug \in BOOLEAN
  /\ Routes \subseteq {"direct", "udp", "waits", "speaks"}

VARIABLES
  now,       \* the clock
  pc,        \* control point of the caller
  route,     \* which connect, and to whom
  answer,    \* addresses in the order of the resolver's answer
  resolver,  \* the resolver that gave it
  addrs,     \* addresses in the order they are tried
  spawned,   \* addresses the loop has gone through
  att,       \* state of the attempt for each address
  since,     \* when the attempt got there
  done,      \* attempts that ended and were not joined
  winner,    \* the attempt whose stream is kept, 0 if none
  wire,      \* pieces sent back and not read
  buf,       \* pieces read
  sent       \* all pieces sent back

vars == <<now, pc, route, answer, resolver, addrs, spawned, att, since, done,
          winner, wire, buf, sent>>
raceVars == <<spawned, att, since, done, winner>>
proxyVars == <<wire, buf, sent>>
nameVars == <<route, answer, resolver, addrs>>

Address == [id : 1 .. MaxAddrs, fam : {"v4", "v6"}]
Answers == {[k \in 1 .. Len(f) |-> [id |-> k, fam |-> f[k]]] :
              f \in BoundedSeq({"v4", "v6"}, MaxAddrs)}
Tasks == 1 .. Len(addrs)
Ended == {"connected", "failed"}
Proxied == route \in {"waits", "speaks"}

-----------------------------------------------------------------------------
(***************************************************************************)
(* Names                                                                   *)
(***************************************************************************)

\* An iterator that asks the two families by turns; a family that has no
\* more addresses passes its turn to the other.  Taken[n] counts the v6 and
\* the v4 addresses among the first n.
sort_socket_addrs(a, prefer_ipv6) ==
  LET v6 == SelectSeq(a, LAMBDA x : x.fam = "v6")
      v4 == SelectSeq(a, LAMBDA x : x.fam = "v4")
      pick_v6(n) == (n % 2 = 1) <=> prefer_ipv6
      Taken[n \in 0 .. Len(a)] ==
        IF n = 0 THEN [v6 |-> 0, v4 |-> 0]
        ELSE LET t == Taken[n - 1]
             IN  IF IF pick_v6(n) THEN t.v6 < Len(v6) ELSE t.v4 = Len(v4)
                 THEN [t EXCEPT !.v6 = @ + 1]
                 ELSE [t EXCEPT !.v4 = @ + 1]
  IN  [n \in 1 .. Len(a) |->
         IF Taken[n].v6 > Taken[n - 1].v6 THEN v6[Taken[n].v6] ELSE v4[Taken[n].v4]]

lookup_host(a, r) ==
  IF r = "System" THEN a ELSE sort_socket_addrs(a, r = "PreferV6")

Init ==
  /\ now = 0 /\ pc = "resolve" /\ route \in Routes
  /\ answer = << >> /\ resolver \in Resolvers /\ addrs = << >>
  /\ spawned = 0 /\ att = << >> /\ since = << >> /\ done = << >> /\ winner = 0
  /\ wire = << >> /\ buf = << >> /\ sent = << >>

\* The host is an address, or a name that resolves to some; none is possible.
Resolve ==
  /\ pc = "resolve"
  /\ answer' \in Answers
  /\ \/ Len(answer') = 1 /\ addrs' = answer'
     \/ addrs' = lookup_host(answer', resolver)
  /\ pc' = "spawn"
  /\ UNCHANGED <<now, route, resolver, raceVars, proxyVars>>

ResolveFails ==
  /\ pc = "resolve"
  /\ pc' = "failed"
  /\ UNCHANGED <<now, nameVars, raceVars, proxyVars>>

-----------------------------------------------------------------------------
(***************************************************************************)
(* connect                                                                 *)
(***************************************************************************)

SetAttempt(i, s) ==
  /\ att' = [att EXCEPT ![i] = s]
  /\ since' = [since EXCEPT ![i] = now]

\* Dropping the JoinSet ends all tasks and closes the streams they got.
DropJoinSet(keep) ==
  /\ att' = [i \in DOMAIN att |->
               CASE i = keep -> att[i]
                 [] att[i] \in {"delayed", "connecting", "aborting", "ok"} -> "dropped"
                 [] OTHER -> att[i]]
  /\ UNCHANGED since
  /\ done' = << >>

\* The loop makes a socket and a task for an address; without a socket it
\* goes on with the next, when the socket cannot be configured it returns.
Spawn ==
  /\ pc = "spawn"
  /\ spawned < Len(addrs)
  /\ spawned' = spawned + 1
  /\ \/ /\ \E s \in {"delayed", "noSocket"} : att' = Append(att, s)
        /\ since' = Append(since, now)
        /\ UNCHANGED <<pc, done>>
     \/ pc' = "failed" /\ DropJoinSet(0)
  /\ UNCHANGED <<now, nameVars, winner, proxyVars>>

SpawnDone ==
  /\ pc = "spawn"
  /\ spawned = Len(addrs)
  /\ pc' = "join"
  /\ UNCHANGED <<now, nameVars, raceVars, proxyVars>>

Live(i) == i \in DOMAIN att /\ pc \notin Ended

StartAttempt(i) ==
  /\ Live(i) /\ att[i] = "delayed"
  /\ now - since[i] >= i - 1
  /\ SetAttempt(i, "connecting")
  /\ UNCHANGED <<now, pc, nameVars, spawned, done, winner, proxyVars>>

EndAttempt(i, s) ==
  /\ SetAttempt(i, s)
  /\ done' = Append(done, i)
  /\ UNCHANGED <<now, pc, nameVars, spawned, winner, proxyVars>>

\* The connect for UDP is the same race of the same steps, over sockets whose
\* connect only sets the address of the peer and waits for nobody.
AtOnce == route = "udp"

\* The kernel's answer to the connect of an attempt.
Outcome(i) ==
  /\ Live(i) /\ att[i] = "connecting"
  /\ \E s \in {"ok", "refused"} : EndAttempt(i, s)

\* connect_timeout runs from the start of the attempt, after its delay.
Timeout(i) ==
  /\ Live(i) /\ att[i] = "connecting"
  /\ now - since[i] >= ConnectTimeout
  /\ EndAttempt(i, "timedOut")

Cancelled(i) ==
  /\ Live(i) /\ att[i] = "aborting"
  /\ EndAttempt(i, "aborted")

\* Mutant of JoinSuccess: the other attempts are not aborted.
JoinSuccessNoAbort ==
  /\ pc = "join" /\ done # << >> /\ att[Head(done)] = "ok"
  /\ winner' = Head(done)
  /\ done' = Tail(done)
  /\ pc' = "drain"
  /\ UNCHANGED <<now, nameVars, spawned, att, since, proxyVars>>

\* join_next gives a stream: the others are aborted.  The debug! that follows
\* asks for the peer's address, which fails if the peer is gone again.
JoinSuccess ==
  /\ pc = "join" /\ done # << >> /\ att[Head(done)] = "ok"
  /\ \/ /\ winner' = Head(done)
        /\ done' = Tail(done)
        /\ att' = [i \in DOMAIN att |->
                     IF att[i] \in {"delayed", "connecting"} THEN "aborting" ELSE att[i]]
        /\ pc' = "drain"
        /\ UNCHANGED since
     \/ /\ LogsDebug
        /\ pc' = "failed"
        /\ att' = [i \in DOMAIN att |-> IF i = Head(done) THEN "reset" ELSE "dropped"]
        /\ done' = << >>
        /\ UNCHANGED <<since, winner>>
  /\ UNCHANGED <<now, nameVars, spawned, proxyVars>>

\* Mutant of JoinFailure: the first error is the result.
JoinFailureReturns ==
  /\ pc = "join" /\ done # << >> /\ att[Head(done)] \in {"refused", "timedOut"}
  /\ pc' = "failed" /\ DropJoinSet(0)
  /\ UNCHANGED <<now, nameVars, spawned, winner, proxyVars>>

JoinFailure ==
  /\ pc = "join" /\ done # << >> /\ att[Head(done)] \in {"refused", "timedOut"}
  /\ done' = Tail(done)
  /\ UNCHANGED <<now, pc, nameVars, spawned, att, since, winner, proxyVars>>

Pending == {i \in DOMAIN att : att[i] \in {"delayed", "connecting", "aborting"}}

JoinNone ==
  /\ pc = "join" /\ done = << >> /\ Pending = {}
  /\ pc' = "failed"
  /\ UNCHANGED <<now, nameVars, raceVars, proxyVars>>

\* The condition of the loop awaits join_next before it looks at cnx: one
\* more task has to end, if there is one, before connect returns.
JoinOnceMore ==
  /\ pc = "drain"
  /\ done # << >> \/ Pending = {}
  /\ pc' = IF route \in {"direct", "udp"} THEN "connected" ELSE "ask"
  /\ DropJoinSet(winner)
  /\ UNCHANGED <<now, nameVars, spawned, winner, proxyVars>>

-----------------------------------------------------------------------------
(***************************************************************************)
(* connect_with_http_proxy                                                 *)
(***************************************************************************)

\* The CONNECT request is written; in debug mode the address of the proxy is
\* asked for before.
Ask ==
  /\ pc = "ask"
  /\ pc' \in {"read", "failed"}
  /\ UNCHANGED <<now, nameVars, raceVars, proxyVars>>

\* The proxy, and behind it the destination.
Reply ==
  /\ pc \in {"read", "connected"} /\ Proxied
  /\ Len(sent) < MaxReply
  /\ \E x \in {"200", "error", "head", "end", "data"} :
       /\ CASE sent = << >> -> x \in {"200", "error"}
            [] Last(sent) \in {"end", "data"} ->
                 /\ x = "data" /\ sent[1] = "200"
                 /\ route = "speaks" \/ pc = "connected"
            [] OTHER -> x \in {"head", "end"}
       /\ sent' = Append(sent, x) /\ wire' = Append(wire, x)
  /\ UNCHANGED <<now, pc, nameVars, raceVars, buf>>

\* Mutant of Read: the first piece is taken for the whole answer.
ReadOnce ==
  /\ pc = "read" /\ wire # << >>
  /\ \E k \in 1 .. Len(wire) :
       /\ buf' = buf \o SubSeq(wire, 1, k)
       /\ wire' = SubSeq(wire, k + 1, Len(wire))
  /\ pc' = "check"
  /\ UNCHANGED <<now, nameVars, raceVars, sent>>

\* read_buf takes any part of what has arrived; the loop ends with the empty
\* line, or with too much data.
Read ==
  /\ pc = "read" /\ wire # << >>
  /\ \E k \in 1 .. Len(wire) :
       /\ buf' = buf \o SubSeq(wire, 1, k)
       /\ wire' = SubSeq(wire, k + 1, Len(wire))
  /\ pc' = IF Len(buf') > MaxHead \/ Contains(buf', "end") THEN "check" ELSE "read"
  /\ UNCHANGED <<now, nameVars, raceVars, sent>>

\* The proxy closes, the read fails, or takes longer than connect_timeout.
ReadFails ==
  /\ pc = "read"
  /\ pc' = "failed"
  /\ UNCHANGED <<now, nameVars, raceVars, proxyVars>>

Check ==
  /\ pc = "check"
  /\ pc' = IF Contains(buf, "200") THEN "connected" ELSE "failed"
  /\ UNCHANGED <<now, nameVars, raceVars, proxyVars>>

-----------------------------------------------------------------------------

AttemptStep(i) == StartAttempt(i) \/ Outcome(i) \/ Timeout(i) \/ Cancelled(i)
CallerStep ==
  \/ Resolve \/ ResolveFails \/ Spawn \/ SpawnDone
  \/ JoinSuccess \/ JoinFailure \/ JoinNone \/ JoinOnceMore
  \/ Ask \/ Read \/ ReadFails \/ Check

\* Somebody can go on without an event from outside.
Due ==
  \/ pc \in {"resolve", "spawn"}
  \/ pc = "join" /\ (done # << >> \/ Pending = {})
  \/ pc = "drain" /\ (done # << >> \/ Pending = {})
  \/ \E i \in DOMAIN att :
       \/ att[i] = "delayed" /\ now - since[i] >= i - 1
       \/ att[i] = "connecting" /\ (now - since[i] >= ConnectTimeout \/ AtOnce)
       \/ att[i] = "aborting"

Tick ==
  /\ pc \in {"join", "drain"} /\ ~Due
  /\ now < MaxTime
  /\ now' = now + 1
  /\ UNCHANGED <<pc, nameVars, raceVars, proxyVars>>

Next == CallerStep \/ Reply \/ Tick \/ \E i \in Tasks : AttemptStep(i)

Spec == Init /\ [][Next]_vars

-----------------------------------------------------------------------------
(***************************************************************************)
(* Properties                                                              *)
(***************************************************************************)

\* Every variable keeps its type.
TypeOK ==
  /\ now \in 0 .. MaxTime
  /\ pc \in Ended \cup {"resolve", "spawn", "join", "drain", "ask", "read", "check"}
  /\ route \in Routes /\ answer \in Answers /\ resolver \in Resolvers /\ addrs \in Seq(Address)
  /\ spawned \in 0 .. Len(addrs) /\ winner \in 0 .. Len(addrs)
  /\ att \in Seq({"delayed", "noSocket", "connecting", "ok", "refused", "timedOut",
                  "aborting", "aborted", "dropped", "reset"})
  /\ since \in Seq(0 .. MaxTime) /\ done \in Seq(Tasks)
  /\ \A s \in {wire, buf, sent} : s \in Seq({"200", "error", "head", "end", "data"})

\* The addresses of a family, in the order they are tried.
Positions(f) == SelectSeq(addrs, LAMBDA x : x.fam = f)

\* sort_socket_addrs loses no address, keeps the order within a family, and
\* lets the families take turns, the preferred one first, while both last.
AddressesInterleaved ==
  resolver # "System" /\ addrs # << >> =>
    LET both == 2 * Min({Len(Positions("v4")), Len(Positions("v6"))})
        first == IF resolver = "PreferV6" THEN "v6" ELSE "v4"
    IN  /\ Len(addrs) = Len(answer)
        /\ \A f \in {"v4", "v6"} : Positions(f) = SelectSeq(answer, LAMBDA x : x.fam = f)
        /\ \A n \in 1 .. both : (addrs[n].fam = first) <=> (n % 2 = 1)

\* connect gives up only when no attempt can succeed any more: every address
\* of the answer was tried, the families in turn, and refused or timed out,
\* unless a socket could not be configured, or the peer of a new connection
\* was gone at once.
FailsOnlyIfAllFailed ==
  /\ TypeOK /\ AddressesInterleaved
  /\ pc = "failed" /\ att # << >> /\ winner = 0 =>
       \/ \A i \in DOMAIN att : att[i] \in {"noSocket", "refused", "timedOut"}
       \/ spawned > Len(att)
       \/ \E i \in DOMAIN att : att[i] = "reset"

\* connect never waits longer than it has to.  Once an attempt has a stream
\* it is returned before time passes, although the loop awaits one more task
\* to end; however many addresses never answer, connect returns within
\* connect_timeout after the start of the last attempt; and every attempt
\* leaves the ones before it their 250 ms each.
ReturnsInTime ==
  /\ pc \in {"join", "drain"} =>
       /\ \A i \in DOMAIN att : att[i] = "ok" => since[i] = now
       /\ now <= Len(addrs) - 1 + ConnectTimeout
  /\ \A i \in DOMAIN att : att[i] = "connecting" => since[i] >= i - 1

\* The bytes of the destination among the pieces of s.
Data(s) == SelectSeq(s, LAMBDA x : x = "data")

\* Over a proxy the caller is given a stream only after the proxy agreed, and
\* then finds at its start the first byte of the destination (the assertion
\* at wstunnel/src/protocols/tcp/server.rs:309 reads the destination's bytes
\* first thing): no piece of the answer is left on the stream.  Two cases are
\* excepted: an answer longer than the 50 KiB that are kept, and what a
\* destination that speaks first sends in the same read as the end of the
\* answer, which is dropped with the buffer.
DestinationBytesKept ==
  Proxied /\ pc = "connected" /\ Len(buf) <= MaxHead =>
    /\ sent[1] = "200"
    /\ Data(buf) \o wire = Data(sent)
    /\ route = "waits" => Data(buf) = << >>
=============================================================================
