------------------------------- MODULE MCCli --------------------------------
(***************************************************************************)
(* The instance of Cli for TLC.                                            *)
(***************************************************************************)
EXTENDS Cli

Client(tunnels) == [command |-> "client", tunnels |-> tunnels]
NoCall == [command |-> "none", tunnels |-> <<>>]
Server == [command |-> "server", tunnels |-> <<"server">>]
Pair(a, b) == [c \in Calls |-> IF c = 1 THEN a ELSE b]

\* One call as main.rs makes it: no tunnels at all, and tunnels over stdio
\* behind others and before others.
Commands == {Pair(a, NoCall) : a \in {
  Server, Client(<<>>), Client(<<"reverse", "tcp", "stdio">>), Client(<<"tunnel", "tcp">>),
  Client(<<"reverse", "udp", "tproxy">>)}}

\* Two calls of a user of the library.
Pairs == {
  Pair(Server, Client(<<"reverse", "udp">>)),
  Pair(Client(<<"udp">>), Client(<<"tcp", "tproxy">>)),
  Pair(Client(<<>>), Client(<<"reverse", "tunnel">>))}

MCPrograms ==
  [executor : {"runtime"}, args : Commands] \cup
  [executor : {"runtime", "join set"}, args : Pairs]

\* A directory that holds a file and a directory with two files, one of them
\* empty; the third one has a line in each chunk.
MCEntries == [d \in Dirs |-> IF d = "top" THEN {"big", "sub"} ELSE {"small", "empty"}]
MCSize == [f \in Files |-> CASE f = "big" -> 2 [] f = "small" -> 1 [] OTHER -> 0]
=============================================================================
