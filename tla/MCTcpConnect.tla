---------------------------- MODULE MCTcpConnect ----------------------------
(* Instances of TcpConnect for TLC. *)
EXTENDS TcpConnect
=============================================================================
