---------------------------- MODULE MCUdpServer ----------------------------
(* The instance of UdpServer for TLC. *)
EXTENDS UdpServer

CONSTANTS p1, p2
=============================================================================
