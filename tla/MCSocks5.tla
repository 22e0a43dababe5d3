------------------------------ MODULE MCSocks5 ------------------------------
(* Instances of Socks5 for TLC. *)
EXTENDS Socks5

CONSTANTS c1, c2, k1, k2
=============================================================================
