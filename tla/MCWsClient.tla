----------------------------- MODULE MCWsClient -----------------------------
(* The instance of WsClient for TLC. *)
EXTENDS WsClient

CONSTANTS f1, f2
=============================================================================
