----------------------- MODULE MCReverseTunnelServer -----------------------
(* The instance of ReverseTunnelServer for TLC: all requests ask for one address. *)
EXTENDS ReverseTunnelServer

CONSTANTS r1, r2, addr

OneAddr == [r \in Requests |-> addr]
=============================================================================
