----------------------------- MODULE MCTunnelIo -----------------------------
(* The instance of TunnelIo for TLC: chunks of data per endpoint. *)
EXTENDS TunnelIo

OneEach == [e \in Endpoints |-> 1]
OneWay == [e \in Endpoints |-> IF e = "client" THEN 2 ELSE 0]
BothWays == [e \in Endpoints |-> IF e = "client" THEN 2 ELSE 1]

Traffic ==
  [t \in Transports |->
     CASE t = "Plain" -> OneEach [] t = "Tls" -> OneWay [] t = "Http2" -> BothWays]
=============================================================================
