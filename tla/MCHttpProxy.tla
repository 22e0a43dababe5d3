---------------------------- MODULE MCHttpProxy ----------------------------
(* Instances of HttpProxy for TLC. *)
EXTENDS HttpProxy, TLC

CONSTANTS c1, c2

Plain == [method : {"CONNECT", "other"}, scheme : {"http"}, host : {"valid"},
          port : {"none"}, auth : {"right"}, fits : {Whole}, waits : {TRUE}]

\* The scheme matters without a port and not after a CONNECT, which alone waits.
AnyRequest == {r \in Request :
                 /\ r.scheme = "http" \/ (r.method = "other" /\ r.port = "none")
                 /\ r.waits \/ r.method = "CONNECT"}

\* One client asks for anything, the other for a plain tunnel of either kind.
AnyAndPlain == {(c1 :> r) @@ (c2 :> q) : r \in AnyRequest, q \in Plain}
=============================================================================
