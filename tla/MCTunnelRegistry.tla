-------------------------- MODULE MCTunnelRegistry --------------------------
(* The instance of TunnelRegistry for TLC: two pods of one tunnel, as in a  *)
(* rolling update, limits at zero, absent, and far above the cap.           *)
EXTENDS TunnelRegistry

CONSTANTS p1, p2, i1, c1, c2

SameId == [p \in {p1, p2} |-> i1]

\* A rolling update; two connections of one tunnel.
MCWorlds == {<<{p1, p2}, {}>>, <<{p1}, {c1, c2}>>}

Ann(up, down, legacy) == [upload |-> up, download |-> down, legacy |-> legacy]
MCAnnotations == {NoAnnotations, Ann(0, Absent, Absent), Ann(Absent, 4096, 3)}
=============================================================================
