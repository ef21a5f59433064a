------------------------------- MODULE MCGateway -------------------------------
(* Gateway for TLC: connections are interchangeable, and so are request    *)
(* ids.  The cache holds one of the two.                                   *)
EXTENDS Gateway, TLC

CONSTANTS s1, c1, c2, c3, r1, r2

OneSession == {s1}
ThreeConns == {c1, c2, c3}
TwoRequests == {r1, r2}
Symmetry == Permutations(ThreeConns) \cup Permutations(TwoRequests)
=============================================================================
