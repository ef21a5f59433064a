------------------------------ MODULE MCLabClient ------------------------------
(* LabClient for TLC: sessions are interchangeable.                        *)
EXTENDS LabClient, TLC

CONSTANTS s1, s2

TwoSessions == {s1, s2}
Symmetry == Permutations(TwoSessions)
=============================================================================
