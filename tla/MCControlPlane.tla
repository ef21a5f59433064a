---------------------------- MODULE MCControlPlane ----------------------------
(* ControlPlane for TLC: two sessions, one code for both, and a replay     *)
(* cache that holds one of the two ids that one id makes for two sessions. *)
(* A client's clock is right, or too far ahead; a request that waits a     *)
(* unit of time is too old.  Threads and sessions are interchangeable.     *)
EXTENDS ControlPlane, TLC

CONSTANTS s1, s2, w1, w2, r1, o1

TwoSessions == {s1, s2}
TwoThreads == {w1, w2}
OneRequest == {r1}
OneCode == {o1}
RightOrAhead == {0, 1}
Symmetry == Permutations(TwoThreads) \cup Permutations(TwoSessions)
=============================================================================
