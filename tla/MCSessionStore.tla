---------------------------- MODULE MCSessionStore ----------------------------
(* SessionStore for TLC: two sessions that need the same address.          *)
EXTENDS SessionStore

CONSTANTS s1, s2, t1, t2

TwoIds == {s1, s2}
TwoThreads == {t1, t2}
=============================================================================
