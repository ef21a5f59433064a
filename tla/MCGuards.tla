------------------------------- MODULE MCGuards -------------------------------
(* OtpGuard and ReplayCache for TLC: the memories of one-time codes and of *)
(* request ids.  They share no state, and no property reads both, so one   *)
(* stands still at its start while the other one moves.                    *)
EXTENDS OtpGuard, ReplayCache, TLC

CONSTANTS t1, t2, r1, r2, r3, r4, h1, h2

TwoThreads == {t1, t2}
(* Counters 2 and 4 share a code, as two six-digit codes may.              *)
SharedCode(k) == IF k = 4 THEN 2 ELSE k

Requests == {r1, r2, r3, r4}
TwoHandlers == {h1, h2}

GuardsInit == OtpInit /\ Init
GuardsNext ==
  \/ OtpNext /\ Init /\ UNCHANGED vars
  \/ Next /\ OtpInit /\ UNCHANGED otpVars
GuardsSpec == GuardsInit /\ [][GuardsNext]_<<otpVars, vars>>

Symmetry ==
  Permutations(TwoThreads) \cup Permutations(Requests) \cup Permutations(TwoHandlers)
=============================================================================
