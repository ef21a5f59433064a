-------------------------------- MODULE MCStack --------------------------------
(* Stack for TLC.                                                          *)
EXTENDS Stack

CONSTANTS s1, c1, c2, r1

OneSession == {s1}
TwoConns == {c1, c2}
OneRequest == {r1}
=============================================================================
