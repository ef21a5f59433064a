------------------------------ MODULE MCExchange ------------------------------
(* Exchange for TLC: one stream beside stream 0, payloads of at most five  *)
(* units, and frames that are wrong in one respect each.  A whole answer   *)
(* of three frames can be too long for the client (2 + 1, 2 + 5 and 2      *)
(* units), and one of four frames is too many even at its shortest (11).   *)
EXTENDS Exchange

TwoStreams == {0, 1}
TwoLimits == {2, 3}
ShortAndLong == {1, 5}
FramesOf == [tcp |-> 3, l3 |-> 2]

LegalFrames ==
  {Reply("TCP_OPEN", 1, 0, 1, {}), Reply("TCP_DATA", 1, 1, 1, {}),
   Reply("TCP_DATA", 1, 1, 0, {"FIN"}), Reply("TCP_DATA", 1, 2, 0, {"RST"}),
   Reply("TCP_DATA", 1, 2, 1, {}),
   Reply("TCP_DATA", 1, 2, 0, {"FIN"}), Reply("TCP_DATA", 1, 2, 1, {"FIN"}),
   Reply("L3_DATA", 1, 0, 1, {}), Reply("L3_DATA", 1, 1, 0, {}),
   Reply("PING", 0, 0, 0, {}), Reply("CLOSE", 0, 0, 0, {}), Reply("CLOSE", 0, 1, 0, {})}

(* In turn: bad magic, too long, unknown type, unknown flag, stream 0 for  *)
(* data, FIN with RST, RST with payload.                                   *)
BrokenFrames ==
  {[Reply("PING", 0, 0, 0, {}) EXCEPT !.magic = FALSE],
   Reply("TCP_OPEN", 1, 0, 6, {}), Reply("RESERVED", 0, 0, 0, {}),
   Reply("L3_DATA", 1, 0, 0, {"RESERVED"}), Reply("TCP_DATA", 0, 0, 0, {}),
   Reply("TCP_DATA", 1, 1, 0, {"FIN", "RST"}), Reply("TCP_DATA", 1, 1, 1, {"RST"})}

AllFrames == LegalFrames \cup BrokenFrames
=============================================================================
