--------------------------- MODULE MCNetworkHelper ---------------------------
(* NetworkHelper and PacketPath for TLC: addresses of three bits and two   *)
(* resources.  Manifests have sets of one or two claims, or a few larger   *)
(* ones that only together are a full tunnel; one manifest also comes with *)
(* its routes in another order, two with other DNS maps.  Registries have  *)
(* up to three routes.  The two share no state, and no property reads      *)
(* both, so one stands still at a start while the other one moves.         *)
EXTENDS NetworkHelper, PacketPath

CONSTANTS t1, t2, ra, rb, here, elsewhere, written, reordered, d1, d2

TwoThreads == {t1, t2}
TwoResources == {ra, rb}
Six == {6}

P(addr, len) == [addr |-> addr, len |-> len]
C(id, addr, len) == [id |-> id, prefix |-> P(addr, len)]

(* Both halves, the upper one also with host bits; a network in the upper  *)
(* half; 0.0.0.0/32; a multicast address; everything.                      *)
Written == {P(0, 1), P(4, 1), P(5, 1), P(4, 2), P(0, 3), P(6, 3), P(3, 0)}
SmallClaims ==
  {{[id |-> r, prefix |-> p], [id |-> s, prefix |-> q]} :
     r, s \in TwoResources, p, q \in Written}
TunnelClaims ==
  {{C(ra, 0, 1), C(rb, 4, 2), C(ra, 6, 2)}, {C(ra, 0, 2), C(rb, 2, 2), C(rb, 4, 1)},
   {C(ra, 0, 1), C(rb, 4, 2), C(ra, 6, 3)}}

E(claims, dns, session, flaw) ==
  [claims |-> claims, order |-> written, dns |-> dns, session |-> session, flaw |-> flaw]
SomeEnvelopes ==
  {E(c, {d1}, here, "none") : c \in SmallClaims \cup TunnelClaims}
    \cup {[E({C(ra, 0, 1), C(rb, 4, 2)}, {d1}, here, "none") EXCEPT !.order = reordered],
          E({C(ra, 0, 1)}, {d1, d2}, here, "none"), E({C(ra, 0, 1)}, {d2}, here, "none"),
          E({C(ra, 0, 1)}, {d1}, elsewhere, "none"),
          E({C(rb, 4, 2)}, {d2}, here, "envelope"), E({C(rb, 4, 2)}, {d2}, here, "body")}

(* For packets: the lower half, the upper half with and without host bits, *)
(* networks within each, one address, 0.0.0.0/32, a multicast address,     *)
(* everything.                                                             *)
RoutePrefixes ==
  {P(0, 1), P(4, 1), P(5, 1), P(4, 2), P(5, 2), P(2, 2), P(3, 3), P(0, 3), P(6, 3), P(0, 0)}
UpToThree ==
  {{[id |-> r, prefix |-> p], [id |-> s, prefix |-> q], [id |-> t, prefix |-> u]} :
     r, s, t \in TwoResources, p, q, u \in RoutePrefixes}

RoutesInit == Init /\ PacketInit
RoutesNext ==
  \/ Next /\ registry = {C(ra, 0, 1)} /\ packet = NoAddress /\ UNCHANGED packetVars
  \/ PacketNext /\ Init /\ UNCHANGED vars
RoutesSpec == RoutesInit /\ [][RoutesNext]_<<vars, packetVars>>
=============================================================================
