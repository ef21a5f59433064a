------------------------------ MODULE PacketPath ------------------------------
(***************************************************************************)
(* One packet from send_l3() (client.py) to the acknowledgement of         *)
(* _handle_l3() (gateway.py).  The client looks the destination up in the  *)
(* plan of the whole manifest, then sends the packet on a connection for   *)
(* the resource of its session, whoever owns the route it found; the       *)
(* gateway tests it against the routes of that resource as the registry    *)
(* has them.  The handshake has succeeded and the source address is the    *)
(* session's, to which require_manifest_binding() has bound the plan.      *)
(***************************************************************************)
EXTENDS RoutePlan

CONSTANTS Home,        \* the resource of the session: login()'s answer, the grant
          RouteLists,  \* the route lists of a registry's resources
          NoAddress

ASSUME PacketAssumption ==
  /\ Home \in Resource
  /\ \A claims \in RouteLists : claims \subseteq Claim

VARIABLES registry,  \* the claims of the registry, which its manifest repeats
          packet,    \* the destination of the call of send_l3(), if any
          result     \* what has become of it

packetVars == <<registry, packet, result>>

(* "refused": route_plan() raises; "unrouted": no route is found; "sent":  *)
(* on the wire; "denied": the gateway closes the connection.               *)
Results == {"none", "refused", "unrouted", "sent", "acknowledged", "denied"}

(* A registry that raises does not start.                                  *)
PacketInit ==
  /\ registry \in {claims \in RouteLists : RegistryAccepts(claims)}
  /\ packet = NoAddress
  /\ result = "none"

SendL3(a) ==
  /\ packet = NoAddress
  /\ packet' = a
  /\ result' = CASE ~PlanAccepts(registry) -> "refused"
                 [] PlanAccepts(registry) /\ Lookup(Routes(registry), a) = {} -> "unrouted"
                 [] OTHER -> "sent"
  /\ UNCHANGED registry

HandleL3 ==
  /\ result = "sent"
  /\ result' = IF GatewayTakes(registry, Home, packet) THEN "acknowledged" ELSE "denied"
  /\ UNCHANGED <<registry, packet>>

(* send_l3() returns or raises, and may be called again.                   *)
SendL3Returns ==
  /\ result \in Results \ {"none", "sent"}
  /\ packet' = NoAddress
  /\ result' = "none"
  /\ UNCHANGED registry

PacketNext == (\E a \in Address : SendL3(a)) \/ HandleL3 \/ SendL3Returns

PacketSpec == PacketInit /\ [][PacketNext]_packetVars

-----------------------------------------------------------------------------
(* "Send one authorized user-space L3 frame and return its gateway ack."   *)
(* (send_l3): a packet the client found a route for is acknowledged.  True *)
(* of one resource (OneResourceAcknowledged), and not of two.              *)
RoutedIsAcknowledged == result # "denied"

(* It is when the longest match belongs to the session's resource: the     *)
(* client's normalised routes and the gateway's search over the written    *)
(* ones, with host bits and in any order, then agree.                      *)
HomeRoutedIsAcknowledged ==
  result = "denied" => \A r \in Lookup(Routes(registry), packet) : r.id # Home

(* One prefix for several resources, in whatever spellings, fails closed:  *)
(* the registry serves it, and no packet is sent on its account.           *)
AmbiguityFailsClosed ==
  result \in {"sent", "acknowledged", "denied"} =>
    \A c, d \in registry : Network(c.prefix) = Network(d.prefix) => c.id = d.id
=============================================================================
