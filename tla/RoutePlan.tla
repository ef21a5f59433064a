------------------------------- MODULE RoutePlan -------------------------------
(***************************************************************************)
(* labztna/routeplan.py with the prefix tests of policy.py and the packet  *)
(* test of gateway.py: which sets of routes a client accepts, where it     *)
(* sends an address, and what the gateway of a resource takes.  Addresses  *)
(* have Width bits; a prefix may have host bits set, as strict=False lets  *)
(* it.  A claim is one entry of a resource's route list.  Of the order of  *)
(* the entries the tests and lookups here do not depend, but for which of  *)
(* several errors is reported.                                             *)
(***************************************************************************)
EXTENDS Naturals, FiniteSets

CONSTANTS Width,      \* 32
          Multicast,  \* the addresses of 224.0.0.0/4
          Resource    \* resource ids

ASSUME RouteAssumption ==
  /\ Width \in Nat \ {0}
  /\ Multicast \subseteq 0..(2^Width - 1)

(* A fact of arithmetic, for the prover, which has no theory of powers.    *)
ASSUME PowerAssumption ==
  /\ 2^0 = 1
  /\ \A n \in 0..Width : 2^n \in Nat \ {0} /\ 2^(n + 1) = 2 * 2^n

Address == 0..(2^Width - 1)
Prefix == [addr : Address, len : 0..Width]
Claim == [id : Resource, prefix : Prefix]

Size(len) == 2^(Width - len)

(* ip_network(prefix, strict=False): the host bits are cleared.            *)
Network(p) == [p EXCEPT !.addr = @ - (@ % Size(p.len))]

Networks == {Network(p) : p \in Prefix}

Addresses(p) == LET n == Network(p) IN n.addr..(n.addr + Size(n.len) - 1)

(* is_unspecified and is_multicast speak of a network's both ends.         *)
PermittedInRegistry(p) == p.len > 0 /\ ~(Addresses(p) \subseteq Multicast)
Permitted(p) == PermittedInRegistry(p) /\ Addresses(p) # {0}

(* Mutant: only a prefix of length zero counts.                            *)
CoversEntireLiterally(prefixes) == \E p \in prefixes : p.len = 0

(* collapse_addresses merges the two halves of a network into it as long   *)
(* as it finds such a pair.                                                *)
Lower(n) == [addr |-> n.addr, len |-> n.len + 1]
Upper(n) == [addr |-> n.addr + Size(n.len + 1), len |-> n.len + 1]

Collapse(nets) ==
  LET merged[n \in Networks] ==
        \/ n \in nets
        \/ n.len < Width /\ merged[Lower(n)] /\ merged[Upper(n)]
  IN  merged

(* covers_entire_ipv4                                                      *)
CoversEntire(prefixes) ==
  Collapse({Network(p) : p \in prefixes})[[addr |-> 0, len |-> 0]]

(* ResourceDefinition.__post_init__ for each resource, then                *)
(* ResourceRegistry.__init__ for all of them.                              *)
RegistryAccepts(claims) ==
  /\ \A c \in claims : PermittedInRegistry(c.prefix)
  /\ \A r \in Resource : ~CoversEntire({c.prefix : c \in {d \in claims : d.id = r}})
  /\ ~CoversEntire({c.prefix : c \in claims})

(* Mutant: routes are kept, and owners compared, as they are written.      *)
RoutesAsWritten(claims) == claims

(* The entries of a plan: one for each network and owner.                  *)
Routes(claims) == {[id |-> c.id, prefix |-> Network(c.prefix)] : c \in claims}

(* build_route_plan() raises no ManifestError for the routes.              *)
PlanAccepts(claims) ==
  /\ \A r \in Routes(claims) : Permitted(r.prefix)
  /\ \A r, s \in Routes(claims) : r.prefix = s.prefix => r.id = s.id
  /\ ~CoversEntire({r.prefix : r \in Routes(claims)})

(* RoutePlan.lookup(): the longest match; of equal ones, any.              *)
Matches(routes, a) == {r \in routes : a \in Addresses(r.prefix)}
Lookup(routes, a) ==
  {r \in Matches(routes, a) : \A s \in Matches(routes, a) : s.prefix.len <= r.prefix.len}

(* Mutant: the search for a route ends with the first address of each.     *)
GatewayTakesFirst(claims, r, a) == \E c \in claims : c.id = r /\ a = Network(c.prefix).addr

(* _handle_l3() of a session for resource r, whose definition has these    *)
(* routes, finds one for the address: any of them, as they are written.    *)
GatewayTakes(claims, r, a) == \E c \in claims : c.id = r /\ a \in Addresses(c.prefix)
=============================================================================
