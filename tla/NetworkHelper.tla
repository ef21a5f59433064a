----------------------------- MODULE NetworkHelper -----------------------------
(***************************************************************************)
(* labztna/network_helper.py: threads preview, apply and roll back plans.  *)
(* An envelope is verified, bound to the helper's session and turned into  *)
(* a plan (manifest.py, RoutePlan) before the lock is taken.               *)
(***************************************************************************)
EXTENDS RoutePlan

CONSTANTS Threads,
          Binding,       \* the session the helper is for
          Envelopes,     \* the envelopes it may be handed
          NoPlan,
          MaxGeneration  \* bound on the changes

(* order: that of the claims in the manifest.  dns: the entries of its DNS *)
(* map.  flaw: the envelope's fields, key, lifetime or signature are       *)
(* wrong, or the manifest's form or its DNS map.  The lifetime may be      *)
(* right in one call and over in the next: an envelope is what one call    *)
(* makes of it.                                                            *)
ASSUME HelperAssumption ==
  /\ \A e \in Envelopes : /\ DOMAIN e = {"claims", "order", "dns", "session", "flaw"}
                          /\ e.claims \subseteq Claim
                          /\ e.flaw \in {"none", "envelope", "body"}
  /\ MaxGeneration \in Nat

VARIABLES state,     \* _state: generation, session (its virtual_ip), routes and their
                     \* order, fake_dns
          verified,  \* the plan a thread has verified and not yet used
          mirror     \* history: routes and DNS entries kept by adding and
                     \* removing as told

vars == <<state, verified, mirror>>

(* The plan build_route_plan() makes of an envelope's manifest.            *)
PlanOf(e) == [session |-> e.session, routes |-> Routes(e.claims), order |-> e.order, dns |-> e.dns]

Empty == [session |-> NoPlan, routes |-> {}, order |-> NoPlan, dns |-> {}]
Content(s) == [session |-> s.session, routes |-> s.routes, order |-> s.order, dns |-> s.dns]
At(generation, plan) ==
  [generation |-> generation, session |-> plan.session, routes |-> plan.routes,
   order |-> plan.order, dns |-> plan.dns]

Init ==
  /\ state = At(0, Empty)
  /\ verified = [t \in Threads |-> NoPlan]
  /\ mirror = [routes |-> {}, dns |-> {}]

-----------------------------------------------------------------------------
(* Envelope and manifest have the right form, DNS names and pools too.     *)
WellFormed(e) == e.flaw = "none"

(* Mutant: a valid signature is enough.                                    *)
AuthorizedAnySession(e) == WellFormed(e) /\ PlanAccepts(e.claims)

(* verify(), require_manifest_binding() and build_route_plan() succeed.    *)
Authorized(e) ==
  /\ WellFormed(e)
  /\ e.session = Binding
  /\ PlanAccepts(e.claims)

(* _verified_plan() of a preview() or an apply(); on failure it raises and *)
(* nothing changes.                                                        *)
Verify(t, kind, e) ==
  /\ verified[t] = NoPlan
  /\ Authorized(e)
  /\ verified' = [verified EXCEPT ![t] =
       [kind |-> kind, plan |-> PlanOf(e)]]
  /\ UNCHANGED <<state, mirror>>

(* _delta(): sets of routes and of DNS entries, whatever their order.      *)
Delta(before, after) ==
  [after |-> after,
   addedRoutes |-> after.routes \ before.routes, removedRoutes |-> before.routes \ after.routes,
   addedDns |-> after.dns \ before.dns, removedDns |-> before.dns \ after.dns]

(* Mutant: the DNS map is not replaced.                                    *)
ChangeKeepsDns(before, plan) ==
  Delta(before, At(before.generation + 1, [plan EXCEPT !.dns = before.dns]))

(* _change(), which compares the routes in their order: to reorder them is *)
(* a change with empty deltas.  rollback() does the same with no plan.     *)
Change(before, plan) ==
  Delta(before, IF plan = Content(before) THEN before ELSE At(before.generation + 1, plan))

Told(c) == [routes |-> (mirror.routes \ c.removedRoutes) \cup c.addedRoutes,
            dns |-> (mirror.dns \ c.removedDns) \cup c.addedDns]

(* preview() returns the change an apply() would make now.                 *)
Preview(t) ==
  /\ verified[t] # NoPlan /\ verified[t].kind = "preview"
  /\ verified' = [verified EXCEPT ![t] = NoPlan]
  /\ UNCHANGED <<state, mirror>>

(* Mutant: the change does not name the DNS entries it removes.            *)
ApplyReplacing(t) ==
  /\ verified[t] # NoPlan /\ verified[t].kind = "apply"
  /\ LET c == [Change(state, verified[t].plan) EXCEPT !.removedDns = {}]
     IN  /\ c.after.generation <= MaxGeneration
         /\ state' = c.after
         /\ mirror' = Told(c)
  /\ verified' = [verified EXCEPT ![t] = NoPlan]

Apply(t) ==
  /\ verified[t] # NoPlan /\ verified[t].kind = "apply"
  /\ LET c == Change(state, verified[t].plan)
     IN  /\ c.after.generation <= MaxGeneration
         /\ state' = c.after
         /\ mirror' = Told(c)
  /\ verified' = [verified EXCEPT ![t] = NoPlan]

(* Mutant: rolling back restores the generation too.                       *)
RollbackToZero ==
  /\ LET c == [Change(state, Empty) EXCEPT !.after.generation = 0]
     IN  /\ state' = c.after
         /\ mirror' = Told(c)
  /\ UNCHANGED verified

(* rollback(), one critical section.                                       *)
Rollback ==
  /\ LET c == Change(state, Empty)
     IN  /\ c.after.generation <= MaxGeneration
         /\ state' = c.after
         /\ mirror' = Told(c)
  /\ UNCHANGED verified

Next ==
  \/ \E t \in Threads, kind \in {"preview", "apply"}, e \in Envelopes : Verify(t, kind, e)
  \/ \E t \in Threads : Preview(t) \/ Apply(t)
  \/ Rollback

Spec == Init /\ [][Next]_vars

-----------------------------------------------------------------------------
(* What is installed comes, whole, from one envelope that was signed, in   *)
(* time and for this helper's session, in whatever order threads verify    *)
(* and take the lock; or nothing is installed.                             *)
InstalledIsAuthorized ==
  \/ Content(state) = Empty
  \/ \E e \in Envelopes :
       e.flaw = "none" /\ e.session = Binding /\ Content(state) = PlanOf(e)

(* Whoever does as the returned changes say, in the order of the critical  *)
(* sections, has the installed routes and DNS map: the deltas are against  *)
(* the state they replace, not the one at verification.                    *)
MirrorAgrees == mirror = [routes |-> state.routes, dns |-> state.dns]

(* A generation stands for one state for ever: an apply or a rollback that *)
(* changes anything counts up by one, and nothing else changes the state.  *)
GenerationNames ==
  [][/\ state'.generation \in {state.generation, state.generation + 1}
     /\ state'.generation = state.generation => state' = state]_vars

(* Whatever is installed leaves some address outside the tunnel, counted   *)
(* address by address, although no single prefix says so.                  *)
SplitTunnel == UNION {Addresses(r.prefix) : r \in state.routes} # Address

(* Every address has one owner at most: equal networks written with        *)
(* different host bits do not get two.                                     *)
OneOwner == \A a \in Address : Cardinality({r.id : r \in Lookup(state.routes, a)}) <= 1
=============================================================================
