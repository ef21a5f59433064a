-------------------------------- MODULE Access --------------------------------
(***************************************************************************)
(* The state the control plane and the gateway share, and what the control *)
(* plane may do to it: sessions open once and end once, and a grant names  *)
(* a session and an expiry.  The table itself is SessionStore; here it is  *)
(* the set of ids get_active() answers with.  A grant may be signed after  *)
(* its session ended, because grant_for() runs outside the store's lock.   *)
(***************************************************************************)
EXTENDS Integers, FiniteSets

CONSTANTS Sid,
          GrantTtl,   \* grant_ttl_seconds, 120
          MaxTime     \* bound on the clock

ASSUME AccessAssumption == GrantTtl \in Nat \ {0} /\ MaxTime \in Nat

VARIABLES clock,      \* int(time.time())
          active,     \* sessions get_active() answers with
          opened,     \* sessions ever created
          grants      \* tokens signed so far

accessVars == <<clock, active, opened, grants>>

Grant == [sid : Sid, exp : Nat]

AccessTypeOK ==
  /\ clock \in Nat
  /\ active \in SUBSET opened
  /\ opened \in SUBSET Sid
  /\ grants \in SUBSET Grant

AccessInit ==
  /\ clock = 0
  /\ active = {}
  /\ opened = {}
  /\ grants = {}

(* sessions.create() by a login.                                           *)
Open(s) ==
  /\ s \notin opened
  /\ opened' = opened \cup {s}
  /\ active' = active \cup {s}
  /\ UNCHANGED <<clock, grants>>

(* revoke(), or a lookup that finds the session idle or too old.           *)
End(s) ==
  /\ s \in active
  /\ active' = active \ {s}
  /\ UNCHANGED <<clock, opened, grants>>

(* Mutant: the lifetime is subtracted from the time of issue.              *)
IssueBackdated(s) ==
  /\ s \in opened
  /\ grants' = grants \cup {[sid |-> s, exp |-> clock - GrantTtl]}
  /\ UNCHANGED <<clock, active, opened>>

(* grant_for(): TokenSigner.issue with exp = now + ttl.                    *)
Issue(s) ==
  /\ s \in opened
  /\ grants' = grants \cup {[sid |-> s, exp |-> clock + GrantTtl]}
  /\ UNCHANGED <<clock, active, opened>>

Advance ==
  /\ clock < MaxTime
  /\ clock' = clock + 1
  /\ UNCHANGED <<active, opened, grants>>

AccessNext == Advance \/ \E s \in Sid : Open(s) \/ End(s) \/ Issue(s)

AccessSpec == AccessInit /\ [][AccessNext]_accessVars
=============================================================================
