------------------------------- MODULE LabClient -------------------------------
(***************************************************************************)
(* labztna/client.py: login, resources, heartbeat and logout against the   *)
(* control plane, the manifest checks of manifest.py, and the state the    *)
(* client keeps between calls.  The control plane is what Access says of   *)
(* it (ControlPlane implements Access), one job per request; a request the *)
(* client has given up on runs on, and takes effect when it will.          *)
(***************************************************************************)
EXTENDS Access, Sequences

CONSTANTS ManifestTtl,  \* ttl_seconds of ManifestSigner.issue, 120
          NoSid,
          MaxCalls      \* bound on the requests

(* Grants and manifests live equally long (control.py, manifest.py).       *)
ASSUME ClientAssumption ==
  /\ NoSid \notin Sid
  /\ ManifestTtl \in Nat /\ ManifestTtl >= GrantTtl
  /\ MaxCalls \in Nat

VARIABLES token,      \* _token
          bound,      \* the session of _binding, _session_id, _resource, _device_id
          manifest,   \* _manifest, with the expiry its envelope had
          jobs,       \* the requests sent, each with what became of it
          waiting,    \* the client waits for the answer to the last one
          loggedOut   \* history: sessions a logout() returned for

clientVars == <<token, bound, manifest, jobs, waiting, loggedOut>>
vars == <<accessVars, clientVars>>

None == [sid |-> NoSid, exp |-> 0]
Ops == {"login", "resources", "heartbeat", "logout"}

(* at: "sent", "found" (the session is created, looked up or ended),       *)
(* "granted", "answered", "refused" (a status other than 200, or no answer *)
(* at all).  sid is the session it is about, envelope the signed manifest. *)
Job == [op : Ops, at : {"sent", "found", "granted", "answered", "refused"},
        with : Grant \cup {None}, sid : Sid \cup {NoSid},
        grant : Grant \cup {None},
        envelope : [sid : Sid \cup {NoSid}, exp : Nat, genuine : BOOLEAN]]

ClientTypeOK ==
  /\ AccessTypeOK
  /\ token \in Grant \cup {None}
  /\ bound \in Sid \cup {NoSid}
  /\ manifest \in [sid : Sid \cup {NoSid}, exp : Nat]
  /\ jobs \in Seq(Job)
  /\ waiting \in BOOLEAN
  /\ loggedOut \in SUBSET Sid

Init ==
  /\ AccessInit
  /\ token = None
  /\ bound = NoSid
  /\ manifest = None
  /\ jobs = <<>>
  /\ waiting = FALSE
  /\ loggedOut = {}

-----------------------------------------------------------------------------
(* A call sends its request; all but login() need one before.              *)
Call(op) ==
  /\ ~waiting
  /\ Len(jobs) < MaxCalls
  /\ op # "login" => bound # NoSid
  /\ jobs' = Append(jobs, [op |-> op, at |-> "sent",
                           with |-> IF op = "login" THEN None ELSE token,
                           sid |-> NoSid, grant |-> None,
                           envelope |-> [sid |-> NoSid, exp |-> 0, genuine |-> FALSE]])
  /\ waiting' = TRUE
  /\ UNCHANGED <<accessVars, token, bound, manifest, loggedOut>>

(* The control plane.                                                      *)
Serve(i, job) ==
  /\ jobs' = [jobs EXCEPT ![i] = job]
  /\ UNCHANGED <<token, bound, manifest, waiting, loggedOut>>

(* Credentials, code, policy or pool; token, session, proof or request id. *)
Refuse(i) ==
  /\ jobs[i].at = "sent"
  /\ Serve(i, [jobs[i] EXCEPT !.at = "refused"])
  /\ UNCHANGED accessVars

CreateSession(i, s) ==
  /\ jobs[i].at = "sent" /\ jobs[i].op = "login"
  /\ Open(s)
  /\ Serve(i, [jobs[i] EXCEPT !.at = "found", !.sid = s])

Authorizes(grant) == grant.exp > clock /\ grant.sid \in active

FindSession(i) ==
  /\ jobs[i].at = "sent" /\ jobs[i].op \in {"resources", "heartbeat", "logout"}
  /\ Authorizes(jobs[i].with)
  /\ Serve(i, [jobs[i] EXCEPT !.at = "found", !.sid = jobs[i].with.sid])
  /\ UNCHANGED accessVars

(* sessions.heartbeat() finds the session ended.                           *)
HeartbeatExpired(i) ==
  /\ jobs[i].at = "found" /\ jobs[i].op = "heartbeat"
  /\ jobs[i].sid \notin active
  /\ Serve(i, [jobs[i] EXCEPT !.at = "refused"])
  /\ UNCHANGED accessVars

(* logout: revoke(), which may find nothing to end.                        *)
Revoke(i) ==
  /\ jobs[i].at = "found" /\ jobs[i].op = "logout"
  /\ IF jobs[i].sid \in active THEN End(jobs[i].sid) ELSE UNCHANGED accessVars
  /\ Serve(i, [jobs[i] EXCEPT !.at = "answered"])

(* grant_for(), for a login or a heartbeat that found its session.         *)
IssueGrant(i) ==
  /\ jobs[i].at = "found" /\ jobs[i].op \in {"login", "heartbeat"}
  /\ Issue(jobs[i].sid)
  /\ Serve(i, [jobs[i] EXCEPT !.at = "granted",
                              !.grant = [sid |-> jobs[i].sid, exp |-> clock + GrantTtl]])

(* manifest_envelope_for(), after grant_for() in both handlers.  The       *)
(* client does not rely on it: the envelope that arrives may be no genuine *)
(* one, or one of another session.                                         *)
Signed(s, genuine) == [sid |-> s, exp |-> clock + ManifestTtl, genuine |-> genuine]

SignManifest(i, s, genuine) ==
  /\ jobs[i].at = IF jobs[i].op = "resources" THEN "found" ELSE "granted"
  /\ s \in opened
  /\ Serve(i, [jobs[i] EXCEPT !.at = "answered", !.envelope = Signed(s, genuine)])
  /\ UNCHANGED accessVars

-----------------------------------------------------------------------------
(* The client again.                                                       *)
Last == jobs[Len(jobs)]
Answered(op) == waiting /\ Last.op = op /\ Last.at = "answered"

(* ManifestVerifier.verify().                                              *)
Verifies(envelope) == envelope.genuine /\ envelope.exp > clock

(* Mutant: an envelope of any session will do.                             *)
BoundToAny(envelope, s) == TRUE

(* require_manifest_binding().                                             *)
BoundTo(envelope, s) == envelope.sid = s

Accepts(envelope, s) == Verifies(envelope) /\ BoundTo(envelope, s)

Received == [sid |-> Last.envelope.sid, exp |-> Last.envelope.exp]

(* The binding of a login is made of what the answer says.                 *)
LoginReturns ==
  /\ Answered("login")
  /\ Accepts(Last.envelope, Last.sid)
  /\ token' = Last.grant
  /\ bound' = Last.sid
  /\ manifest' = Received
  /\ waiting' = FALSE
  /\ UNCHANGED <<accessVars, jobs, loggedOut>>

ResourcesReturns ==
  /\ Answered("resources")
  /\ Accepts(Last.envelope, bound)
  /\ manifest' = Received
  /\ waiting' = FALSE
  /\ UNCHANGED <<accessVars, token, bound, jobs, loggedOut>>

(* Mutant: the new manifest is checked and not kept.                       *)
HeartbeatKeepsManifest ==
  /\ Answered("heartbeat")
  /\ Accepts(Last.envelope, bound)
  /\ token' = Last.grant
  /\ waiting' = FALSE
  /\ UNCHANGED <<accessVars, bound, manifest, jobs, loggedOut>>

HeartbeatReturns ==
  /\ Answered("heartbeat")
  /\ Accepts(Last.envelope, bound)
  /\ token' = Last.grant
  /\ manifest' = Received
  /\ waiting' = FALSE
  /\ UNCHANGED <<accessVars, bound, jobs, loggedOut>>

(* Mutant: the status of the answer is not looked at.                      *)
LogoutIgnoresStatus ==
  /\ waiting /\ Last.op = "logout" /\ Last.at \in {"answered", "refused"}
  /\ token' = None
  /\ bound' = NoSid
  /\ manifest' = None
  /\ waiting' = FALSE
  /\ loggedOut' = loggedOut \cup {bound}
  /\ UNCHANGED <<accessVars, jobs>>

LogoutReturns ==
  /\ Answered("logout")
  /\ token' = None
  /\ bound' = NoSid
  /\ manifest' = None
  /\ waiting' = FALSE
  /\ loggedOut' = loggedOut \cup {bound}
  /\ UNCHANGED <<accessVars, jobs>>

(* The call raises: refused, no answer in time, an answer cut short or one *)
(* it does not accept.  Nothing the client holds changes.                  *)
CallFails ==
  /\ waiting
  /\ waiting' = FALSE
  /\ UNCHANGED <<accessVars, token, bound, manifest, jobs, loggedOut>>

(* route_plan(), resolve() and send_l3() go by the cached manifest if it   *)
(* is bound to the session, whatever its age; they change nothing.         *)
UsesManifest == bound # NoSid /\ manifest.sid = bound

(* Sessions also end by age and other clients open theirs.                 *)
Others ==
  /\ Advance \/ \E s \in Sid : End(s) \/ Open(s)
  /\ UNCHANGED clientVars

Next ==
  \/ \E op \in Ops : Call(op)
  \/ \E i \in 1..Len(jobs) :
       \/ Refuse(i) \/ FindSession(i) \/ HeartbeatExpired(i) \/ Revoke(i) \/ IssueGrant(i)
       \/ \E s \in Sid : CreateSession(i, s)
       \/ \E s \in Sid, genuine \in BOOLEAN : SignManifest(i, s, genuine)
  \/ LoginReturns \/ ResourcesReturns \/ HeartbeatReturns \/ LogoutReturns \/ CallFails
  \/ Others

Spec == Init /\ [][Next]_vars

-----------------------------------------------------------------------------
(* Token, binding and manifest are always of one session, or there is none *)
(* of them: whatever envelopes arrive, and whichever calls fail half way   *)
(* through a change of session.                                            *)
ClientConsistent ==
  /\ ClientTypeOK
  /\ token.sid = bound
  /\ manifest.sid = bound

(* A plan made of a manifest that has expired meanwhile is of no use: the  *)
(* token that goes with it has expired too and the gateway refuses it.     *)
(* Grants are signed before manifests and live no longer, a heartbeat      *)
(* replaces both, and resources() only the manifest.  (The client itself   *)
(* uses it: DESIGN.md:69 would have it refused.)                           *)
StalePlanUseless == UsesManifest /\ Authorizes(token) => manifest.exp > clock

(* The session of a logout() that returned has ended, although the client  *)
(* only sees a status, and an earlier request may still be at work.        *)
LoggedOutEnded == loggedOut \cap active = {}
=============================================================================
