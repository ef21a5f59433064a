----------------------------- MODULE ControlPlane -----------------------------
(***************************************************************************)
(* labztna/control.py: the HTTPS handlers for login, heartbeat, logout and *)
(* resources, one thread per request.  Each locked or clock-reading stage  *)
(* of a handler is a step; between two steps other requests run, sessions  *)
(* end and time passes.  The network may deliver a request again.          *)
(* /health and /v1/audit change no state and are left out.                 *)
(***************************************************************************)
EXTENDS Access, ReplayWindow

CONSTANTS Threads, RequestId, Otp, NoSid,
          MaxProofSkew,  \* MAX_CONTROL_PROOF_SKEW, 30 s
          ClientOffsets  \* how far the time in a request may be off the clock

ASSUME ControlAssumption ==
  /\ NoSid \notin Sid
  /\ MaxProofSkew \in Nat
  /\ ClientOffsets \subseteq Int

VARIABLES pc,         \* the stage a handler thread is at
          request,    \* the request it handles
          sid,        \* the session it authorized or created
          answer,     \* status of its response; "dropped" if it died
          usedOtp,    \* _used_otp_steps
          prunedOtp,  \* history: the used codes dropped from that set
          replayOrder,\* _control_replay_order; _control_replay_ids is its range
          forgotten,  \* history: the request ids it has forgotten at some time
          sessionsOf, \* history: how many sessions a code opened, unless pruned
          effects     \* history: how often an id ran, unless forgotten

handlerVars == <<pc, request, sid, answer>>
controlVars == <<handlerVars, usedOtp, prunedOtp, replayOrder, forgotten, sessionsOf, effects>>
vars == <<accessVars, controlVars>>

Paths == {"heartbeat", "logout", "resources"}

(* A request is what later steps depend on: whose it is, its id and its    *)
(* time, or the code of a login.  The rest of it, a JSON body, the Bearer  *)
(* header, the token, claims that fit the session, the signature, at login *)
(* the password, may be right or wrong: the check of it has both outcomes. *)
Call == [path : Paths, grant : Grant, rid : RequestId, timestamp : Int]
LoginCall == [path : {"login"}, otp : Otp]
NoCall == [path |-> "none"]

Stages == {"idle", "verify", "lookup", "prove", "consume", "operate",
           "credentials", "policy", "create", "issue", "done"}

Answers == {"none", "200", "400", "401", "403", "dropped"}

ControlTypeOK ==
  /\ AccessTypeOK
  /\ pc \in [Threads -> Stages]
  /\ request \in [Threads -> Call \cup LoginCall \cup {NoCall}]
  /\ sid \in [Threads -> Sid \cup {NoSid}]
  /\ answer \in [Threads -> Answers]
  /\ usedOtp \in SUBSET Otp
  /\ prunedOtp \in SUBSET Otp
  /\ replayOrder \in Seq(Sid \X RequestId)
  /\ forgotten \in SUBSET (Sid \X RequestId)
  /\ sessionsOf \in [Otp -> Nat]
  /\ effects \in [Sid \X RequestId -> Nat]

Init ==
  /\ AccessInit
  /\ pc = [w \in Threads |-> "idle"]
  /\ request = [w \in Threads |-> NoCall]
  /\ sid = [w \in Threads |-> NoSid]
  /\ answer = [w \in Threads |-> "none"]
  /\ usedOtp = {}
  /\ prunedOtp = {}
  /\ replayOrder = <<>>
  /\ forgotten = {}
  /\ sessionsOf = [o \in Otp |-> 0]
  /\ effects = [k \in Sid \X RequestId |-> 0]

Goto(w, stage) == pc' = [pc EXCEPT ![w] = stage]

(* A step that only moves the handler on.                                  *)
Move(w, stage) ==
  /\ Goto(w, stage)
  /\ UNCHANGED <<accessVars, request, sid, answer, usedOtp, prunedOtp, replayOrder, forgotten, sessionsOf, effects>>

(* A response is written, or the thread dies with an exception.            *)
Answer(w, status) == Goto(w, "done") /\ answer' = [answer EXCEPT ![w] = status]

Reject(w, status) ==
  /\ Answer(w, status)
  /\ UNCHANGED <<accessVars, request, sid, usedOtp, prunedOtp, replayOrder, forgotten, sessionsOf, effects>>

Finish(w) ==
  /\ pc[w] = "done"
  /\ Goto(w, "idle")
  /\ request' = [request EXCEPT ![w] = NoCall]
  /\ sid' = [sid EXCEPT ![w] = NoSid]
  /\ answer' = [answer EXCEPT ![w] = "none"]
  /\ UNCHANGED <<accessVars, usedOtp, prunedOtp, replayOrder, forgotten, sessionsOf, effects>>

Receive(w, q, stage) ==
  /\ pc[w] = "idle"
  /\ Goto(w, stage)
  /\ request' = [request EXCEPT ![w] = q]
  /\ UNCHANGED <<accessVars, sid, answer, usedOtp, prunedOtp, replayOrder, forgotten, sessionsOf, effects>>

Key(w) == <<request[w].grant.sid, request[w].rid>>

-----------------------------------------------------------------------------
(* _authorized_session(), the gate of heartbeat, logout and resources.     *)
ReceiveCall(w, q) ==
  /\ q.grant \in grants
  /\ Receive(w, q, "verify")

(* do_POST reads the body before it looks at the header; a GET has none.   *)
RejectBody(w) ==
  /\ pc[w] = "verify"
  /\ request[w].path # "resources"
  /\ Reject(w, "400")

(* No Bearer token.                                                        *)
RejectHeader(w) == pc[w] = "verify" /\ Reject(w, "401")

(* signer.verify raises TokenError: the token is expired, or no token of   *)
(* this signer.  control.py does not import that name: the except clause   *)
(* raises NameError and the thread dies unanswered.                        *)
DropToken(w) == pc[w] = "verify" /\ Reject(w, "dropped")

VerifyToken(w) ==
  /\ pc[w] = "verify"
  /\ request[w].grant.exp > clock
  /\ Move(w, "lookup")

(* There is no such session, or the claims or the request do not fit it.   *)
RejectSession(w) == pc[w] = "lookup" /\ Reject(w, "401")

LookupSession(w) ==
  /\ pc[w] = "lookup"
  /\ request[w].grant.sid \in active
  /\ Goto(w, "prove")
  /\ sid' = [sid EXCEPT ![w] = request[w].grant.sid]
  /\ UNCHANGED <<accessVars, request, answer, usedOtp, prunedOtp, replayOrder, forgotten, sessionsOf, effects>>

(* The time is too far off, or the signature is not the device's.          *)
RejectProof(w) == pc[w] = "prove" /\ Reject(w, "401")

VerifyProof(w) ==
  /\ pc[w] = "prove"
  /\ clock - request[w].timestamp <= MaxProofSkew
  /\ request[w].timestamp - clock <= MaxProofSkew
  /\ Move(w, "consume")

RejectReplay(w) == pc[w] = "consume" /\ Key(w) \in Seen(replayOrder) /\ Reject(w, "401")

(* Mutant: the id is looked up outside the lock that adds it.              *)
ConsumeUnlocked(w) ==
  /\ pc[w] = "consume"
  /\ Goto(w, "operate")
  /\ replayOrder' = Remember(replayOrder, Key(w))
  /\ forgotten' = forgotten \cup (Seen(replayOrder) \ Seen(replayOrder'))
  /\ UNCHANGED <<accessVars, request, sid, answer, usedOtp, prunedOtp, sessionsOf, effects>>

(* consume_control_request_id() of a new id, under its lock: the oldest    *)
(* one may be forgotten for it.                                            *)
ConsumeId(w) ==
  /\ pc[w] = "consume"
  /\ Key(w) \notin Seen(replayOrder)
  /\ Goto(w, "operate")
  /\ replayOrder' = Remember(replayOrder, Key(w))
  /\ forgotten' = forgotten \cup (Seen(replayOrder) \ Seen(replayOrder'))
  /\ UNCHANGED <<accessVars, request, sid, answer, usedOtp, prunedOtp, sessionsOf, effects>>

-----------------------------------------------------------------------------
(* History: the operation of a request runs (what follows once the cache   *)
(* has forgotten the id is not counted).                                   *)
Effect(w) ==
  effects' = IF Key(w) \in forgotten THEN effects ELSE [effects EXCEPT ![Key(w)] = @ + 1]

(* Mutant: a heartbeat writes the session it was given back to the table.  *)
HeartbeatRevives(w) ==
  /\ pc[w] = "operate"
  /\ request[w].path = "heartbeat"
  /\ active' = active \cup {sid[w]}
  /\ Effect(w)
  /\ Goto(w, "issue")
  /\ UNCHANGED <<clock, opened, grants, request, sid, answer, usedOtp, prunedOtp, replayOrder, forgotten, sessionsOf>>

(* sessions.heartbeat() found the session; a grant is issued next.         *)
Heartbeat(w) ==
  /\ pc[w] = "operate"
  /\ request[w].path = "heartbeat"
  /\ sid[w] \in active
  /\ Effect(w)
  /\ Goto(w, "issue")
  /\ UNCHANGED <<accessVars, request, sid, answer, usedOtp, prunedOtp, replayOrder, forgotten, sessionsOf>>

(* It ended since it was looked up.                                        *)
HeartbeatExpired(w) ==
  /\ pc[w] = "operate"
  /\ request[w].path = "heartbeat"
  /\ sid[w] \notin active
  /\ Reject(w, "401")

(* Mutant: the handler answers and leaves the revocation to the idle timer.*)
LogoutLazily(w) ==
  /\ pc[w] = "operate"
  /\ request[w].path = "logout"
  /\ Effect(w)
  /\ Answer(w, "200")
  /\ UNCHANGED <<accessVars, request, sid, usedOtp, prunedOtp, replayOrder, forgotten, sessionsOf>>

(* sessions.revoke(), whose result is ignored: ok even if it was gone.     *)
Logout(w) ==
  /\ pc[w] = "operate"
  /\ request[w].path = "logout"
  /\ active' = active \ {sid[w]}
  /\ Effect(w)
  /\ Answer(w, "200")
  /\ UNCHANGED <<clock, opened, grants, request, sid, usedOtp, prunedOtp, replayOrder, forgotten, sessionsOf>>

Resources(w) ==
  /\ pc[w] = "operate"
  /\ request[w].path = "resources"
  /\ Effect(w)
  /\ Answer(w, "200")
  /\ UNCHANGED <<accessVars, request, sid, usedOtp, prunedOtp, replayOrder, forgotten, sessionsOf>>

-----------------------------------------------------------------------------
(* /v1/login.                                                              *)
ReceiveLogin(w, q) == Receive(w, q, "credentials")

(* A malformed body, or wrong credentials.                                 *)
RejectLogin(w) ==
  /\ pc[w] = "credentials"
  /\ Reject(w, "400") \/ Reject(w, "401")

(* consume_otp() drops, under its lock, the used codes it takes for over   *)
(* and keeps the others; which those are is a matter of clocks (OtpGuard). *)
Prune(kept) == prunedOtp' = prunedOtp \cup (usedOtp \ kept)

(* A used code.  One that matches no counter is refused before the lock is *)
(* taken, like a wrong password.                                           *)
RejectUsedOtp(w) ==
  /\ pc[w] = "credentials"
  /\ \E kept \in SUBSET usedOtp :
       /\ request[w].otp \in kept
       /\ usedOtp' = kept
       /\ Prune(kept)
  /\ Answer(w, "401")
  /\ UNCHANGED <<accessVars, request, sid, replayOrder, forgotten, sessionsOf, effects>>

(* Mutant: the code is marked used only once the session exists.           *)
ConsumeOtpLate(w) ==
  /\ pc[w] = "credentials"
  /\ request[w].otp \notin usedOtp
  /\ Move(w, "policy")

ConsumeOtp(w) ==
  /\ pc[w] = "credentials"
  /\ \E kept \in SUBSET usedOtp :
       /\ request[w].otp \notin kept
       /\ usedOtp' = kept \cup {request[w].otp}
       /\ Prune(kept)
  /\ Goto(w, "policy")
  /\ UNCHANGED <<accessVars, request, sid, answer, replayOrder, forgotten, sessionsOf, effects>>

(* The code stays consumed when the policy refuses ...                     *)
RejectPolicy(w) == pc[w] = "policy" /\ Reject(w, "403")

PolicyAllows(w) == pc[w] = "policy" /\ Move(w, "create")

(* ... and when the pool is exhausted: RuntimeError ends the thread.       *)
CreateFailed(w) == pc[w] = "create" /\ Reject(w, "dropped")

(* History: a code opens a session.                                        *)
CountSession(o) ==
  sessionsOf' = IF o \in prunedOtp THEN sessionsOf ELSE [sessionsOf EXCEPT ![o] = @ + 1]

CreateSession(w, s) ==
  /\ pc[w] = "create"
  /\ Open(s)
  /\ sid' = [sid EXCEPT ![w] = s]
  /\ CountSession(request[w].otp)
  /\ Goto(w, "issue")
  /\ UNCHANGED <<request, answer, usedOtp, prunedOtp, replayOrder, forgotten, effects>>

(* grant_for() and the response, for a login or a heartbeat.               *)
IssueGrant(w) ==
  /\ pc[w] = "issue"
  /\ Issue(sid[w])
  /\ Answer(w, "200")
  /\ UNCHANGED <<request, sid, usedOtp, prunedOtp, replayOrder, forgotten, sessionsOf, effects>>

-----------------------------------------------------------------------------
(* The client writes the time of its own clock, which may be ahead or      *)
(* behind; and a request takes its time to arrive.                         *)
Timestamps == {clock + d : d \in ClientOffsets}

Step(w) ==
  \/ RejectBody(w) \/ RejectHeader(w) \/ DropToken(w) \/ VerifyToken(w)
  \/ RejectSession(w) \/ LookupSession(w) \/ RejectProof(w) \/ VerifyProof(w)
  \/ RejectReplay(w) \/ ConsumeId(w)
  \/ Heartbeat(w) \/ HeartbeatExpired(w) \/ Logout(w) \/ Resources(w)
  \/ RejectLogin(w) \/ RejectUsedOtp(w) \/ ConsumeOtp(w)
  \/ RejectPolicy(w) \/ PolicyAllows(w) \/ CreateFailed(w)
  \/ (\E s \in Sid : CreateSession(w, s)) \/ IssueGrant(w)
  \/ Finish(w)

Next ==
  \/ \E w \in Threads : Step(w)
  \/ \E w \in Threads, o \in Otp : ReceiveLogin(w, [path |-> "login", otp |-> o])
  \/ \E w \in Threads, p \in Paths, g \in grants, r \in RequestId, ts \in Timestamps :
       ReceiveCall(w, [path |-> p, grant |-> g, rid |-> r, timestamp |-> ts])
  \/ (Advance \/ \E s \in Sid : End(s)) /\ UNCHANGED controlVars

Spec == Init /\ [][Next]_vars

-----------------------------------------------------------------------------
(* Whatever the handlers interleave to, the gateway sees sessions that     *)
(* open once, end once and never come back, and grants of real sessions:   *)
(* the environment Gateway is checked in.                                  *)
ImplementsAccess == AccessSpec

(* A signed request runs its operation once, although copies of it pass    *)
(* the token, session and signature checks at the same time, as long as    *)
(* the bounded cache has not forgotten its id; and the cache forgets       *)
(* nothing before it is full (how soon it forgets then: ReplayCache).      *)
EffectOnce ==
  /\ \A k \in (Sid \X RequestId) \ forgotten : effects[k] <= 1
  /\ forgotten # {} => Len(replayOrder) = MaxReplayIds

(* A one-time code opens one session at most, also when the login request  *)
(* is delivered twice or the client retries it, as long as it has not been *)
(* pruned from the used ones (when it may be: OtpGuard).                   *)
LoginOncePerOtp == \A o \in Otp \ prunedOtp : sessionsOf[o] <= 1

(* When a logout is answered with 200 its session is over, also when       *)
(* revoke() found nothing or a heartbeat of the session was under way.     *)
LogoutFinal ==
  \A w \in Threads :
    pc[w] = "done" /\ answer[w] = "200" /\ request[w].path = "logout"
      => sid[w] \notin active

(* control.py:225-227: an invalid or expired token is answered with 401.   *)
InvalidTokenAnswered ==
  \A w \in Threads :
    pc[w] = "done" /\ request[w].path \in Paths => answer[w] # "dropped"
=============================================================================
