---------------------------- MODULE LabClientProofs ----------------------------
(***************************************************************************)
(* The client against the control plane, for any number of calls and       *)
(* sessions.  What the client holds is consistent because of what its last *)
(* request was made with, and what an answered request has already done.   *)
(***************************************************************************)
EXTENDS LabClient, SequenceTheorems, TLAPS

GrantOps == {"login", "heartbeat"}

(* What became of a request, by its stage.                                 *)
JobOK(j) ==
  /\ j.op # "login" => j.with.exp <= clock + GrantTtl
  /\ j.at = "granted" => j.op \in GrantOps
  /\ j.at \in {"found", "granted", "answered"} =>
       j.sid \in opened /\ (j.op # "login" => j.sid = j.with.sid)
  /\ j.at \in {"granted", "answered"} /\ j.op \in GrantOps =>
       j.grant \in Grant /\ j.grant.sid = j.sid /\ j.grant.exp <= clock + GrantTtl
  /\ j.at = "answered" /\ j.op \in GrantOps => j.grant.exp <= j.envelope.exp
  /\ j.at = "answered" /\ j.op = "resources" => j.with.exp <= j.envelope.exp
  /\ j.at = "answered" /\ j.op = "logout" => j.sid \notin active

JobsOK == \A i \in 1..Len(jobs) : JobOK(jobs[i])

(* A call that waits was made with the token the client still holds.       *)
WaitingOK == waiting => Len(jobs) > 0 /\ (Last.op # "login" => Last.with = token)

(* The token lives no longer than the manifest.                            *)
TokenOK == token.exp <= manifest.exp /\ token.exp <= clock + GrantTtl

LoggedOutOK == \A s \in loggedOut : s \in opened /\ s \notin active

ClientInv == ClientConsistent /\ JobsOK /\ WaitingOK /\ TokenOK /\ LoggedOutOK

(* What may happen to the shared state meanwhile.                          *)
AccessKept ==
  /\ AccessTypeOK' /\ clock <= clock' /\ opened \subseteq opened'
  /\ \A s \in opened : s \in active' => s \in active

-----------------------------------------------------------------------------
LEMMA AccessStepKept ==
  ASSUME AccessTypeOK, [AccessNext]_accessVars
  PROVE  AccessKept
<1>1. CASE Advance
  BY <1>1 DEF Advance, AccessTypeOK, AccessKept
<1>2. ASSUME NEW s \in Sid, Open(s) PROVE AccessKept
  BY <1>2 DEF Open, AccessTypeOK, AccessKept
<1>3. ASSUME NEW s \in Sid, End(s) PROVE AccessKept
  BY <1>3 DEF End, AccessTypeOK, AccessKept
<1>4. ASSUME NEW s \in Sid, Issue(s) PROVE AccessKept
  <2>1. [sid |-> s, exp |-> clock + GrantTtl] \in Grant
    BY AccessAssumption DEF AccessTypeOK, Grant
  <2> QED
    BY <1>4, <2>1 DEF Issue, AccessTypeOK, AccessKept
<1>5. CASE UNCHANGED accessVars
  BY <1>5 DEF accessVars, AccessTypeOK, AccessKept
<1> QED
  BY <1>1, <1>2, <1>3, <1>4, <1>5 DEF AccessNext

(* An expiry within a lifetime from now is so from any later time too.     *)
LEMMA Later == \A now, then, e, ttl \in Nat : now <= then /\ e <= now + ttl => e <= then + ttl
OBVIOUS

(* A job's promises outlast what others do.                                *)
LEMMA JobKept ==
  ASSUME AccessTypeOK, AccessKept, NEW j \in Job, JobOK(j)
  PROVE  JobOK(j)'
<1>0. clock \in Nat /\ clock' \in Nat /\ clock <= clock' /\ GrantTtl \in Nat
  BY AccessAssumption DEF AccessTypeOK, AccessKept
<1>1. ASSUME NEW e \in Nat, e <= clock + GrantTtl PROVE e <= clock' + GrantTtl
  BY <1>0, <1>1, Later
<1>2. j.with \in Grant \cup {None} /\ j.grant \in Grant \cup {None}
  BY DEF Job
<1>3. \A g \in Grant \cup {None} : g.exp \in Nat
  BY DEF Grant, None
<1> QED
  BY <1>1, <1>2, <1>3 DEF JobOK, AccessKept, GrantOps

LEMMA RestKept ==
  ASSUME ClientInv, AccessKept, UNCHANGED <<token, manifest, loggedOut>>
  PROVE  TokenOK' /\ LoggedOutOK'
<1>1. token.exp \in Nat /\ manifest.exp \in Nat
  BY DEF ClientInv, ClientConsistent, ClientTypeOK, Grant, None
<1> QED
  BY <1>1, AccessAssumption
  DEF ClientInv, ClientConsistent, ClientTypeOK, AccessTypeOK, TokenOK, LoggedOutOK, AccessKept

(* Other clients, and time.                                                *)
LEMMA OthersInv ==
  ASSUME ClientInv, AccessKept, UNCHANGED clientVars
  PROVE  ClientInv'
<1>1. ClientConsistent'
  BY DEF ClientInv, ClientConsistent, ClientTypeOK, AccessKept, clientVars
<1>2. JobsOK'
  BY JobKept DEF ClientInv, ClientConsistent, ClientTypeOK, JobsOK, clientVars
<1>3. WaitingOK'
  BY DEF ClientInv, WaitingOK, Last, clientVars
<1> QED
  BY <1>1, <1>2, <1>3, RestKept DEF ClientInv, clientVars

(* The control plane works on one job; the client sees nothing of it yet.  *)
LEMMA ServeInv ==
  ASSUME ClientInv, AccessKept, NEW i \in 1..Len(jobs), NEW job \in Job, Serve(i, job),
         job.op = jobs[i].op, job.with = jobs[i].with, JobOK(job)'
  PROVE  ClientInv'
<1>1. jobs \in Seq(Job) /\ jobs' = [jobs EXCEPT ![i] = job]
  BY DEF Serve, ClientInv, ClientConsistent, ClientTypeOK
<1>2. jobs' \in Seq(Job) /\ Len(jobs') = Len(jobs)
  BY <1>1, ExceptSeq
<1>3. \A k \in 1..Len(jobs) : jobs'[k] = IF k = i THEN job ELSE jobs[k]
  BY <1>1
<1>4. ClientConsistent'
  BY <1>2 DEF Serve, ClientInv, ClientConsistent, ClientTypeOK, AccessKept
<1>5. JobsOK'
  <2> SUFFICES ASSUME NEW k \in 1..Len(jobs) PROVE JobOK(jobs[k])'
    BY <1>2 DEF JobsOK
  <2>1. CASE k = i
    BY <1>3, <2>1 DEF JobOK
  <2>2. CASE k # i
    <3>1. jobs[k] \in Job /\ JobOK(jobs[k]) /\ jobs'[k] = jobs[k]
      BY <1>1, <1>3, <2>2 DEF ClientInv, JobsOK
    <3> QED
      BY <3>1, JobKept DEF ClientInv, ClientConsistent, ClientTypeOK, JobOK
  <2> QED
    BY <2>1, <2>2
<1>6. WaitingOK'
  <2> SUFFICES ASSUME waiting'
               PROVE  Len(jobs') > 0 /\ (Last.op # "login" => Last.with = token)'
    BY DEF WaitingOK
  <2>1. waiting /\ token' = token
    BY DEF Serve
  <2>2. Len(jobs) > 0 /\ (Last.op # "login" => Last.with = token)
    BY <2>1 DEF ClientInv, WaitingOK
  <2>3. Len(jobs) \in 1..Len(jobs)
    BY <1>1, <2>2, LenProperties
  <2>4. Last' = IF Len(jobs) = i THEN job ELSE Last
    BY <1>2, <1>3, <2>3 DEF Last
  <2>5. Last'.op = Last.op /\ Last'.with = Last.with
    BY <2>4 DEF Last
  <2> QED
    BY <1>2, <2>1, <2>2, <2>5
<1> QED
  BY <1>4, <1>5, <1>6, RestKept DEF ClientInv, Serve

LEMMA CallInv ==
  ASSUME ClientInv, NEW op \in Ops, Call(op)
  PROVE  ClientInv'
<1> DEFINE job == [op |-> op, at |-> "sent",
                   with |-> IF op = "login" THEN None ELSE token,
                   sid |-> NoSid, grant |-> None,
                   envelope |-> [sid |-> NoSid, exp |-> 0, genuine |-> FALSE]]
<1>1. jobs' = Append(jobs, job) /\ UNCHANGED <<accessVars, token, bound, manifest, loggedOut>>
  BY DEF Call
<1>2. job \in Job /\ jobs \in Seq(Job)
  BY DEF Job, ClientInv, ClientConsistent, ClientTypeOK
<1>3. JobOK(job)
  BY DEF JobOK, ClientInv, TokenOK
<1>4. job.op = op /\ (op # "login" => job.with = token)
  OBVIOUS
<1> HIDE DEF job
<1>5. /\ jobs' \in Seq(Job) /\ Len(jobs') = Len(jobs) + 1 /\ jobs'[Len(jobs) + 1] = job
      /\ \A k \in 1..Len(jobs) : jobs'[k] = jobs[k]
  BY <1>1, <1>2, AppendProperties
<1>6. AccessKept
  BY <1>1 DEF AccessKept, ClientInv, ClientConsistent, ClientTypeOK, AccessTypeOK, accessVars
<1>7. ClientConsistent'
  BY <1>1, <1>5 DEF Call, ClientInv, ClientConsistent, ClientTypeOK, AccessTypeOK, accessVars
<1>8. JobsOK'
  <2> SUFFICES ASSUME NEW k \in 1..Len(jobs') PROVE JobOK(jobs[k])'
    BY DEF JobsOK
  <2>1. CASE k = Len(jobs) + 1
    BY <1>1, <1>3, <1>5, <2>1 DEF JobOK, accessVars
  <2>2. CASE k \in 1..Len(jobs)
    <3>1. JobOK(jobs[k]) /\ jobs'[k] = jobs[k]
      BY <1>5, <2>2 DEF ClientInv, JobsOK
    <3> QED
      BY <1>1, <3>1 DEF JobOK, accessVars
  <2> QED
    BY <1>2, <1>5, <2>1, <2>2
<1>9. WaitingOK'
  BY <1>1, <1>2, <1>4, <1>5 DEF WaitingOK, Last
<1> QED
  BY <1>1, <1>6, <1>7, <1>8, <1>9, RestKept DEF ClientInv

-----------------------------------------------------------------------------
(* The steps of the control plane.                                         *)
LEMMA ServerInv ==
  ASSUME ClientInv, NEW i \in 1..Len(jobs),
         \/ Refuse(i) \/ FindSession(i) \/ HeartbeatExpired(i) \/ Revoke(i) \/ IssueGrant(i)
         \/ \E s \in Sid : CreateSession(i, s)
         \/ \E s \in Sid, genuine \in BOOLEAN : SignManifest(i, s, genuine)
  PROVE  ClientInv'
<1>1. PICK j \in Job : AccessTypeOK /\ j = jobs[i] /\ JobOK(j)
  BY DEF ClientInv, ClientConsistent, ClientTypeOK, JobsOK
<1>2. clock \in Nat /\ GrantTtl \in Nat /\ ManifestTtl \in Nat /\ GrantTtl <= ManifestTtl
  BY <1>1, AccessAssumption, ClientAssumption DEF AccessTypeOK
<1>3. CASE Refuse(i) \/ HeartbeatExpired(i)
  <2> DEFINE job == [j EXCEPT !.at = "refused"]
  <2>1. Serve(i, job) /\ UNCHANGED accessVars
    BY <1>1, <1>3 DEF Refuse, HeartbeatExpired
  <2>2. AccessKept
    BY <1>1, <2>1, AccessStepKept
  <2>3. job \in Job /\ job.op = j.op /\ job.with = j.with
    BY <1>1 DEF Job
  <2>4. JobOK(job)'
    BY <1>1, <2>1 DEF Job, JobOK, accessVars
  <2> HIDE DEF job
  <2> QED
    BY <2>1, <2>2, <2>3, <2>4, <1>1, ServeInv
<1>4. CASE FindSession(i)
  <2> DEFINE job == [j EXCEPT !.at = "found", !.sid = j.with.sid]
  <2>1. /\ Serve(i, job) /\ UNCHANGED accessVars
        /\ j.at = "sent" /\ j.op \in {"resources", "heartbeat", "logout"} /\ j.with.sid \in active
    BY <1>1, <1>4 DEF FindSession, Authorizes
  <2>2. AccessKept
    BY <1>1, <2>1, AccessStepKept
  <2>3. j.with.sid \in opened /\ j.with.sid \in Sid
    BY <1>1, <2>1 DEF AccessTypeOK
  <2>4. job \in Job /\ job.op = j.op /\ job.with = j.with
    BY <1>1, <2>3 DEF Job
  <2>5. JobOK(job)'
    BY <1>1, <2>1, <2>3 DEF Job, JobOK, accessVars
  <2> HIDE DEF job
  <2> QED
    BY <2>1, <2>2, <2>4, <2>5, <1>1, ServeInv
<1>5. CASE Revoke(i)
  <2> DEFINE job == [j EXCEPT !.at = "answered"]
  <2>1. /\ Serve(i, job) /\ j.at = "found" /\ j.op = "logout"
        /\ IF j.sid \in active THEN End(j.sid) ELSE UNCHANGED accessVars
    BY <1>1, <1>5 DEF Revoke
  <2>2. j.sid \in opened /\ j.sid \in Sid
    BY <1>1, <2>1 DEF JobOK, AccessTypeOK
  <2>3. [AccessNext]_accessVars
    BY <2>1, <2>2 DEF AccessNext
  <2>4. AccessKept
    BY <1>1, <2>3, AccessStepKept
  <2>5. j.sid \notin active' /\ clock' = clock
    BY <2>1 DEF End, accessVars
  <2>6. job \in Job /\ job.op = j.op /\ job.with = j.with
    BY <1>1 DEF Job
  <2>7. JobOK(job)'
    BY <1>1, <2>1, <2>2, <2>4, <2>5 DEF Job, JobOK, GrantOps, AccessKept
  <2> HIDE DEF job
  <2> QED
    BY <2>1, <2>4, <2>6, <2>7, <1>1, ServeInv
<1>6. CASE IssueGrant(i)
  <2>0. PICK grant : grant = [sid |-> j.sid, exp |-> clock + GrantTtl]
    OBVIOUS
  <2> DEFINE job == [j EXCEPT !.at = "granted", !.grant = grant]
  <2>1. Serve(i, job) /\ j.at = "found" /\ j.op \in {"login", "heartbeat"} /\ Issue(j.sid)
    BY <1>1, <1>6, <2>0 DEF IssueGrant
  <2>2. j.sid \in opened /\ j.sid \in Sid
    BY <1>1, <2>1 DEF JobOK, AccessTypeOK
  <2>3. AccessKept
    BY <1>1, <2>1, <2>2, AccessStepKept DEF AccessNext
  <2>4. grant \in Grant /\ grant.sid = j.sid /\ grant.exp = clock + GrantTtl
    BY <1>2, <2>0, <2>2 DEF Grant
  <2>5. job \in Job /\ job.op = j.op /\ job.with = j.with
    BY <1>1, <2>4 DEF Job
  <2>6. UNCHANGED <<clock, active, opened>>
    BY <2>1 DEF Issue
  <2>7. JobOK(job)'
    BY <1>1, <1>2, <2>1, <2>2, <2>4, <2>6 DEF Job, JobOK, GrantOps
  <2> HIDE DEF job
  <2> QED
    BY <2>1, <2>3, <2>5, <2>7, <1>1, ServeInv
<1>7. ASSUME NEW s \in Sid, CreateSession(i, s) PROVE ClientInv'
  <2> DEFINE job == [j EXCEPT !.at = "found", !.sid = s]
  <2>1. Serve(i, job) /\ j.at = "sent" /\ j.op = "login" /\ Open(s)
    BY <1>1, <1>7 DEF CreateSession
  <2>2. AccessKept
    BY <1>1, <2>1, AccessStepKept DEF AccessNext
  <2>3. job \in Job /\ job.op = j.op /\ job.with = j.with
    BY <1>1 DEF Job
  <2>4. JobOK(job)'
    BY <1>1, <2>1 DEF Job, JobOK, Open
  <2> HIDE DEF job
  <2> QED
    BY <2>1, <2>2, <2>3, <2>4, <1>1, ServeInv
<1>8. ASSUME NEW s \in Sid, NEW genuine \in BOOLEAN, SignManifest(i, s, genuine) PROVE ClientInv'
  <2>0. PICK envelope : envelope = Signed(s, genuine)
    OBVIOUS
  <2> DEFINE job == [j EXCEPT !.at = "answered", !.envelope = envelope]
  <2>1. /\ Serve(i, job) /\ UNCHANGED accessVars
        /\ j.at = IF j.op = "resources" THEN "found" ELSE "granted"
    BY <1>1, <1>8, <2>0 DEF SignManifest
  <2>2. AccessKept
    BY <1>1, <2>1, AccessStepKept
  <2>3. /\ envelope \in [sid : Sid \cup {NoSid}, exp : Nat, genuine : BOOLEAN]
        /\ envelope.exp = clock + ManifestTtl
    BY <1>2, <2>0 DEF Signed
  <2>4. job \in Job /\ job.op = j.op /\ job.with = j.with
    BY <1>1, <2>3 DEF Job
  <2>5. \A g \in Grant \cup {None} : g.exp \in Nat
    BY DEF Grant, None
  <2>6. j.with.exp \in Nat /\ j.grant.exp \in Nat
    BY <1>1, <2>5 DEF Job
  <2>7. JobOK(job)'
    BY <1>1, <1>2, <2>1, <2>3, <2>6 DEF Job, JobOK, GrantOps, accessVars
  <2> HIDE DEF job
  <2> QED
    BY <2>1, <2>2, <2>4, <2>7, <1>1, ServeInv
<1> QED
  BY <1>3, <1>4, <1>5, <1>6, <1>7, <1>8

-----------------------------------------------------------------------------
(* The client takes the answer to its last request.                        *)
LEMMA ReturnInv ==
  ASSUME ClientInv,
         LoginReturns \/ ResourcesReturns \/ HeartbeatReturns \/ LogoutReturns \/ CallFails
  PROVE  ClientInv'
<1>1. waiting /\ waiting' = FALSE /\ UNCHANGED <<accessVars, jobs>>
  BY DEF LoginReturns, ResourcesReturns, HeartbeatReturns, LogoutReturns, CallFails, Answered
<1>2. /\ Len(jobs) \in 1..Len(jobs) /\ (Last.op # "login" => Last.with = token)
      /\ jobs \in Seq(Job)
  BY <1>1, LenProperties DEF ClientInv, WaitingOK, ClientConsistent, ClientTypeOK
<1>3. Last \in Job /\ JobOK(Last)
  BY <1>2 DEF Last, ClientInv, JobsOK
<1>4. JobsOK' /\ WaitingOK'
  <2>1. JobsOK'
    BY <1>1 DEF ClientInv, JobsOK, JobOK, accessVars
  <2> QED
    BY <1>1, <2>1 DEF WaitingOK
<1>5. AccessTypeOK' /\ AccessKept
  BY <1>1, AccessStepKept DEF ClientInv, ClientConsistent, ClientTypeOK, AccessKept
<1>6. CASE LoginReturns
  <2>1. /\ Last.op = "login" /\ Last.at = "answered" /\ Last.envelope.sid = Last.sid
        /\ token' = Last.grant /\ bound' = Last.sid /\ manifest' = Received
        /\ loggedOut' = loggedOut
    BY <1>6 DEF LoginReturns, Answered, Accepts, BoundTo
  <2>2. /\ Last.grant \in Grant /\ Last.grant.sid = Last.sid /\ Last.sid \in Sid
        /\ Last.grant.exp <= Last.envelope.exp /\ Last.grant.exp <= clock + GrantTtl
    BY <1>3, <2>1 DEF JobOK, GrantOps, Grant
  <2>3. /\ manifest' \in [sid : Sid \cup {NoSid}, exp : Nat]
        /\ manifest'.sid = Last.sid /\ manifest'.exp = Last.envelope.exp
    BY <1>3, <2>1 DEF Received, Job
  <2>4. ClientConsistent'
    BY <1>1, <1>5, <2>1, <2>2, <2>3 DEF ClientInv, ClientConsistent, ClientTypeOK
  <2>5. TokenOK' /\ LoggedOutOK'
    BY <1>1, <2>1, <2>2, <2>3 DEF ClientInv, TokenOK, LoggedOutOK, accessVars
  <2> QED
    BY <1>4, <2>4, <2>5 DEF ClientInv
<1>7. CASE ResourcesReturns
  <2>1. /\ Last.op = "resources" /\ Last.at = "answered" /\ Last.envelope.sid = bound
        /\ manifest' = Received /\ UNCHANGED <<token, bound, loggedOut>>
    BY <1>7 DEF ResourcesReturns, Answered, Accepts, BoundTo
  <2>2. token.exp <= Last.envelope.exp
    BY <1>2, <1>3, <2>1 DEF JobOK
  <2>3. /\ manifest' \in [sid : Sid \cup {NoSid}, exp : Nat]
        /\ manifest'.sid = bound /\ manifest'.exp = Last.envelope.exp
    BY <1>3, <2>1 DEF Received, Job
  <2>4. ClientConsistent'
    BY <1>1, <1>5, <2>1, <2>3 DEF ClientInv, ClientConsistent, ClientTypeOK
  <2>5. TokenOK' /\ LoggedOutOK'
    BY <1>1, <2>1, <2>2, <2>3 DEF ClientInv, TokenOK, LoggedOutOK, accessVars
  <2> QED
    BY <1>4, <2>4, <2>5 DEF ClientInv
<1>8. CASE HeartbeatReturns
  <2>1. /\ Last.op = "heartbeat" /\ Last.at = "answered" /\ Last.envelope.sid = bound
        /\ token' = Last.grant /\ manifest' = Received /\ UNCHANGED <<bound, loggedOut>>
    BY <1>8 DEF HeartbeatReturns, Answered, Accepts, BoundTo
  <2>2. /\ Last.grant \in Grant /\ Last.grant.sid = token.sid
        /\ Last.grant.exp <= Last.envelope.exp /\ Last.grant.exp <= clock + GrantTtl
    BY <1>2, <1>3, <2>1 DEF JobOK, GrantOps
  <2>3. /\ manifest' \in [sid : Sid \cup {NoSid}, exp : Nat]
        /\ manifest'.sid = bound /\ manifest'.exp = Last.envelope.exp
    BY <1>3, <2>1 DEF Received, Job
  <2>4. ClientConsistent'
    BY <1>1, <1>5, <2>1, <2>2, <2>3 DEF ClientInv, ClientConsistent, ClientTypeOK
  <2>5. TokenOK' /\ LoggedOutOK'
    BY <1>1, <2>1, <2>2, <2>3 DEF ClientInv, TokenOK, LoggedOutOK, accessVars
  <2> QED
    BY <1>4, <2>4, <2>5 DEF ClientInv
<1>9. CASE LogoutReturns
  <2>1. /\ Last.op = "logout" /\ Last.at = "answered"
        /\ token' = None /\ bound' = NoSid /\ manifest' = None
        /\ loggedOut' = loggedOut \cup {bound}
    BY <1>9 DEF LogoutReturns, Answered
  <2>2. bound \in opened /\ bound \notin active
    BY <1>2, <1>3, <2>1 DEF JobOK, ClientInv, ClientConsistent
  <2>3. bound \in Sid
    BY <2>2 DEF ClientInv, ClientConsistent, ClientTypeOK, AccessTypeOK
  <2>4. ClientConsistent'
    BY <1>1, <1>5, <2>1, <2>3 DEF ClientInv, ClientConsistent, ClientTypeOK, None
  <2>5. TokenOK'
    <3>1. clock \in Nat /\ GrantTtl \in Nat /\ clock' = clock
      BY <1>1, AccessAssumption DEF ClientInv, ClientConsistent, ClientTypeOK, AccessTypeOK, accessVars
    <3>2. 0 <= clock' + GrantTtl
      BY <3>1
    <3> QED
      BY <2>1, <3>2 DEF TokenOK, None
  <2>6. LoggedOutOK'
    BY <1>1, <2>1, <2>2 DEF ClientInv, LoggedOutOK, accessVars
  <2> QED
    BY <1>4, <2>4, <2>5, <2>6 DEF ClientInv
<1>10. CASE CallFails
  <2>1. UNCHANGED <<token, bound, manifest, loggedOut>>
    BY <1>10 DEF CallFails
  <2>2. ClientConsistent'
    BY <1>1, <1>5, <2>1 DEF ClientInv, ClientConsistent, ClientTypeOK
  <2> QED
    BY <1>4, <1>5, <2>1, <2>2, RestKept DEF ClientInv
<1> QED
  BY <1>6, <1>7, <1>8, <1>9, <1>10

LEMMA ClientInitInv == Init => ClientInv
<1> SUFFICES ASSUME Init PROVE ClientInv
  OBVIOUS
<1>1. ClientConsistent
  <2>1. AccessTypeOK
    BY DEF Init, AccessInit, AccessTypeOK
  <2>2. jobs \in Seq(Job)
    BY DEF Init
  <2>3. None \in [sid : Sid \cup {NoSid}, exp : Nat]
    BY DEF None
  <2>4. ClientTypeOK
    BY <2>1, <2>2, <2>3 DEF Init, ClientTypeOK
  <2> QED
    BY <2>4 DEF Init, ClientConsistent, None
<1>2. JobsOK /\ WaitingOK /\ LoggedOutOK
  BY DEF Init, JobsOK, WaitingOK, LoggedOutOK
<1>3. TokenOK
  <2>1. 0 <= 0 + GrantTtl
    BY AccessAssumption
  <2> QED
    BY <2>1 DEF Init, AccessInit, TokenOK, None
<1> QED
  BY <1>1, <1>2, <1>3 DEF ClientInv

LEMMA ClientNextInv == ClientInv /\ [Next]_vars => ClientInv'
<1> SUFFICES ASSUME ClientInv, [Next]_vars PROVE ClientInv'
  OBVIOUS
<1>1. CASE Others \/ UNCHANGED vars
  <2>1. [AccessNext]_accessVars /\ UNCHANGED clientVars
    BY <1>1 DEF Others, AccessNext, vars
  <2> QED
    BY <2>1, AccessStepKept, OthersInv DEF ClientInv, ClientConsistent, ClientTypeOK
<1> QED
  BY <1>1, CallInv, ServerInv, ReturnInv DEF Next

LEMMA ClientInvariant == Spec => []ClientInv
  BY ClientInitInv, ClientNextInv, PTL DEF Spec

(* Token, binding and manifest of the client are of one session, whatever  *)
(* answers and envelopes arrive and whichever calls fail.                  *)
THEOREM ClientStaysConsistent == Spec => []ClientConsistent
<1>1. ClientInv => ClientConsistent
  BY DEF ClientInv
<1> QED
  BY <1>1, ClientInvariant, PTL

(* A token is signed before the manifest that comes with it and lives no   *)
(* longer, so an expired manifest never goes with a token the gateway      *)
(* takes.                                                                  *)
THEOREM StalePlansUseless == Spec => []StalePlanUseless
<1>1. ClientInv => StalePlanUseless
  <2> SUFFICES ASSUME ClientInv, Authorizes(token) PROVE manifest.exp > clock
    BY DEF StalePlanUseless
  <2>1. token.exp \in Nat /\ manifest.exp \in Nat /\ clock \in Nat
    BY DEF ClientInv, ClientConsistent, ClientTypeOK, AccessTypeOK, Grant, None
  <2> QED
    BY <2>1 DEF ClientInv, TokenOK, Authorizes
<1> QED
  BY <1>1, ClientInvariant, PTL

(* A logout() that returned ended the session the client was bound to.     *)
THEOREM LogoutEndsSession == Spec => []LoggedOutEnded
<1>1. ClientInv => LoggedOutEnded
  BY DEF ClientInv, LoggedOutOK, LoggedOutEnded
<1> QED
  BY <1>1, ClientInvariant, PTL
=============================================================================
