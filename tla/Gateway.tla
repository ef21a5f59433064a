------------------------------- MODULE Gateway -------------------------------
(***************************************************************************)
(* labztna/gateway.py: the accept loop with its bounded number of handler  *)
(* threads, the handshake of one connection, the TCP relay and the single  *)
(* L3 packet.  Sessions and grants come from Access and change under the   *)
(* handlers' feet.  Every wait of a handler has a timeout in the code, so  *)
(* every wait has an action that gives up.                                 *)
(***************************************************************************)
EXTENDS Access, ReplayWindow

CONSTANTS Conn, RequestId, NoSid,
          MaxConnections,  \* 32
          MaxProofSkew,    \* 30 s
          MaxRelay,        \* MAX_RELAY_BYTES, in chunks
          RelayRounds      \* MAX_RELAY_SECONDS, in receive timeouts

ASSUME GatewayAssumption ==
  /\ NoSid \notin Sid
  /\ MaxConnections \in Nat \ {0}
  /\ MaxProofSkew \in Nat
  /\ MaxRelay \in Nat
  /\ RelayRounds \in Nat \ {0}

VARIABLES slots,      \* _slots, the semaphore's value
          pc,         \* where the connection is
          hello,      \* its handshake message, until it is decided on
          sid,        \* the session it runs for
          left,       \* receive timeouts until relay_deadline
          relayed,    \* chunks transferred
          replayOrder,\* _replay_order; _replay_ids is its range (ReplayCache)
          forgotten,  \* history: the ids it has forgotten at some time
          admitted,   \* history: connections admitted with a request id
          late,       \* history: its session had ended when hello arrived
          overrun     \* history: deliveries made after its session ended

gatewayVars == <<slots, pc, hello, sid, left, relayed, replayOrder, forgotten, admitted, late, overrun>>
vars == <<accessVars, gatewayVars>>

(* What is wrong with a handshake besides time, session and request id:    *)
(* its form or token (lines 55-100), its binding to resource, subject,     *)
(* manifest, device, key or lease (108-140), its signature (144-158), or   *)
(* the policy's answer (162-174).                                          *)
Flaws == {"none", "form", "binding", "signature", "policy"}
Hello == [grant : Grant, rid : RequestId, timestamp : Nat,
          mode : {"tcp", "l3"}, flaw : Flaws]
NoHello == [flaw |-> "unread"]

Holding == {"hello", "verify", "lookup", "prove", "consume", "tcp", "upstream",
            "relay_check", "relay_recv", "l3", "closing"}
Places == {"new", "backlog", "tls", "closed"} \cup Holding

GatewayTypeOK ==
  /\ AccessTypeOK
  /\ slots \in 0..MaxConnections
  /\ pc \in [Conn -> Places]
  /\ hello \in [Conn -> Hello \cup {NoHello}]
  /\ sid \in [Conn -> Sid \cup {NoSid}]
  /\ left \in [Conn -> 0..RelayRounds]
  /\ relayed \in [Conn -> 0..MaxRelay]
  /\ replayOrder \in Seq(Sid \X RequestId)
  /\ forgotten \in SUBSET (Sid \X RequestId)
  /\ admitted \in [Sid \X RequestId -> SUBSET Conn]
  /\ late \in SUBSET Conn
  /\ overrun \in [Conn -> 0..(MaxRelay + 1)]

Init ==
  /\ AccessInit
  /\ slots = MaxConnections
  /\ pc = [c \in Conn |-> "new"]
  /\ hello = [c \in Conn |-> NoHello]
  /\ sid = [c \in Conn |-> NoSid]
  /\ left = [c \in Conn |-> 0]
  /\ relayed = [c \in Conn |-> 0]
  /\ replayOrder = <<>>
  /\ forgotten = {}
  /\ admitted = [k \in Sid \X RequestId |-> {}]
  /\ late = {}
  /\ overrun = [c \in Conn |-> 0]

Goto(c, place) == pc' = [pc EXCEPT ![c] = place]

(* A step that only moves the connection on.                               *)
Move(c, from, to) ==
  /\ pc[c] = from
  /\ Goto(c, to)
  /\ UNCHANGED <<accessVars, slots, hello, sid, left, relayed, replayOrder, forgotten, admitted, late, overrun>>

Key(c) == <<hello[c].grant.sid, hello[c].rid>>

-----------------------------------------------------------------------------
(* The accept loop: one connection at a time is accepted and does its TLS  *)
(* handshake in get_request(), for at most TLS_HANDSHAKE_TIMEOUT.          *)
Connect(c) == Move(c, "new", "backlog")

AcceptRaw(c) ==
  /\ \A d \in Conn : pc[d] # "tls"
  /\ Move(c, "backlog", "tls")

TlsFailed(c) == Move(c, "tls", "closed")

(* process_request(): a slot, without waiting for one.                     *)
TakeSlot(c) ==
  /\ pc[c] = "tls"
  /\ slots > 0
  /\ slots' = slots - 1
  /\ Goto(c, "hello")
  /\ UNCHANGED <<accessVars, hello, sid, left, relayed, replayOrder, forgotten, admitted, late, overrun>>

NoSlot(c) == slots = 0 /\ Move(c, "tls", "closed")

(* Mutant: a failed thread start keeps the slot.                           *)
SpawnFailedLeaks(c) ==
  /\ pc[c] = "tls"
  /\ slots > 0
  /\ slots' = slots - 1
  /\ Goto(c, "closed")
  /\ UNCHANGED <<accessVars, hello, sid, left, relayed, replayOrder, forgotten, admitted, late, overrun>>

(* The handler thread cannot be started: the slot goes back (a slot taken  *)
(* and given back within process_request).                                 *)
SpawnFailed(c) == slots > 0 /\ Move(c, "tls", "closed")

(* The locals of handle() are gone with it.                                *)
ForgetLocals(c) ==
  /\ sid' = [sid EXCEPT ![c] = NoSid]
  /\ left' = [left EXCEPT ![c] = 0]
  /\ relayed' = [relayed EXCEPT ![c] = 0]

(* Mutant: the slot is returned by handle() and by the finally clause.     *)
ReleaseSlotTwice(c) ==
  /\ pc[c] = "closing"
  /\ slots' = slots + 2
  /\ Goto(c, "closed")
  /\ ForgetLocals(c)
  /\ UNCHANGED <<accessVars, hello, replayOrder, forgotten, admitted, late, overrun>>

(* process_request_thread(): the finally clause, after handle() returned.  *)
ReleaseSlot(c) ==
  /\ pc[c] = "closing"
  /\ slots' = slots + 1
  /\ Goto(c, "closed")
  /\ ForgetLocals(c)
  /\ UNCHANGED <<accessVars, hello, replayOrder, forgotten, admitted, late, overrun>>

-----------------------------------------------------------------------------
(* handle(): the handshake.                                                *)
ReadHello(c, h) ==
  /\ pc[c] = "hello"
  /\ h.grant \in grants
  /\ Goto(c, "verify")
  /\ hello' = [hello EXCEPT ![c] = h]
  /\ late' = IF h.grant.sid \in active THEN late ELSE late \cup {c}
  /\ UNCHANGED <<accessVars, slots, sid, left, relayed, replayOrder, forgotten, admitted, overrun>>

(* Ten seconds of silence, an end of file, or a line that is no JSON.      *)
HelloFailed(c) == Move(c, "hello", "closing")

(* The handshake is refused: a reply with the reason, then close.          *)
Refuse(c) ==
  /\ Goto(c, "closing")
  /\ hello' = [hello EXCEPT ![c] = NoHello]
  /\ UNCHANGED <<accessVars, slots, sid, left, relayed, replayOrder, forgotten, admitted, late, overrun>>

TokenValid(c) == hello[c].flaw # "form" /\ hello[c].grant.exp > clock

VerifyToken(c) == pc[c] = "verify" /\ TokenValid(c) /\ Move(c, "verify", "lookup")

RefuseToken(c) == pc[c] = "verify" /\ ~TokenValid(c) /\ Refuse(c)

(* Mutant: the grant alone is trusted, the session is not looked up.       *)
LookupSessionSkipped(c) ==
  /\ pc[c] = "lookup"
  /\ hello[c].flaw # "binding"
  /\ Move(c, "lookup", "prove")

LookupSession(c) ==
  /\ pc[c] = "lookup"
  /\ hello[c].grant.sid \in active
  /\ hello[c].flaw # "binding"
  /\ Move(c, "lookup", "prove")

RefuseSession(c) ==
  /\ pc[c] = "lookup"
  /\ hello[c].grant.sid \notin active \/ hello[c].flaw = "binding"
  /\ Refuse(c)

ProofValid(c) ==
  /\ clock - hello[c].timestamp <= MaxProofSkew
  /\ hello[c].timestamp - clock <= MaxProofSkew
  /\ hello[c].flaw # "signature"

VerifyProof(c) == pc[c] = "prove" /\ ProofValid(c) /\ Move(c, "prove", "consume")

RefuseProof(c) == pc[c] = "prove" /\ ~ProofValid(c) /\ Refuse(c)

(* consume_request_id() of a new id, under its lock: the oldest one may be *)
(* forgotten for it.                                                       *)
Consume(c) ==
  /\ Key(c) \notin Seen(replayOrder)
  /\ replayOrder' = Remember(replayOrder, Key(c))
  /\ forgotten' = forgotten \cup (Seen(replayOrder) \ Seen(replayOrder'))

RefuseReplay(c) == pc[c] = "consume" /\ Key(c) \in Seen(replayOrder) /\ Refuse(c)

(* The id is consumed and the policy says no: the id stays consumed.       *)
RefusePolicy(c) ==
  /\ pc[c] = "consume"
  /\ Consume(c)
  /\ hello[c].flaw = "policy"
  /\ Goto(c, "closing")
  /\ hello' = [hello EXCEPT ![c] = NoHello]
  /\ UNCHANGED <<accessVars, slots, sid, left, relayed, admitted, late, overrun>>

(* Mutant: the id is looked up before and added after the lock is free.    *)
AdmitUnlocked(c) ==
  /\ pc[c] = "consume"
  /\ replayOrder' = Remember(replayOrder, Key(c))
  /\ forgotten' = forgotten \cup (Seen(replayOrder) \ Seen(replayOrder'))
  /\ hello[c].flaw = "none"
  /\ Goto(c, hello[c].mode)
  /\ admitted' = [admitted EXCEPT ![Key(c)] = @ \cup {c}]
  /\ sid' = [sid EXCEPT ![c] = hello[c].grant.sid]
  /\ hello' = [hello EXCEPT ![c] = NoHello]
  /\ UNCHANGED <<accessVars, slots, left, relayed, late, overrun>>

(* The id is consumed, the policy agrees, {"ok": true} is sent.            *)
Admit(c) ==
  /\ pc[c] = "consume"
  /\ Consume(c)
  /\ hello[c].flaw = "none"
  /\ Goto(c, hello[c].mode)
  /\ admitted' = [admitted EXCEPT ![Key(c)] = @ \cup {c}]
  /\ sid' = [sid EXCEPT ![c] = hello[c].grant.sid]
  /\ hello' = [hello EXCEPT ![c] = NoHello]
  /\ UNCHANGED <<accessVars, slots, left, relayed, late, overrun>>

-----------------------------------------------------------------------------
(* History: the handler delivers something for its session.                *)
Deliver(c) ==
  overrun' = IF sid[c] \in active THEN overrun ELSE [overrun EXCEPT ![c] = @ + 1]

(* _handle_tcp(): frames until FIN (FrameCodec), a valid HTTP request; or  *)
(* a bad frame, too many bytes, ten seconds, an end of file.               *)
CollectRequest(c) == Move(c, "tcp", "upstream")
CollectFailed(c) == Move(c, "tcp", "closing")

(* The resource is dialled, the request sent on, the stream acknowledged.  *)
DialUpstream(c) ==
  /\ pc[c] = "upstream"
  /\ Goto(c, "relay_check")
  /\ left' = [left EXCEPT ![c] = RelayRounds]
  /\ Deliver(c)
  /\ UNCHANGED <<accessVars, slots, hello, sid, relayed, replayOrder, forgotten, admitted, late>>

DialFailed(c) == Move(c, "upstream", "closing")

RelayDeadline(c) == left[c] = 0 /\ Move(c, "relay_check", "closing")

RelayCheck(c) ==
  /\ left[c] > 0
  /\ sid[c] \in active
  /\ Move(c, "relay_check", "relay_recv")

RelayEnded(c) ==
  /\ left[c] > 0
  /\ sid[c] \notin active
  /\ Move(c, "relay_check", "closing")

(* Mutant: the deadline is computed anew in every round.                   *)
RelayTimeoutForever(c) == Move(c, "relay_recv", "relay_check")

(* upstream.recv() timed out: back to the loop's test, with less time.     *)
RelayTimeout(c) ==
  /\ pc[c] = "relay_recv"
  /\ Goto(c, "relay_check")
  /\ left' = [left EXCEPT ![c] = @ - 1]
  /\ UNCHANGED <<accessVars, slots, hello, sid, relayed, replayOrder, forgotten, admitted, late, overrun>>

(* Mutant: after a chunk the loop reads on without looking at the session. *)
RelayChunkUnchecked(c) ==
  /\ pc[c] = "relay_recv"
  /\ relayed[c] < MaxRelay
  /\ relayed' = [relayed EXCEPT ![c] = @ + 1]
  /\ Deliver(c)
  /\ UNCHANGED <<accessVars, pc, slots, hello, sid, left, replayOrder, forgotten, admitted, late>>

(* A chunk comes at once, or only after some of the time has passed.       *)
RelayChunk(c) ==
  /\ pc[c] = "relay_recv"
  /\ relayed[c] < MaxRelay
  /\ relayed' = [relayed EXCEPT ![c] = @ + 1]
  /\ \E delay \in {0, 1} : left' = [left EXCEPT ![c] = @ - delay]
  /\ Deliver(c)
  /\ Goto(c, "relay_check")
  /\ UNCHANGED <<accessVars, slots, hello, sid, replayOrder, forgotten, admitted, late>>

RelayOverLimit(c) == relayed[c] = MaxRelay /\ Move(c, "relay_recv", "closing")

(* The resource closed: FIN to the client.  Or either socket failed.       *)
RelayFinished(c) == Move(c, "relay_recv", "closing")

-----------------------------------------------------------------------------
(* _handle_l3(): one packet, acknowledged if its route and source address  *)
(* are the session's; anything else closes the connection.                 *)
AcknowledgePacket(c) ==
  /\ pc[c] = "l3"
  /\ Goto(c, "closing")
  /\ Deliver(c)
  /\ UNCHANGED <<accessVars, slots, hello, sid, left, relayed, replayOrder, forgotten, admitted, late>>

RefusePacket(c) == Move(c, "l3", "closing")

-----------------------------------------------------------------------------
(* The client writes the time of its own clock, which may be ahead.        *)
Timestamps == 0..(clock + MaxProofSkew + 1)

Handle(c) ==
  \/ HelloFailed(c) \/ VerifyToken(c) \/ RefuseToken(c)
  \/ LookupSession(c) \/ RefuseSession(c) \/ VerifyProof(c) \/ RefuseProof(c)
  \/ RefuseReplay(c) \/ RefusePolicy(c) \/ Admit(c)
  \/ CollectRequest(c) \/ CollectFailed(c) \/ DialUpstream(c) \/ DialFailed(c)
  \/ RelayDeadline(c) \/ RelayCheck(c) \/ RelayEnded(c)
  \/ RelayTimeout(c) \/ RelayChunk(c) \/ RelayOverLimit(c) \/ RelayFinished(c)
  \/ AcknowledgePacket(c) \/ RefusePacket(c)
  \/ ReleaseSlot(c)

Accept(c) == AcceptRaw(c) \/ TlsFailed(c) \/ TakeSlot(c) \/ NoSlot(c) \/ SpawnFailed(c)

Next ==
  \/ AccessNext /\ UNCHANGED gatewayVars
  \/ \E c \in Conn : Connect(c) \/ Accept(c) \/ Handle(c)
  \/ \E c \in Conn, g \in grants, r \in RequestId, ts \in Timestamps,
         m \in {"tcp", "l3"}, f \in Flaws :
       ReadHello(c, [grant |-> g, rid |-> r, timestamp |-> ts, mode |-> m, flaw |-> f])

Spec == Init /\ [][Next]_vars

-----------------------------------------------------------------------------
(* The semaphore's value and the handlers that run always add up to        *)
(* MAX_CONNECTIONS: no path through process_request, a failed thread start *)
(* or the handler's many early returns leaks a slot or returns one twice.  *)
SlotAccounting ==
  slots + Cardinality({c \in Conn : pc[c] \in Holding}) = MaxConnections

(* A request id of a session admits one connection at most, although       *)
(* copies of the handshake pass all the earlier checks side by side, as    *)
(* long as the bounded cache has not forgotten it, and the cache forgets   *)
(* nothing before it is full (how soon it forgets then: ReplayCache).      *)
AdmittedOnce ==
  /\ \A k \in (Sid \X RequestId) \ forgotten : Cardinality(admitted[k]) <= 1
  /\ forgotten # {} => Len(replayOrder) = MaxReplayIds

(* A handshake that arrives after its session ended is not admitted, even  *)
(* with a grant signed later than that and not yet expired.                *)
NoAdmissionAfterEnd ==
  \A k \in Sid \X RequestId : admitted[k] \cap late = {}

(* Once its session has ended a connection makes at most one more          *)
(* delivery: the request sent upstream, one relayed chunk, or the L3 ack.  *)
(* It is the bound the code keeps; DESIGN.md:73 asks for none at all.      *)
OneDeliveryAfterEnd == \A c \in Conn : overrun[c] <= 1

(* DESIGN.md:73: a stream whose session is revoked is closed, so that no   *)
(* request is sent to the resource and no packet acknowledged for a        *)
(* session that has ended (a chunk that is being relayed is left aside).   *)
RevokedSendsNothing ==
  \A c \in Conn : pc[c] \in Holding /\ relayed[c] = 0 => overrun[c] = 0

(* Every connection is closed in the end and its slot is free again: the   *)
(* relay loop ends by its deadline or its byte limit, and the accept loop  *)
(* gets past every handshake.  (Stack states the fairness.)                *)
ConnectionsEnd == \A c \in Conn : pc[c] = "backlog" ~> pc[c] = "closed"
=============================================================================
